------------------------ MODULE SignedDownloadProofs ------------------------
(***************************************************************************)
(* Theorems about SignedDownload, for any finite set of requests that may  *)
(* be open at once and any sizes, limits and days.                         *)
(***************************************************************************)
EXTENDS SignedDownload, FiniteSetTheorems, TLAPS

(* The limits are numbers, far from the largest integer. *)
LEMMA LimitsNat ==
    /\ DailyLimits \subseteq Nat /\ CfgDailyLimit \in DailyLimits /\ Limits \subseteq DailyLimits
    /\ MaxInt \in Nat /\ MaxAnswer \in Nat /\ MaxFile \in 0..MaxAnswer
BY Assumptions DEF DailyLimits, MaxAnswer

-----------------------------------------------------------------------------
(* int64 arithmetic.                                                       *)

LEMMA ModSmall ==
    ASSUME NEW a \in Nat, NEW b \in Nat, a < b
    PROVE  a % b = a
OBVIOUS

LEMMA ModLess ==
    ASSUME NEW a \in Nat, NEW b \in Nat \ {0}
    PROVE  a % b \in Nat /\ a % b < b
OBVIOUS

LEMMA DivLess ==
    ASSUME NEW a \in Nat, NEW b \in Nat \ {0}, NEW c \in Nat, a < c * b
    PROVE  a \div b < c
OBVIOUS

LEMMA DivNat ==
    ASSUME NEW a \in Nat, NEW b \in Nat \ {0}
    PROVE  a \div b \in Nat
OBVIOUS

LEMMA DivProduct ==
    ASSUME NEW c \in Nat, NEW b \in Nat \ {0}
    PROVE  (c * b) \div b = c
OBVIOUS

LEMMA WrappedSmall ==
    ASSUME NEW n \in 0..MaxInt
    PROVE  Wrapped(n) = n
<1>1. n + MaxInt + 1 \in Nat /\ 2 * (MaxInt + 1) \in Nat /\ n + MaxInt + 1 < 2 * (MaxInt + 1)
  BY LimitsNat
<1>2. (n + MaxInt + 1) % (2 * (MaxInt + 1)) = n + MaxInt + 1
  BY <1>1, ModSmall
<1> QED
  BY <1>2, LimitsNat DEF Wrapped

(* Only an overflow makes the product smaller. *)
LEMMA WrappedLarge ==
    ASSUME NEW n \in Nat, n > MaxInt
    PROVE  Wrapped(n) \in Int /\ Wrapped(n) < n /\ Wrapped(n) <= MaxInt
<1> DEFINE a == n + MaxInt + 1
           b == 2 * (MaxInt + 1)
<1>1. a \in Nat /\ b \in Nat \ {0} /\ b <= a
  BY LimitsNat
<1>2. a % b \in Nat /\ a % b < b
  BY <1>1, ModLess
<1> QED
  BY <1>1, <1>2, LimitsNat DEF Wrapped

(* The division in GenerateSignedLink finds every overflow of the product, *)
(* and nothing else.                                                       *)
LEMMA EstimatedExact ==
    ASSUME NEW s \in Nat, NEW n \in Nat \ {0}
    PROVE  Estimated(s, n) = IF s * n <= MaxInt THEN s * n ELSE MaxInt
<1> DEFINE p == s * n
<1>1. p \in Nat
  OBVIOUS
<1>2. CASE p <= MaxInt
  <2>1. Wrapped(p) = p
    BY <1>1, <1>2, LimitsNat, WrappedSmall
  <2>2. p \div n = s
    BY DivProduct
  <2>3. Quotient(p, n) = s
    BY <1>1, <2>2 DEF Quotient
  <2> QED
    BY <1>2, <2>1, <2>3 DEF Estimated
<1>3. CASE p > MaxInt
  <2> DEFINE w == Wrapped(p)
  <2>1. w \in Int /\ w < p
    BY <1>1, <1>3, WrappedLarge
  <2>2. s > 0
    <3>1. s = 0 => p = 0
      OBVIOUS
    <3> QED
      BY <3>1, <1>3, LimitsNat
  <2> HIDE DEF w
  <2>3. CASE w < 0
    <3>1. (-w) \div n \in Nat
      BY <2>1, <2>3, DivNat
    <3>2. Quotient(w, n) = -((-w) \div n)
      BY <2>3 DEF Quotient
    <3> QED
      BY <2>2, <3>1, <3>2, <1>1, <1>3, LimitsNat DEF Estimated, w
  <2>4. CASE w >= 0
    <3>1. w \div n < s /\ w \div n \in Nat
      BY <2>1, <2>4, DivLess, DivNat
    <3>2. Quotient(w, n) = w \div n
      BY <2>1, <2>4 DEF Quotient
    <3> QED
      BY <3>1, <3>2, <1>1, <1>3, LimitsNat DEF Estimated, w
  <2> QED
    BY <2>1, <2>3, <2>4
<1> QED
  BY <1>1, <1>2, <1>3, LimitsNat

-----------------------------------------------------------------------------
(* Type correctness.                                                       *)

LEMMA TypeInit == Init => TypeOK
BY Assumptions, LimitsNat DEF Init, TypeOK, Budget!Init, Stage, MaxAnswer

(* A request that is answered is idle again; the others go on. *)
LEMMA AnswerType ==
    ASSUME TypeOK, NEW r \in Request, Answer(r)
    PROVE  /\ pc' \in [Request -> Stage]
           /\ tok' \in [Request -> Token \cup {None}]
           /\ bytes' \in [Request -> 0..MaxAnswer]
           /\ wanted' \in [Request -> Wish \cup {None}]
           /\ pc'[r] = "idle"
           /\ \A q \in Request \ {r} :
                 pc'[q] = pc[q] /\ tok'[q] = tok[q] /\ wanted'[q] = wanted[q]
BY Assumptions DEF TypeOK, Answer, Goto, Stage, MaxAnswer

LEMMA TypeStep == TypeOK /\ [Next]_vars => TypeOK'
<1> SUFFICES ASSUME TypeOK, [Next]_vars PROVE TypeOK'
  OBVIOUS
<1> USE Assumptions
<1> USE DEF budget, disk, rules, call, Goto, Answer, Stage, MaxAnswer
<1>1. ASSUME NEW r \in Request, NEW f \in File, NEW n \in Asked,
             NEW byKey \in BOOLEAN, GenerateCheck(r, f, n, byKey)
      PROVE  TypeOK'
  <2>0. PICK fits \in BOOLEAN : wanted' = [wanted EXCEPT ![r] = <<f, n, fits>>]
    BY <1>1 DEF GenerateCheck
  <2>1. failures' \in 0..MaxFailures
    BY <1>1 DEF TypeOK, GenerateCheck, CheckLimit
  <2>2. wanted' \in [Request -> Wish \cup {None}] /\ wanted'[r] = <<f, n, fits>>
    BY <2>0 DEF TypeOK, Wish
  <2>3. <<f, n, fits>> # None
    BY <2>0
  <2> QED
    BY <1>1, <2>1, <2>2, <2>3 DEF TypeOK, GenerateCheck
<1>2. ASSUME NEW r \in Request, NEW t \in Token, GenerateIssue(r, t)
      PROVE  TypeOK'
  <2>0. wanted[r] \in Wish \cup {None} /\ wanted[r] # None
    <3>1. wanted \in [Request -> Wish \cup {None}]
      BY DEF TypeOK
    <3>2. pc[r] = "generating"
      BY <1>2 DEF GenerateIssue
    <3>3. wanted[r] # None
      BY <3>2 DEF TypeOK
    <3> QED
      BY <3>1, <3>3
  <2>1. /\ wanted[r] \in Wish
        /\ wanted[r][1] \in File /\ wanted[r][2] \in Nat
    <3>1. wanted[r] \in Wish
      BY <2>0
    <3>2. Asked \subseteq Nat
      BY Assumptions
    <3> QED
      BY <3>1, <3>2 DEF Wish
  <2>2. /\ limit' \in [Token -> Nat] /\ left' \in [Token -> Nat] /\ granted' = granted
        /\ file' \in [Token -> File \cup {None}]
        /\ \A s \in Token : left'[s] > 0 => file'[s] \in File
        /\ \A s \in Token : file[s] \in File => file'[s] \in File
    <3>1. /\ limit' = [limit EXCEPT ![t] = wanted[r][2]]
          /\ left' = [left EXCEPT ![t] = wanted[r][2]]
          /\ file' = [file EXCEPT ![t] = wanted[r][1]]
          /\ granted' = granted
      BY <1>2 DEF GenerateIssue, Budget!Issue
    <3> QED
      BY <2>1, <3>1 DEF TypeOK
  <2>3. Answer(r)
    BY <1>2 DEF GenerateIssue
  <2>4. \A q \in Request :
           /\ pc'[q] \in Stage \ {"idle", "generating"} =>
                 tok'[q] \in Token /\ file'[tok'[q]] \in File
           /\ pc'[q] = "generating" => wanted'[q] # None
    BY <2>2, <2>3, AnswerType DEF TypeOK
  <2> HIDE DEF Answer, Goto
  <2> QED
    BY <1>2, <2>2, <2>3, <2>4, AnswerType DEF TypeOK, GenerateIssue
<1>3. ASSUME NEW r \in Request, NEW t \in Token, Validate(r, t)
      PROVE  TypeOK'
  BY <1>3 DEF TypeOK, Validate
<1>4. ASSUME NEW r \in Request, Locate(r)
      PROVE  TypeOK'
  BY <1>4 DEF TypeOK, Locate
<1>5. ASSUME NEW r \in Request, Measure(r)
      PROVE  TypeOK'
  <2>0. size[file[tok[r]]] \in 0..MaxFile \cup {None}
    BY <1>5 DEF TypeOK, Measure
  <2>1. bytes' \in [Request -> 0..MaxAnswer]
    BY <1>5, <2>0 DEF TypeOK, Measure
  <2> QED
    BY <1>5, <2>1 DEF TypeOK, Measure
<1>6. ASSUME NEW r \in Request, Clear(r)
      PROVE  TypeOK'
  <2>1. failures' \in 0..MaxFailures
    BY <1>6 DEF TypeOK, Clear, CheckLimit
  <2> HIDE DEF MaxAnswer
  <2> QED
    BY <1>6, <2>1 DEF TypeOK, Clear
<1>7. ASSUME NEW r \in Request, Consume(r)
      PROVE  TypeOK'
  <2>1. /\ tok[r] \in Token /\ left[tok[r]] > 0 /\ limit' = limit
        /\ left' = [left EXCEPT ![tok[r]] = @ - 1]
        /\ granted' = [granted EXCEPT ![tok[r]] = @ + 1]
    BY <1>7 DEF TypeOK, Consume, Budget!Grant
  <2>2. /\ left' \in [Token -> Nat] /\ granted' \in [Token -> Nat]
        /\ \A s \in Token : left'[s] > 0 => left[s] > 0
    <3>1. left \in [Token -> Nat] /\ granted \in [Token -> Nat]
      BY DEF TypeOK
    <3>2. left[tok[r]] - 1 \in Nat /\ granted[tok[r]] + 1 \in Nat
      BY <2>1, <3>1
    <3> QED
      BY <2>1, <3>1, <3>2
  <2> QED
    BY <1>7, <2>1, <2>2 DEF TypeOK, Consume
<1>8. ASSUME NEW r \in Request, Refuse(r)
      PROVE  TypeOK'
  <2>1. Answer(r) /\ UNCHANGED <<budget, disk, day, traffic, rules, served, failures>>
    BY <1>8 DEF Refuse
  <2> HIDE DEF Answer, Goto
  <2>2. \A q \in Request :
           /\ pc'[q] \in Stage \ {"idle", "generating"} =>
                 tok'[q] \in Token /\ file'[tok'[q]] \in File
           /\ pc'[q] = "generating" => wanted'[q] # None
    BY <2>1, AnswerType DEF TypeOK
  <2> QED
    BY <2>1, <2>2, AnswerType DEF TypeOK
<1>9. ASSUME NEW r \in Request, Send(r)
      PROVE  TypeOK'
  <2>0. tok[r] \in Token /\ size[file[tok[r]]] \in 0..MaxFile \cup {None}
    BY <1>9 DEF TypeOK, Send
  <2>1. bytes' \in [Request -> 0..MaxAnswer]
    <3>1. \E n \in 0..MaxAnswer : bytes' = [bytes EXCEPT ![r] = n]
      <4> DEFINE s == size[file[tok[r]]]
      <4>1. \E n \in IF s = None THEN {NotFoundPage} ELSE 0..(s + Framing) :
               bytes' = [bytes EXCEPT ![r] = n]
        BY <1>9 DEF Send
      <4>2. s # None => s \in 0..MaxFile
        BY <2>0
      <4> HIDE DEF s
      <4>3. CASE s = None
        <5>1. NotFoundPage \in 0..MaxAnswer
          OBVIOUS
        <5> HIDE DEF MaxAnswer
        <5> QED
          BY <4>1, <4>3, <5>1
      <4>4. CASE s # None
        <5>1. s + Framing <= MaxAnswer /\ s + Framing \in Nat /\ MaxAnswer \in Nat
          BY <4>2, <4>4
        <5> HIDE DEF MaxAnswer
        <5>2. \A n \in 0..(s + Framing) : n \in 0..MaxAnswer
          BY <5>1
        <5> QED
          BY <4>1, <4>4, <5>2
      <4> QED
        BY <4>3, <4>4
    <3>2. bytes \in [Request -> 0..MaxAnswer]
      BY DEF TypeOK
    <3> HIDE DEF MaxAnswer
    <3> QED
      BY <3>1, <3>2
  <2>2. served' \in [Token -> Nat]
    BY <1>9, <2>0 DEF TypeOK, Send
  <2> QED
    BY <1>9, <2>1, <2>2 DEF TypeOK, Send
<1>10. ASSUME NEW r \in Request, Record(r)
      PROVE  TypeOK'
  BY <1>10 DEF TypeOK, Record
<1>11. CASE LoseDownloads
  BY <1>11 DEF TypeOK, LoseDownloads
<1>12. ASSUME NEW f \in File, ChangeFile(f)
      PROVE  TypeOK'
  <2>1. size' \in [File -> 0..MaxFile \cup {None}]
    BY <1>12 DEF TypeOK, ChangeFile
  <2> QED
    BY <1>12, <2>1 DEF TypeOK, ChangeFile
<1>13. ASSUME NEW n \in Limits, SetDailyLimit(n)
      PROVE  TypeOK'
  BY <1>13, LimitsNat DEF TypeOK, SetDailyLimit
<1>14. CASE Restart
  <2>1. /\ pc' \in [Request -> Stage] /\ tok' \in [Request -> Token \cup {None}]
        /\ bytes' \in [Request -> 0..MaxAnswer]
        /\ wanted' \in [Request -> Wish \cup {None}]
        /\ \A r \in Request : pc'[r] = "idle"
    BY <1>14 DEF Restart
  <2>2. dailyLimit' \in DailyLimits /\ dailyLimit' <= highest'
    BY <1>14, LimitsNat DEF TypeOK, Restart
  <2> QED
    BY <1>14, <2>1, <2>2 DEF TypeOK, Restart
<1>15. CASE Midnight
  BY <1>15 DEF TypeOK, Midnight
<1>16. CASE UNCHANGED vars
  BY <1>16 DEF TypeOK, vars
<1> QED
  BY <1>1, <1>2, <1>3, <1>4, <1>5, <1>6, <1>7, <1>8, <1>9, <1>10, <1>11,
     <1>12, <1>13, <1>14, <1>15, <1>16 DEF Next

(* Every variable keeps its type. *)
THEOREM TypeCorrect == Spec => []TypeOK
BY TypeInit, TypeStep, PTL DEF Spec

-----------------------------------------------------------------------------
(* Sets of requests: what a request that enters or leaves one does to its  *)
(* size.                                                                   *)

LEMMA RequestSets ==
    ASSUME NEW S \in SUBSET Request
    PROVE  /\ IsFiniteSet(S) /\ Cardinality(S) \in Nat
           /\ Cardinality(S) <= Cardinality(Request)
           /\ \A r \in Request \ S : Cardinality(S \cup {r}) = Cardinality(S) + 1
           /\ \A r \in S : Cardinality(S \ {r}) = Cardinality(S) - 1
<1>1. IsFiniteSet(S) /\ Cardinality(S) <= Cardinality(Request)
  BY Assumptions, FS_Subset
<1>2. Cardinality(S) \in Nat
  BY <1>1, FS_CardinalityType
<1>3. ASSUME NEW r \in Request \ S
      PROVE  Cardinality(S \cup {r}) = Cardinality(S) + 1
  BY <1>1, <1>3, FS_AddElement
<1>4. ASSUME NEW r \in S PROVE Cardinality(S \ {r}) = Cardinality(S) - 1
  BY <1>1, <1>4, FS_RemoveElement
<1> QED
  BY <1>1, <1>2, <1>3, <1>4

(* Room for one answer more. *)
LEMMA OneMore ==
    ASSUME NEW n \in Nat
    PROVE  /\ MaxAnswer \in Nat
           /\ MaxAnswer * n \in Nat
           /\ MaxAnswer * (n + 1) = MaxAnswer * n + MaxAnswer
BY Assumptions DEF MaxAnswer

LEMMA Monotone ==
    ASSUME NEW m \in Nat, NEW n \in Nat, m <= n
    PROVE  MaxAnswer * m <= MaxAnswer * n
<1>1. MaxAnswer \in Nat
  BY OneMore
<1>2. PICK k \in Nat : n = m + k
  <2> WITNESS n - m \in Nat
  <2> QED
    OBVIOUS
<1>3. MaxAnswer * (m + k) = MaxAnswer * m + MaxAnswer * k
  BY <1>1
<1>4. MaxAnswer * k \in Nat /\ MaxAnswer * m \in Nat
  BY OneMore
<1> QED
  BY <1>2, <1>3, <1>4

-----------------------------------------------------------------------------
(* The traffic of a day.  Between its check and its record a download has  *)
(* passed a check that did not count the others: what is recorded and what *)
(* those in flight may still add stay, together, within the bound.         *)

Room(n) == highest + MaxAnswer * n

TrafficInv ==
    /\ traffic[day] + MaxAnswer * Cardinality(InFlight)
          <= Room(Cardinality(Request) + failures)
    /\ \A d \in 1..Days : d > day => traffic[d] = 0
    /\ TrafficBounded

LEMMA InFlightSet == InFlight \in SUBSET Request
BY DEF InFlight

(* One more request never takes more than the room there is for it. *)
LEMMA RoomGrows ==
    ASSUME TypeOK, TypeOK', highest <= highest', failures <= failures'
    PROVE  /\ Cardinality(Request) + failures \in Nat
           /\ Cardinality(Request) + failures' \in Nat
           /\ Room(Cardinality(Request) + failures) \in Nat
           /\ Room(Cardinality(Request) + failures)' \in Nat
           /\ Room(Cardinality(Request) + failures)
                 <= Room(Cardinality(Request) + failures)'
<1> DEFINE m == Cardinality(Request) + failures
           n == Cardinality(Request) + failures'
<1>1. m \in Nat /\ n \in Nat /\ m <= n
  BY RequestSets, Assumptions DEF TypeOK
<1>2. MaxAnswer * m <= MaxAnswer * n
  BY <1>1, Monotone
<1>3. MaxAnswer * m \in Nat /\ MaxAnswer * n \in Nat
  BY <1>1, OneMore
<1>4. highest \in Nat /\ highest' \in Nat
  BY LimitsNat DEF TypeOK, DailyLimits
<1>5. Room(m)' = highest' + MaxAnswer * n
  BY DEF Room, MaxAnswer
<1> QED
  BY <1>1, <1>2, <1>3, <1>4, <1>5 DEF Room

LEMMA TrafficInit == Init => TrafficInv
<1> SUFFICES ASSUME Init PROVE TrafficInv
  OBVIOUS
<1>1. TypeOK /\ highest \in Nat
  BY TypeInit, LimitsNat DEF TypeOK
<1>2. Cardinality(InFlight) \in Nat /\ Cardinality(Request) \in Nat
      /\ Cardinality(InFlight) <= Cardinality(Request)
  BY InFlightSet, RequestSets
<1>3. /\ failures = 0 /\ day = 1 /\ traffic[day] \in 0..CfgDailyLimit
      /\ \A d \in 1..Days : d # day => traffic[d] = 0
      /\ highest = CfgDailyLimit
  BY Assumptions DEF Init
<1>4. MaxAnswer * Cardinality(InFlight) <= MaxAnswer * Cardinality(Request)
  BY <1>2, Monotone
<1>5. MaxAnswer * Cardinality(InFlight) \in Nat /\ MaxAnswer * Cardinality(Request) \in Nat
  BY <1>2, OneMore
<1>6. Cardinality(Request) + failures = Cardinality(Request)
  BY <1>2, <1>3
<1> QED
  BY <1>1, <1>3, <1>4, <1>5, <1>6, Assumptions DEF TrafficInv, TrafficBounded, Room

(* Steps that neither record nor let a download through. *)
LEMMA TrafficQuiet ==
    ASSUME TypeOK, TypeOK', TrafficInv, UNCHANGED <<day, traffic>>,
           highest <= highest', failures <= failures', InFlight' \subseteq InFlight
    PROVE  TrafficInv'
<1> DEFINE N == Cardinality(Request) + failures
<1>1. /\ Room(N) \in Nat /\ Room(N) <= Room(N)'
      /\ Room(N)' \in Nat
  BY RoomGrows
<1>2. /\ Cardinality(InFlight') \in Nat /\ Cardinality(InFlight) \in Nat
      /\ Cardinality(InFlight') <= Cardinality(InFlight)
  <2>1. IsFiniteSet(InFlight)
    BY InFlightSet, RequestSets
  <2>2. Cardinality(InFlight') <= Cardinality(InFlight)
    BY <2>1, FS_Subset
  <2>3. InFlight' \in SUBSET Request
    BY InFlightSet
  <2> QED
    BY <2>2, <2>3, InFlightSet, RequestSets
<1>3. MaxAnswer * Cardinality(InFlight') <= MaxAnswer * Cardinality(InFlight)
  BY <1>2, Monotone
<1>4. /\ MaxAnswer * Cardinality(InFlight') \in Nat
      /\ MaxAnswer * Cardinality(InFlight) \in Nat
  BY <1>2, OneMore
<1>5. traffic[day] \in Nat /\ \A d \in 1..Days : traffic[d] \in Nat
  BY DEF TypeOK
<1>6. traffic'[day'] + MaxAnswer * Cardinality(InFlight') <= Room(N)'
  BY <1>1, <1>3, <1>4, <1>5 DEF TrafficInv
<1>7. \A d \in 1..Days : traffic'[d] <= Room(N)'
  BY <1>1, <1>5 DEF TrafficInv, TrafficBounded, Room
<1>8. MaxAnswer' = MaxAnswer
  BY DEF MaxAnswer
<1> QED
  BY <1>6, <1>7, <1>8 DEF TrafficInv, TrafficBounded, Room

(* Within the bound, today's traffic can be counted: with one answer more  *)
(* and with everything a link can be issued for it stays below MaxInt.     *)
LEMMA NoOverflow ==
    ASSUME TypeOK, TrafficInv
    PROVE  /\ \A n \in 0..MaxAnswer : traffic[day] + n \in 0..MaxInt
           /\ \A n \in 0..(MaxFile * MaxDownloads) : traffic[day] + n \in 0..MaxInt
           /\ dailyLimit < MaxInt
<1> DEFINE N == Cardinality(Request)
           m == N + failures
           k == N + MaxFailures
<1>1. /\ N \in Nat /\ m \in Nat /\ k \in Nat /\ m <= k /\ k + 1 \in Nat
      /\ highest \in DailyLimits /\ highest \in Nat /\ dailyLimit \in Nat /\ dailyLimit <= highest
      /\ traffic[day] \in Nat
  BY RequestSets, Assumptions, LimitsNat DEF TypeOK
<1>2. /\ MaxAnswer * m <= MaxAnswer * k
      /\ MaxAnswer * (k + 1) = MaxAnswer * k + MaxAnswer
      /\ MaxAnswer * m \in Nat /\ MaxAnswer * k \in Nat /\ MaxFile * MaxDownloads \in Nat
      /\ MaxAnswer \in Nat /\ MaxAnswer >= 1
  <2>1. MaxAnswer * m <= MaxAnswer * k
    BY <1>1, Monotone
  <2>2. /\ MaxAnswer * (k + 1) = MaxAnswer * k + MaxAnswer
        /\ MaxAnswer * m \in Nat /\ MaxAnswer * k \in Nat
    BY <1>1, OneMore
  <2>3. MaxFile * MaxDownloads \in Nat
    BY Assumptions
  <2>4. MaxAnswer \in Nat /\ MaxAnswer >= 1
    BY Assumptions DEF MaxAnswer
  <2> QED
    BY <2>1, <2>2, <2>3, <2>4
<1>3. highest + MaxAnswer * (k + 1) + MaxFile * MaxDownloads <= MaxInt
  BY <1>1, RoomToCount
<1>4. traffic[day] <= highest + MaxAnswer * m
  BY DEF TrafficInv, TrafficBounded, TypeOK
<1> HIDE DEF m, k
<1>5. /\ traffic[day] + MaxAnswer <= MaxInt
      /\ traffic[day] + MaxFile * MaxDownloads <= MaxInt
      /\ highest + MaxAnswer <= MaxInt
  BY <1>1, <1>2, <1>3, <1>4, LimitsNat
<1> QED
  BY <1>1, <1>2, <1>5, LimitsNat

(* CheckLimit lets a download through: either today's traffic is within    *)
(* the limit, and there is room for every request, or its read has failed, *)
(* and the bound has grown with it.                                        *)
LEMMA TrafficClear ==
    ASSUME TypeOK, TypeOK', TrafficInv, NEW r \in Request, Clear(r)
    PROVE  TrafficInv'
<1> DEFINE C == Cardinality(InFlight)
           N == Cardinality(Request)
<1> USE DEF rules
<1>1. /\ UNCHANGED <<day, traffic, highest>>
      /\ CheckLimit(bytes[r])
      /\ MaxAnswer' = MaxAnswer
  BY DEF Clear, MaxAnswer
<1>2. /\ InFlight' = InFlight \cup {r}
      /\ r \in Request \ InFlight
  BY DEF Clear, Goto, InFlight, TypeOK
<1>3. /\ C \in Nat /\ N \in Nat /\ C + 1 \in Nat /\ C + 1 <= N
      /\ Cardinality(InFlight') = C + 1
  <2>1. Cardinality(InFlight') = C + 1
    BY <1>2, InFlightSet, RequestSets
  <2>2. Cardinality(InFlight') <= N
    <3>1. InFlight' \in SUBSET Request
      BY <1>2, InFlightSet
    <3> QED
      BY <3>1, RequestSets
  <2> QED
    BY <2>1, <2>2, InFlightSet, RequestSets, FS_CardinalityType, Assumptions
<1>4. /\ MaxAnswer \in Nat /\ MaxAnswer * C \in Nat /\ MaxAnswer * (C + 1) \in Nat
      /\ MaxAnswer * (C + 1) = MaxAnswer * C + MaxAnswer
      /\ MaxAnswer * (C + 1) <= MaxAnswer * N
      /\ MaxAnswer * N \in Nat
  BY <1>3, OneMore, Monotone
<1>5. /\ highest \in Nat /\ dailyLimit <= highest /\ dailyLimit \in Nat
      /\ traffic[day] \in Nat /\ bytes[r] \in Nat /\ failures \in Nat
      /\ \A d \in 1..Days : traffic[d] \in Nat
  <2>1. bytes[r] \in 0..MaxAnswer
    BY DEF TypeOK
  <2>2. bytes[r] \in Nat
    BY <2>1
  <2>3. failures \in Nat /\ day \in 1..Days /\ \A d \in 1..Days : traffic[d] \in Nat
    BY Assumptions DEF TypeOK
  <2>4. highest \in Nat /\ dailyLimit <= highest /\ dailyLimit \in Nat
    BY LimitsNat DEF TypeOK
  <2> QED
    BY <2>2, <2>3, <2>4
<1>6. CASE WithinLimit(bytes[r]) /\ UNCHANGED failures
  <2>1. traffic[day] <= highest
    <3>1. traffic[day] + bytes[r] \in 0..MaxInt
      BY <1>5, NoOverflow DEF TypeOK
    <3>2. traffic[day] + bytes[r] <= dailyLimit
      BY <1>6, <3>1, WrappedSmall DEF WithinLimit, TodayTotal
    <3> QED
      BY <1>5, <3>2
  <2>2. MaxAnswer * N <= MaxAnswer * (N + failures) /\ MaxAnswer * (N + failures) \in Nat
    <3>1. N + failures \in Nat /\ N <= N + failures
      BY <1>3, <1>5
    <3> QED
      BY <1>3, <3>1, Monotone, OneMore
  <2>3. traffic'[day'] + MaxAnswer * Cardinality(InFlight')
           <= highest + MaxAnswer * (N + failures)
    BY <1>1, <1>3, <1>4, <1>5, <2>1, <2>2
  <2> QED
    BY <1>1, <1>6, <2>3 DEF TrafficInv, TrafficBounded, Room
<1>7. CASE failures' = failures + 1
  <2>1. /\ N + failures \in Nat
        /\ N + failures' = (N + failures) + 1
    BY <1>3, <1>5, <1>7
  <2>2. /\ MaxAnswer * (N + failures') = MaxAnswer * (N + failures) + MaxAnswer
        /\ MaxAnswer * (N + failures) \in Nat
    BY <2>1, OneMore
  <2>3. traffic[day] + MaxAnswer * C <= highest + MaxAnswer * (N + failures)
    BY DEF TrafficInv, Room
  <2>4. traffic'[day'] + MaxAnswer * Cardinality(InFlight')
           <= highest + MaxAnswer * (N + failures')
    BY <1>1, <1>3, <1>4, <1>5, <2>2, <2>3
  <2>5. \A d \in 1..Days : traffic'[d] <= highest + MaxAnswer * (N + failures')
    BY <1>1, <1>4, <1>5, <2>2 DEF TrafficInv, TrafficBounded
  <2> QED
    BY <1>1, <2>4, <2>5 DEF TrafficInv, TrafficBounded, Room
<1> QED
  BY <1>1, <1>6, <1>7 DEF CheckLimit

(* What is recorded was in flight until now. *)
LEMMA TrafficRecord ==
    ASSUME TypeOK, TypeOK', TrafficInv, NEW r \in Request, Record(r)
    PROVE  TrafficInv'
<1> DEFINE C == Cardinality(InFlight)
           B == highest + MaxAnswer * (Cardinality(Request) + failures)
<1>1. /\ UNCHANGED <<day, highest, failures>>
      /\ traffic' \in {traffic, [traffic EXCEPT ![day] = @ + bytes[r]]}
      /\ MaxAnswer' = MaxAnswer
  BY DEF Record, MaxAnswer, rules
<1>2. /\ InFlight' = InFlight \ {r}
      /\ r \in InFlight
  BY DEF Record, Answer, Goto, InFlight, TypeOK
<1>3. /\ C \in Nat /\ C - 1 \in Nat
      /\ Cardinality(InFlight') = C - 1
  <2>1. Cardinality(InFlight') = C - 1
    BY <1>2, InFlightSet, RequestSets
  <2>2. InFlight' \in SUBSET Request
    BY <1>2, InFlightSet
  <2> QED
    BY <2>1, <2>2, InFlightSet, RequestSets
<1>4. /\ MaxAnswer \in Nat /\ MaxAnswer * (C - 1) \in Nat
      /\ MaxAnswer * ((C - 1) + 1) = MaxAnswer * (C - 1) + MaxAnswer
      /\ (C - 1) + 1 = C
  <2> DEFINE k == C - 1
  <2>1. k \in Nat /\ k + 1 = C
    BY <1>3
  <2> HIDE DEF k
  <2>2. /\ MaxAnswer \in Nat /\ MaxAnswer * k \in Nat
        /\ MaxAnswer * (k + 1) = MaxAnswer * k + MaxAnswer
    BY <2>1, OneMore
  <2> QED
    BY <2>1, <2>2 DEF k
<1>5. /\ day \in 1..Days /\ bytes[r] \in 0..MaxAnswer
      /\ \A d \in 1..Days : traffic[d] \in Nat
  BY DEF TypeOK
<1>6. B \in Nat
  <2>1. highest <= highest' /\ failures <= failures'
    BY <1>1, LimitsNat DEF TypeOK
  <2> QED
    BY <2>1, RoomGrows DEF Room
<1>7. traffic[day] + MaxAnswer * C <= B
  BY DEF TrafficInv, Room
<1>8. /\ traffic'[day] <= traffic[day] + bytes[r]
      /\ \A d \in (1..Days) \ {day} : traffic'[d] = traffic[d]
      /\ traffic'[day] \in Nat
  BY <1>1, <1>4, <1>5 DEF TypeOK
<1>9. traffic'[day] + MaxAnswer * (C - 1) <= B
  BY <1>4, <1>5, <1>6, <1>7, <1>8
<1>10. \A d \in 1..Days : traffic'[d] <= B
  BY <1>4, <1>5, <1>6, <1>8, <1>9 DEF TrafficInv, TrafficBounded
<1> QED
  BY <1>1, <1>3, <1>5, <1>8, <1>9, <1>10 DEF TrafficInv, TrafficBounded, Room

(* A new day has no traffic yet. *)
LEMMA TrafficMidnight ==
    ASSUME TypeOK, TypeOK', TrafficInv, Midnight
    PROVE  TrafficInv'
<1> DEFINE C == Cardinality(InFlight)
           B == highest + MaxAnswer * (Cardinality(Request) + failures)
<1>1. /\ UNCHANGED <<traffic, highest, failures>> /\ day' = day + 1
      /\ MaxAnswer' = MaxAnswer /\ InFlight' = InFlight
  BY DEF Midnight, rules, call, InFlight, MaxAnswer
<1>2. /\ traffic[day] \in Nat /\ day \in 1..Days /\ day' \in 1..Days
  BY DEF TypeOK
<1>3. traffic'[day'] = 0
  BY <1>1, <1>2 DEF TrafficInv
<1>4. MaxAnswer * C \in Nat /\ B \in Nat
  <2>1. C \in Nat
    BY InFlightSet, RequestSets
  <2>2. MaxAnswer * C \in Nat
    BY <2>1, OneMore
  <2>3. highest <= highest' /\ failures <= failures'
    BY <1>1, LimitsNat DEF TypeOK
  <2> QED
    BY <2>2, <2>3, RoomGrows DEF Room
<1>5. traffic[day] + MaxAnswer * C <= B
  BY DEF TrafficInv, Room
<1>6. traffic'[day'] + MaxAnswer * C <= B
  BY <1>2, <1>3, <1>4, <1>5
<1> QED
  BY <1>1, <1>2, <1>6 DEF TrafficInv, TrafficBounded, Room

LEMMA TrafficStep == TypeOK /\ TrafficInv /\ [Next]_vars => TrafficInv'
<1> SUFFICES ASSUME TypeOK, TrafficInv, [Next]_vars PROVE TrafficInv'
  OBVIOUS
<1>0. TypeOK' /\ highest \in Nat /\ failures \in Nat
  <2>1. TypeOK'
    BY TypeStep
  <2>2. highest \in Nat /\ failures \in 0..MaxFailures
    BY LimitsNat DEF TypeOK
  <2> QED
    BY <2>1, <2>2
<1> USE DEF rules, call, Goto, Answer, InFlight
<1>1. ASSUME NEW r \in Request, NEW f \in File, NEW n \in Asked,
             NEW byKey \in BOOLEAN, GenerateCheck(r, f, n, byKey)
      PROVE  TrafficInv'
  <2>1. failures <= failures'
    BY <1>0, <1>1 DEF GenerateCheck, CheckLimit
  <2>2. InFlight' \subseteq InFlight
    BY <1>1 DEF GenerateCheck, TypeOK
  <2> QED
    BY <1>0, <1>1, <2>1, <2>2, TrafficQuiet DEF GenerateCheck
<1>2. ASSUME NEW r \in Request,
             \/ \E t \in Token : GenerateIssue(r, t) \/ Validate(r, t)
             \/ Locate(r) \/ Measure(r) \/ Consume(r) \/ Refuse(r) \/ Send(r)
      PROVE  TrafficInv'
  <2>1. UNCHANGED <<day, traffic, highest, failures>>
    BY <1>2 DEF GenerateIssue, Validate, Locate, Measure, Consume, Refuse, Send
  <2>2. InFlight' \subseteq InFlight
    BY <1>2 DEF GenerateIssue, Validate, Locate, Measure, Consume, Refuse, Send, TypeOK
  <2> QED
    BY <1>0, <2>1, <2>2, TrafficQuiet
<1>3. ASSUME NEW r \in Request, Clear(r) PROVE TrafficInv'
  BY <1>0, <1>3, TrafficClear
<1>4. ASSUME NEW r \in Request, Record(r) PROVE TrafficInv'
  BY <1>0, <1>4, TrafficRecord
<1>5. CASE \/ LoseDownloads
           \/ \E f \in File : ChangeFile(f)
           \/ UNCHANGED vars
  <2>1. UNCHANGED <<day, traffic, highest, failures, pc>>
    BY <1>5 DEF LoseDownloads, ChangeFile, vars
  <2> QED
    BY <1>0, <2>1, TrafficQuiet
<1>6. ASSUME NEW n \in Limits, SetDailyLimit(n) PROVE TrafficInv'
  <2>1. n \in Nat
    BY Assumptions
  <2>2. highest <= highest'
    BY <1>0, <1>6, <2>1 DEF SetDailyLimit
  <2>3. UNCHANGED <<day, traffic, failures, pc>>
    BY <1>6 DEF SetDailyLimit
  <2> QED
    BY <1>0, <2>2, <2>3, TrafficQuiet
<1>7. CASE Restart
  <2>1. InFlight' = {}
    BY <1>7 DEF Restart
  <2>2. UNCHANGED <<day, traffic, highest, failures>>
    BY <1>7 DEF Restart
  <2> QED
    BY <1>0, <2>1, <2>2, TrafficQuiet
<1>8. CASE Midnight
  BY <1>0, <1>8, TrafficMidnight
<1> QED
  BY <1>1, <1>2, <1>3, <1>4, <1>5, <1>6, <1>7, <1>8 DEF Next

(* However checks, sends, records, midnights, restarts and changes of the  *)
(* limit interleave, a day's recorded traffic exceeds the highest limit by *)
(* no more than one answer for each request that can be open at once, and  *)
(* one for each failed read.                                               *)
THEOREM TrafficCorrect == Spec => []TrafficBounded
<1>1. Init => TypeOK /\ TrafficInv
  BY TypeInit, TrafficInit
<1>2. TypeOK /\ TrafficInv /\ [Next]_vars => (TypeOK /\ TrafficInv)'
  BY TypeStep, TrafficStep
<1>3. TrafficInv => TrafficBounded
  BY DEF TrafficInv
<1> QED
  BY <1>1, <1>2, <1>3, PTL DEF Spec

-----------------------------------------------------------------------------
(* The estimate for a link.                                                *)

LEMMA ProductWithin ==
    ASSUME NEW s \in 0..MaxFile, NEW n \in Nat, n <= MaxDownloads
    PROVE  s * n \in 0..(MaxFile * MaxDownloads)
<1>1. PICK a \in Nat : MaxFile = s + a
  <2>1. MaxFile - s \in Nat
    BY Assumptions
  <2> WITNESS MaxFile - s \in Nat
  <2> QED
    BY <2>1, Assumptions
<1>2. PICK b \in Nat : MaxDownloads = n + b
  <2>1. MaxDownloads - n \in Nat
    BY Assumptions
  <2> WITNESS MaxDownloads - n \in Nat
  <2> QED
    BY <2>1, Assumptions
<1>3. (s + a) * (n + b) = s * n + s * b + a * n + a * b
  OBVIOUS
<1>4. s * n \in Nat /\ s * b \in Nat /\ a * n \in Nat /\ a * b \in Nat
  OBVIOUS
<1> QED
  BY <1>1, <1>2, <1>3, <1>4

(* The check of an estimate: exact while the product can be counted, and   *)
(* refused on a day without traffic when it cannot.                        *)
LEMMA EstimateStep ==
    ASSUME TypeOK, TrafficInv, NEW s \in 0..MaxFile, NEW n \in Asked,
           WithinLimit(Estimated(s, n))
    PROVE  \/ TodayTotal + s * n <= dailyLimit
           \/ TodayTotal > 0 /\ n > MaxDownloads
<1> DEFINE p == s * n
           t == traffic[day]
<1>1. /\ n \in Nat \ {0} /\ s \in Nat /\ p \in Nat
      /\ t \in Nat /\ dailyLimit \in Nat /\ dailyLimit < MaxInt /\ MaxInt \in Nat
  <2>1. n \in Nat \ {0} /\ s \in Nat /\ MaxInt \in Nat
    BY Assumptions
  <2>2. t \in Nat /\ dailyLimit \in Nat
    BY LimitsNat DEF TypeOK
  <2> QED
    BY <2>1, <2>2, NoOverflow
<1>2. Estimated(s, n) = IF p <= MaxInt THEN p ELSE MaxInt
  BY <1>1, EstimatedExact
<1>3. Wrapped(t + Estimated(s, n)) <= dailyLimit
  BY DEF WithinLimit, TodayTotal
<1>4. CASE n <= MaxDownloads
  <2>1. p \in 0..(MaxFile * MaxDownloads)
    BY <1>1, <1>4, ProductWithin
  <2>2. t + p \in 0..MaxInt
    BY <2>1, NoOverflow
  <2>3. Estimated(s, n) = p
    BY <1>1, <1>2, <2>2
  <2>4. Wrapped(t + p) = t + p
    BY <2>2, WrappedSmall
  <2> QED
    BY <1>3, <2>3, <2>4 DEF TodayTotal
<1>5. CASE t = 0
  <2>1. Estimated(s, n) \in 0..MaxInt /\ t + Estimated(s, n) = Estimated(s, n)
    BY <1>1, <1>2, <1>5
  <2>2. Estimated(s, n) <= dailyLimit
    BY <1>3, <2>1, WrappedSmall
  <2>3. Estimated(s, n) = p
    BY <1>1, <1>2, <2>2
  <2> QED
    BY <1>1, <1>5, <2>2, <2>3 DEF TodayTotal
<1> HIDE DEF p
<1> QED
  BY <1>1, <1>4, <1>5, Assumptions DEF TodayTotal

(* A request past a check that was wrong asks for more downloads than any  *)
(* link is issued for.                                                     *)
FitsInv ==
    \A r \in Request :
        pc[r] = "generating" /\ ~wanted[r][3] => wanted[r][2] > MaxDownloads

LEMMA FitsStep == TypeOK /\ TrafficInv /\ FitsInv /\ [Next]_vars => FitsInv'
<1> SUFFICES ASSUME TypeOK, TrafficInv, FitsInv, [Next]_vars PROVE FitsInv'
  OBVIOUS
<1>1. ASSUME NEW r \in Request, NEW f \in File, NEW n \in Asked, NEW byKey \in BOOLEAN,
             GenerateCheck(r, f, n, byKey)
      PROVE  FitsInv'
  <2> DEFINE checked == byKey /\ size[f] # None /\ failures' = failures
             fits == checked => FitsDay(f, n)
  <2>1. /\ wanted' = [wanted EXCEPT ![r] = <<f, n, fits>>]
        /\ pc' = [pc EXCEPT ![r] = "generating"]
    BY <1>1 DEF GenerateCheck, Goto
  <2>2. ASSUME ~fits PROVE n > MaxDownloads
    <3>1. size[f] \in 0..MaxFile
      BY <2>2 DEF TypeOK
    <3>2. failures \in Nat
      BY Assumptions DEF TypeOK
    <3>3. CheckLimit(Estimated(size[f], n))
      BY <1>1, <2>2 DEF GenerateCheck
    <3>4. WithinLimit(Estimated(size[f], n))
      BY <2>2, <3>2, <3>3 DEF CheckLimit
    <3> QED
      BY <2>2, <3>1, <3>4, EstimateStep DEF FitsDay
  <2>3. wanted'[r][3] = fits /\ wanted'[r][2] = n
    BY <2>1 DEF TypeOK
  <2>4. \A q \in Request \ {r} : pc'[q] = pc[q] /\ wanted'[q] = wanted[q]
    BY <2>1 DEF TypeOK
  <2> HIDE DEF fits
  <2> QED
    BY <2>2, <2>3, <2>4 DEF FitsInv
<1>2. ASSUME NEW r \in Request,
             \/ \E t \in Token : GenerateIssue(r, t)
             \/ Refuse(r) \/ Record(r)
      PROVE  FitsInv'
  <2>1. Answer(r)
    BY <1>2 DEF GenerateIssue, Refuse, Record
  <2> QED
    BY <2>1, AnswerType DEF FitsInv
<1>3. ASSUME NEW r \in Request,
             \/ \E t \in Token : Validate(r, t)
             \/ Locate(r) \/ Measure(r) \/ Clear(r) \/ Consume(r) \/ Send(r)
      PROVE  FitsInv'
  <2>1. /\ wanted' = wanted
        /\ \E s \in Stage \ {"generating"} : pc' = [pc EXCEPT ![r] = s]
    BY <1>3 DEF Validate, Locate, Measure, Clear, Consume, Send, Goto, Stage
  <2> QED
    BY <2>1 DEF FitsInv, TypeOK
<1>4. CASE \/ LoseDownloads
           \/ \E f \in File : ChangeFile(f)
           \/ \E n \in Limits : SetDailyLimit(n)
           \/ Midnight
           \/ UNCHANGED vars
  <2>1. wanted' = wanted /\ pc' = pc
    BY <1>4 DEF LoseDownloads, ChangeFile, SetDailyLimit, Midnight, vars, call
  <2> QED
    BY <2>1 DEF FitsInv
<1>5. CASE Restart
  BY <1>5 DEF Restart, FitsInv
<1> QED
  BY <1>1, <1>2, <1>3, <1>4, <1>5 DEF Next

(* No key gets a link whose downloads did not fit the day when it was      *)
(* checked.  The check itself may be wrong, when the largest integer and   *)
(* the day's traffic wrap around; then the bound of Generate refuses.      *)
THEOREM LinkFitsCorrect == Spec => LinkFitsDay
<1>1. Init => TypeOK /\ TrafficInv /\ FitsInv
  BY TypeInit, TrafficInit DEF Init, FitsInv
<1>2. TypeOK /\ TrafficInv /\ FitsInv /\ [Next]_vars => (TypeOK /\ TrafficInv /\ FitsInv)'
  BY TypeStep, TrafficStep, FitsStep
<1>3. TypeOK /\ FitsInv =>
         [\A r \in Request, t \in Token : GenerateIssue(r, t) => wanted[r][3]]_vars
  <2> SUFFICES ASSUME TypeOK, FitsInv, NEW r \in Request, NEW t \in Token,
                      GenerateIssue(r, t)
               PROVE  wanted[r][3]
    OBVIOUS
  <2>1. pc[r] = "generating" /\ wanted[r][2] <= MaxDownloads
    BY DEF GenerateIssue
  <2>2. wanted[r] \in Wish
    BY <2>1 DEF TypeOK
  <2>3. wanted[r][2] \in Nat
    <3>1. Asked \subseteq Nat
      BY Assumptions
    <3> QED
      BY <2>2, <3>1 DEF Wish
  <2> QED
    BY <2>1, <2>3, Assumptions DEF FitsInv
<1> QED
  BY <1>1, <1>2, <1>3, PTL DEF Spec, LinkFitsDay

-----------------------------------------------------------------------------
(* The downloads of a link: what was served was granted before, and what   *)
(* was granted came off what was left.                                     *)

Paid(t) == {r \in Request : pc[r] = "paid" /\ tok[r] = t}

ServedInv ==
    \A t \in Token : /\ served[t] + Cardinality(Paid(t)) <= granted[t]
                     /\ granted[t] + left[t] <= limit[t]

LEMMA PaidType == \A t : Paid(t) \in SUBSET Request /\ Cardinality(Paid(t)) \in Nat
<1>1. ASSUME NEW t PROVE Paid(t) \in SUBSET Request
  BY DEF Paid
<1> QED
  BY <1>1, RequestSets

LEMMA ServedInit == Init => ServedInv
<1> SUFFICES ASSUME Init, NEW t \in Token
             PROVE  /\ served[t] + Cardinality(Paid(t)) <= granted[t]
                    /\ granted[t] + left[t] <= limit[t]
  BY DEF ServedInv
<1>1. Paid(t) = {}
  BY DEF Init, Paid
<1>2. Cardinality(Paid(t)) = 0
  BY <1>1, FS_EmptySet
<1> QED
  BY <1>2 DEF Init, Budget!Init

(* Steps that pay nothing and serve nothing. *)
LEMMA ServedQuiet ==
    ASSUME TypeOK, TypeOK', ServedInv, UNCHANGED <<served, granted>>, NEW t \in Token,
           Paid(t)' \subseteq Paid(t),
           granted[t] + left[t] <= limit[t] => granted[t] + left'[t] <= limit'[t]
    PROVE  /\ served'[t] + Cardinality(Paid(t)') <= granted'[t]
           /\ granted'[t] + left'[t] <= limit'[t]
<1>1. Cardinality(Paid(t)') <= Cardinality(Paid(t))
  BY PaidType, RequestSets, FS_Subset
<1>2. Cardinality(Paid(t)') \in Nat /\ Cardinality(Paid(t)) \in Nat
  <2>1. Paid(t)' \in SUBSET Request
    BY PaidType
  <2> QED
    BY <2>1, PaidType, RequestSets
<1>3. served[t] \in Nat /\ granted[t] \in Nat
  BY DEF TypeOK
<1> QED
  BY <1>1, <1>2, <1>3 DEF ServedInv

LEMMA ServedConsume ==
    ASSUME TypeOK, TypeOK', ServedInv, NEW r \in Request, Consume(r)
    PROVE  ServedInv'
<1>1. /\ tok[r] \in Token /\ pc[r] = "cleared" /\ UNCHANGED <<served, tok>>
      /\ left[tok[r]] > 0 /\ limit' = limit
      /\ left' = [left EXCEPT ![tok[r]] = @ - 1]
      /\ granted' = [granted EXCEPT ![tok[r]] = @ + 1]
      /\ pc' = [pc EXCEPT ![r] = "paid"]
  BY DEF TypeOK, Consume, Budget!Grant, Goto, Stage
<1> SUFFICES ASSUME NEW t \in Token
             PROVE  /\ served'[t] + Cardinality(Paid(t)') <= granted'[t]
                    /\ granted'[t] + left'[t] <= limit'[t]
  BY DEF ServedInv
<1>2. /\ served[t] + Cardinality(Paid(t)) <= granted[t]
      /\ granted[t] + left[t] <= limit[t]
      /\ served[t] \in Nat /\ granted[t] \in Nat /\ left[t] \in Nat /\ limit[t] \in Nat
      /\ Cardinality(Paid(t)) \in Nat
  BY PaidType DEF ServedInv, TypeOK
<1>3. CASE t = tok[r]
  <2>0. /\ pc'[r] = "paid" /\ tok'[r] = t
        /\ \A q \in Request \ {r} : pc'[q] = pc[q] /\ tok'[q] = tok[q]
    BY <1>1, <1>3 DEF TypeOK
  <2>1. Paid(t)' = Paid(t) \cup {r} /\ r \in Request \ Paid(t)
    BY <1>1, <2>0 DEF Paid
  <2>2. Cardinality(Paid(t)') = Cardinality(Paid(t)) + 1
    BY <2>1, PaidType, RequestSets
  <2>3. granted'[t] = granted[t] + 1 /\ left'[t] = left[t] - 1
    BY <1>1, <1>3 DEF TypeOK
  <2> QED
    BY <1>1, <1>2, <2>2, <2>3
<1>4. CASE t # tok[r]
  <2>1. Paid(t)' = Paid(t)
    BY <1>1, <1>4 DEF Paid, TypeOK
  <2>2. granted'[t] = granted[t] /\ left'[t] = left[t]
    BY <1>1, <1>4 DEF TypeOK
  <2> QED
    BY <1>1, <1>2, <2>1, <2>2
<1> QED
  BY <1>3, <1>4

LEMMA ServedSend ==
    ASSUME TypeOK, TypeOK', ServedInv, NEW r \in Request, Send(r)
    PROVE  ServedInv'
<1>1. /\ tok[r] \in Token /\ pc[r] = "paid" /\ UNCHANGED <<limit, left, granted, tok>>
      /\ served' = [served EXCEPT ![tok[r]] = @ + 1]
      /\ pc' = [pc EXCEPT ![r] = "sent"]
  BY DEF TypeOK, Send, Goto, Stage, budget
<1> SUFFICES ASSUME NEW t \in Token
             PROVE  /\ served'[t] + Cardinality(Paid(t)') <= granted'[t]
                    /\ granted'[t] + left'[t] <= limit'[t]
  BY DEF ServedInv
<1>2. /\ served[t] + Cardinality(Paid(t)) <= granted[t]
      /\ granted[t] + left[t] <= limit[t]
      /\ served[t] \in Nat /\ granted[t] \in Nat
      /\ Cardinality(Paid(t)) \in Nat
  BY PaidType DEF ServedInv, TypeOK
<1>3. CASE t = tok[r]
  <2>1. Paid(t)' = Paid(t) \ {r} /\ r \in Paid(t)
    BY <1>1, <1>3 DEF Paid, TypeOK
  <2>2. Cardinality(Paid(t)') = Cardinality(Paid(t)) - 1
    BY <2>1, PaidType, RequestSets
  <2>3. served'[t] = served[t] + 1
    BY <1>1, <1>3 DEF TypeOK
  <2> QED
    BY <1>1, <1>2, <2>2, <2>3
<1>4. CASE t # tok[r]
  <2>1. Paid(t)' = Paid(t)
    BY <1>1, <1>4 DEF Paid, TypeOK
  <2>2. served'[t] = served[t]
    BY <1>1, <1>4 DEF TypeOK
  <2> QED
    BY <1>1, <1>2, <2>1, <2>2
<1> QED
  BY <1>3, <1>4

LEMMA ServedStep == TypeOK /\ ServedInv /\ [Next]_vars => ServedInv'
<1> SUFFICES ASSUME TypeOK, ServedInv, [Next]_vars PROVE ServedInv'
  OBVIOUS
<1>0. TypeOK'
  BY TypeStep
<1> USE DEF budget, disk, call, Goto, Answer
<1>1. ASSUME NEW r \in Request, Consume(r) PROVE ServedInv'
  BY <1>0, <1>1, ServedConsume
<1>2. ASSUME NEW r \in Request, Send(r) PROVE ServedInv'
  BY <1>0, <1>2, ServedSend
<1>3. ASSUME NEW r \in Request,
             \/ \E f \in File, n \in Asked, byKey \in BOOLEAN :
                   GenerateCheck(r, f, n, byKey)
             \/ \E t \in Token : Validate(r, t)
             \/ Locate(r) \/ Measure(r) \/ Clear(r) \/ Refuse(r) \/ Record(r)
      PROVE  ServedInv'
  <2>1. UNCHANGED <<served, granted, left, limit>>
    BY <1>3 DEF GenerateCheck, Validate, Locate, Measure, Clear, Refuse, Record
  <2>2. \A t : Paid(t)' \subseteq Paid(t)
    BY <1>3 DEF GenerateCheck, Validate, Locate, Measure, Clear, Refuse, Record, Paid, TypeOK
  <2> QED
    BY <1>0, <2>1, <2>2, ServedQuiet DEF ServedInv
<1>4. ASSUME NEW r \in Request, NEW s \in Token, GenerateIssue(r, s)
      PROVE  ServedInv'
  <2>1. /\ UNCHANGED <<served, granted>> /\ limit[s] = 0
        /\ \E n \in Nat : limit' = [limit EXCEPT ![s] = n] /\ left' = [left EXCEPT ![s] = n]
    BY <1>4 DEF GenerateIssue, Budget!Issue
  <2>2. \A t : Paid(t)' \subseteq Paid(t)
    BY <1>4 DEF GenerateIssue, Paid, TypeOK
  <2>3. \A t \in Token : granted[t] + left[t] <= limit[t] => granted[t] + left'[t] <= limit'[t]
    BY <2>1 DEF TypeOK
  <2> QED
    BY <1>0, <2>1, <2>2, <2>3, ServedQuiet DEF ServedInv
<1>5. CASE LoseDownloads
  <2>1. /\ UNCHANGED <<served, granted, limit, pc, tok>>
        /\ \A t \in Token : left'[t] <= left[t]
    BY <1>5 DEF LoseDownloads, TypeOK
  <2>2. \A t : Paid(t)' \subseteq Paid(t)
    BY <2>1 DEF Paid
  <2>3. \A t \in Token : granted[t] + left[t] <= limit[t] => granted[t] + left'[t] <= limit'[t]
    BY <1>0, <2>1 DEF TypeOK
  <2> QED
    BY <1>0, <2>1, <2>2, <2>3, ServedQuiet DEF ServedInv
<1>6. CASE \/ \E f \in File : ChangeFile(f)
           \/ \E n \in Limits : SetDailyLimit(n)
           \/ Restart \/ Midnight
           \/ UNCHANGED vars
  <2>1. UNCHANGED <<served, granted, left, limit>>
    BY <1>6 DEF ChangeFile, SetDailyLimit, Restart, Midnight, vars
  <2>2. \A t : Paid(t)' \subseteq Paid(t)
    BY <1>6 DEF ChangeFile, SetDailyLimit, Restart, Midnight, vars, Paid
  <2> QED
    BY <1>0, <2>1, <2>2, ServedQuiet DEF ServedInv
<1> QED
  BY <1>1, <1>2, <1>3, <1>4, <1>5, <1>6 DEF Next

(* No link is served more often than it was issued for, for any number of  *)
(* requests that are open at once.                                         *)
THEOREM ServedCorrect == Spec => []ServedWithinLimit
<1>1. Init => TypeOK /\ ServedInv
  BY TypeInit, ServedInit
<1>2. TypeOK /\ ServedInv /\ [Next]_vars => (TypeOK /\ ServedInv)'
  BY TypeStep, ServedStep
<1>3. TypeOK /\ ServedInv => ServedWithinLimit
  <2> SUFFICES ASSUME TypeOK, ServedInv, NEW t \in Token PROVE served[t] <= limit[t]
    BY DEF ServedWithinLimit
  <2>1. /\ served[t] \in Nat /\ granted[t] \in Nat /\ left[t] \in Nat /\ limit[t] \in Nat
        /\ Cardinality(Paid(t)) \in Nat
    BY PaidType DEF TypeOK
  <2> QED
    BY <2>1 DEF ServedInv
<1> QED
  BY <1>1, <1>2, <1>3, PTL DEF Spec

-----------------------------------------------------------------------------
(* The budget of the links.                                                *)

LEMMA BudgetStep == TypeOK /\ TypeOK' /\ [Next]_vars => [Budget!Next]_Budget!vars
<1> SUFFICES ASSUME TypeOK, TypeOK', [Next]_vars PROVE [Budget!Next]_Budget!vars
  OBVIOUS
<1> USE DEF budget, Budget!vars
<1>1. ASSUME NEW r \in Request, NEW t \in Token, GenerateIssue(r, t)
      PROVE  Budget!Next
  <2>1. Budget!Issue(t, wanted[r][2])
    BY <1>1 DEF GenerateIssue
  <2>2. limit'[t] = wanted[r][2]
    BY <2>1 DEF Budget!Issue, TypeOK
  <2> QED
    BY <2>1, <2>2 DEF Budget!Next
<1>2. ASSUME NEW r \in Request, Consume(r)
      PROVE  Budget!Next
  <2>1. tok[r] \in Token /\ Budget!Grant(tok[r])
    BY <1>2 DEF Consume, TypeOK, Stage
  <2> QED
    BY <2>1 DEF Budget!Next
<1>3. CASE LoseDownloads
  <2>1. \A t \in Token : left'[t] <= left[t]
    BY <1>3, Assumptions DEF LoseDownloads, TypeOK
  <2> QED
    BY <1>3, <2>1 DEF LoseDownloads, TypeOK, Budget!Next, Budget!Lose
<1>4. ASSUME NEW r \in Request,
             \/ \E f \in File, n \in Asked, byKey \in BOOLEAN : GenerateCheck(r, f, n, byKey)
             \/ \E t \in Token : Validate(r, t)
             \/ Locate(r) \/ Measure(r) \/ Clear(r) \/ Refuse(r) \/ Send(r) \/ Record(r)
      PROVE  UNCHANGED budget
  BY <1>4, Zenon DEF GenerateCheck, Validate, Locate, Measure, Clear, Refuse, Send, Record
<1>5. CASE \/ \E f \in File : ChangeFile(f)
           \/ \E n \in Limits : SetDailyLimit(n)
           \/ Restart \/ Midnight \/ UNCHANGED vars
  BY <1>5 DEF ChangeFile, SetDailyLimit, Restart, Midnight, vars
<1> QED
  BY <1>1, <1>2, <1>3, <1>4, <1>5 DEF Next

(* The requests use the link service only as its budget allows: what they  *)
(* are proved to keep here they keep over any service that implements the  *)
(* budget, as SignedLinks does.                                            *)
THEOREM BudgetCorrect == Spec => Budget!Spec
<1>1. Init => Budget!Init
  BY DEF Init
<1> QED
  BY <1>1, BudgetStep, TypeCorrect, PTL DEF Spec, Budget!Spec

=============================================================================
