-------------------------- MODULE RateLimiterProofs --------------------------
(***************************************************************************)
(* Theorems about RateLimiter, for any burst, window and idle time and any *)
(* number of addresses and requests.                                       *)
(***************************************************************************)
EXTENDS RateLimiter, TLAPS

(* The inductive invariant. *)

(* A visitor belongs to one address. *)
OneOwner ==
    /\ \A a, b \in Address : visitor[a] # None /\ visitor[a] = visitor[b] => a = b
    /\ \A r \in Request, a \in Address :
          mine[r] # None /\ mine[r] = visitor[a] => addr[r] = a
    /\ \A r, q \in Request : mine[r] # None /\ mine[r] = mine[q] => addr[r] = addr[q]

(* Every bucket in use holds what the lasting bucket would hold. *)
Covers ==
    /\ \A a \in Address : visitor[a] # None => ideal[a] <= tokens[visitor[a]]
    /\ \A r \in Request : mine[r] # None => ideal[addr[r]] <= tokens[mine[r]]

(* A bucket refills while it is quiet; a request that has stored its time  *)
(* takes its token soon.                                                   *)
Refills(v) == tokens[v] = Full \/ tokens[v] >= Burst * (quiet[v] - 2 * MaxPause)

Soon(r) == pc[r] = "ready" => quiet[mine[r]] <= MaxPause + since[r]

(* The sweep condemns the quiet, and knows who has stayed calm. *)
Calm ==
    /\ \A a \in calm : Quiet(a)
    /\ condemned \in calm =>
          /\ visitor[condemned] # None
          /\ quiet[visitor[condemned]] > Idle

(* The bucket of an address without races is the lasting one. *)
Unraced(a) ==
    /\ visitor[a] = None =>
          /\ ideal[a] = Full
          /\ \A r \in Request : addr[r] = a => mine[r] = None
    /\ visitor[a] # None =>
          /\ ideal[a] = tokens[visitor[a]]
          /\ \A r \in Request : addr[r] = a => mine[r] \in {None, visitor[a]}

InTime == Window + 2 * MaxPause <= Idle + 1

IInv ==
    /\ TypeOK /\ OneOwner /\ Covers /\ Calm
    /\ \A v \in Visitor : Refills(v)
    /\ \A r \in Request : Soon(r)
    /\ InTime => \A a \in Address \ raced : Unraced(a)

-----------------------------------------------------------------------------
(* Arithmetic.                                                             *)

LEMMA FullNat == Full \in Nat /\ MaxQuiet \in Nat
BY Assumptions DEF Full, MaxQuiet

LEMMA Product == \A x, y \in Int : x <= y => Burst * x <= Burst * y
<1> SUFFICES ASSUME NEW x \in Int, NEW y \in Int, x <= y
             PROVE  Burst * x <= Burst * y
  OBVIOUS
<1>1. Burst \in Nat /\ y - x \in Nat
  BY Assumptions
<1>2. Burst * (y - x) \in Nat
  BY <1>1
<1>3. Burst * (y - x) = Burst * y - Burst * x
  BY <1>1
<1>4. Burst * x \in Int /\ Burst * y \in Int
  BY <1>1
<1> QED
  BY <1>2, <1>3, <1>4

LEMMA RefilledIn ==
    ASSUME NEW n \in -1..Full
    PROVE  /\ Refilled(n) \in -1..Full
           /\ n \in 0..Full => Refilled(n) \in 0..Full
           /\ n <= Refilled(n)
BY FullNat, Assumptions DEF Refilled

LEMMA RefilledMonotonic ==
    ASSUME NEW m \in -1..Full, NEW n \in -1..Full, m <= n
    PROVE  Refilled(m) <= Refilled(n)
BY FullNat, Assumptions DEF Refilled

LEMMA PaidIn ==
    ASSUME NEW n \in -1..Full
    PROVE  Paid(n) \in -1..Full /\ Paid(n) <= n
BY FullNat, Assumptions DEF Paid

LEMMA NewVisitorUnused == Unused # {} => NewVisitor \in Unused
BY DEF NewVisitor

LEMMA UnusedVisitor == Unused \subseteq Visitor
BY DEF Unused

-----------------------------------------------------------------------------
(* Type correctness.                                                       *)

LEMMA TypeInit == Init => TypeOK
<1> SUFFICES ASSUME Init PROVE TypeOK
  OBVIOUS
<1>1. /\ tokens \in [Visitor -> 0..Full] /\ quiet \in [Visitor -> 0..MaxQuiet]
      /\ since \in [Request -> 0..MaxPause] /\ elapsed \in 0..MaxPause
      /\ ideal \in [Address -> -1..Full]
  BY FullNat, Assumptions DEF Init
<1> QED
  BY <1>1 DEF Init, TypeOK

LEMMA TypeStep == TypeOK /\ [Next]_vars => TypeOK'
<1> SUFFICES ASSUME TypeOK, [Next]_vars PROVE TypeOK'
  OBVIOUS
<1> USE FullNat, Assumptions
<1>1. ASSUME NEW r \in Request, NEW a \in Address, Arrive(r, a) PROVE TypeOK'
  BY <1>1 DEF TypeOK, Arrive, buckets, cleaner
<1>2. ASSUME NEW r \in Request, Touch(r) PROVE TypeOK'
  <2>1. 0..since[r] \subseteq 0..MaxQuiet
    BY DEF TypeOK, MaxQuiet
  <2> QED
    BY <1>2, <2>1 DEF TypeOK, Touch, cleaner, history
<1>3. ASSUME NEW r \in Request, Register(r) PROVE TypeOK'
  <2>1. 0..since[r] \subseteq 0..MaxQuiet
    BY DEF TypeOK, MaxQuiet
  <2>2. NewVisitor \in Visitor
    BY <1>3, NewVisitorUnused, UnusedVisitor DEF Register
  <2>3. NewVisitor # None /\ addr[r] \in Address
    BY <1>3, <2>2 DEF Register, TypeOK
  <2>4. quiet' \in [Visitor -> 0..MaxQuiet]
    BY <1>3, <2>1 DEF TypeOK, Register
  <2>5. tokens' \in [Visitor -> 0..Full] /\ visitor' \in [Address -> Visitor \cup {None}]
    BY <1>3, <2>2 DEF TypeOK, Register, NewBucket
  <2>6. raced' \subseteq Address
    BY <1>3, <2>3 DEF TypeOK, Register
  <2> QED
    BY <1>3, <2>2, <2>3, <2>4, <2>5, <2>6 DEF TypeOK, Register, cleaner
<1>4. ASSUME NEW r \in Request, Allow(r) PROVE TypeOK'
  <2>1. mine[r] \in Visitor /\ addr[r] \in Address
    BY <1>4 DEF Allow, TypeOK
  <2>2. tokens' \in [Visitor -> 0..Full]
    BY <1>4, <2>1 DEF Allow, TypeOK, HasToken
  <2>3. ideal' \in [Address -> -1..Full]
    BY <1>4, <2>1, PaidIn DEF Allow, TypeOK
  <2> QED
    BY <1>4, <2>2, <2>3 DEF Allow, Leave, TypeOK, cleaner
<1>5. ASSUME NEW r \in Request, Refuse(r) PROVE TypeOK'
  BY <1>5 DEF TypeOK, Refuse, Leave, buckets, cleaner, history
<1>6. CASE SweepBegin
  BY <1>6 DEF TypeOK, SweepBegin, buckets, call
<1>7. ASSUME NEW a \in Address, Judge(a) PROVE TypeOK'
  BY <1>7 DEF TypeOK, Judge, buckets, call, history
<1>8. CASE Forget
  BY <1>8 DEF TypeOK, Forget, call
<1>9. CASE SweepEnds
  <2>1. 0 \in 0..MaxPause /\ {} \subseteq Address
    OBVIOUS
  <2> QED
    BY <1>9, <2>1 DEF TypeOK, SweepEnds, buckets, call
<1>10. CASE Shutdown
  BY <1>10 DEF TypeOK, Shutdown, buckets, call, history
<1>11. CASE Tick
  <2>1. tokens' \in [Visitor -> 0..Full]
    BY <1>11, RefilledIn DEF Tick, TypeOK
  <2>2. ideal' \in [Address -> -1..Full]
    BY <1>11, RefilledIn DEF Tick, TypeOK
  <2>3. quiet' \in [Visitor -> 0..MaxQuiet]
    BY <1>11 DEF Tick, TypeOK
  <2>4. since' \in [Request -> 0..MaxPause] /\ elapsed' \in 0..MaxPause
    BY <1>11 DEF Tick, TypeOK, Busy
  <2> QED
    BY <1>11, <2>1, <2>2, <2>3, <2>4 DEF Tick, TypeOK
<1>12. CASE UNCHANGED vars
  BY <1>12 DEF TypeOK, vars, buckets, call, cleaner, history
<1> QED
  BY <1>1, <1>2, <1>3, <1>4, <1>5, <1>6, <1>7, <1>8, <1>9, <1>10, <1>11, <1>12
     DEF Next, RequestStep, SweepStep

(* Every variable of a rate limiter keeps its type. *)
THEOREM TypeCorrect == Spec => []TypeOK
BY TypeInit, TypeStep, PTL DEF Spec

-----------------------------------------------------------------------------
(* Owners.                                                                 *)

LEMMA OwnerStep == TypeOK /\ OneOwner /\ [Next]_vars => OneOwner'
<1> SUFFICES ASSUME TypeOK, OneOwner, [Next]_vars PROVE OneOwner'
  OBVIOUS
<1>1. ASSUME NEW r \in Request, NEW a \in Address, Arrive(r, a) PROVE OneOwner'
  BY <1>1, Assumptions DEF OneOwner, TypeOK, Arrive, buckets
<1>2. ASSUME NEW r \in Request, Register(r) PROVE OneOwner'
  <2>1. NewVisitor \in Unused /\ NewVisitor \in Visitor /\ addr[r] \in Address
    BY <1>2, NewVisitorUnused, UnusedVisitor DEF Register, TypeOK
  <2>2. /\ \A a \in Address : visitor[a] # NewVisitor
        /\ \A q \in Request : mine[q] # NewVisitor
    BY <2>1 DEF Unused
  <2> DEFINE new == NewVisitor
  <2> HIDE DEF new
  <2>3. /\ visitor' = [visitor EXCEPT ![addr[r]] = new]
        /\ mine' = [mine EXCEPT ![r] = new]
        /\ addr' = addr
        /\ new \in Visitor
        /\ \A a \in Address : visitor[a] # new
        /\ \A q \in Request : mine[q] # new
    BY <1>2, <2>1, <2>2 DEF Register, new
  <2> QED
    BY <2>1, <2>3 DEF OneOwner, TypeOK
<1>3. ASSUME NEW r \in Request, Allow(r) \/ Refuse(r) PROVE OneOwner'
  <2>1. /\ visitor' = visitor
        /\ mine' = [mine EXCEPT ![r] = None]
        /\ addr' = [addr EXCEPT ![r] = None]
    BY <1>3 DEF Allow, Refuse, Leave, buckets
  <2> QED
    BY <2>1 DEF OneOwner, TypeOK
<1>4. CASE Forget
  <2>1. /\ visitor' = [visitor EXCEPT ![condemned] = None]
        /\ mine' = mine /\ addr' = addr
        /\ condemned \in Address
    BY <1>4 DEF Forget, call, TypeOK
  <2> QED
    BY <2>1 DEF OneOwner, TypeOK
<1>5. ASSUME UNCHANGED <<visitor, mine, addr>> PROVE OneOwner'
  BY <1>5 DEF OneOwner
<1> QED
  BY <1>1, <1>2, <1>3, <1>4, <1>5
     DEF Next, RequestStep, SweepStep, Touch, SweepBegin, Judge, SweepEnds, Shutdown, Tick,
         vars, buckets, call, cleaner, history

-----------------------------------------------------------------------------
(* No bucket holds less than the lasting one.                              *)

LEMMA CoversStep == TypeOK /\ OneOwner /\ Covers /\ [Next]_vars => Covers'
<1> SUFFICES ASSUME TypeOK, OneOwner, Covers, [Next]_vars PROVE Covers'
  OBVIOUS
<1>1. ASSUME NEW r \in Request, NEW a \in Address, Arrive(r, a) PROVE Covers'
  BY <1>1 DEF Covers, TypeOK, Arrive, buckets
<1>2. ASSUME NEW r \in Request, Register(r) PROVE Covers'
  <2> DEFINE new == NewVisitor
  <2> HIDE DEF new
  <2>1. new \in Unused /\ new \in Visitor /\ addr[r] \in Address
    BY <1>2, NewVisitorUnused, UnusedVisitor DEF Register, TypeOK, new
  <2>2. /\ \A a \in Address : visitor[a] # new
        /\ \A q \in Request : mine[q] # new
    BY <2>1 DEF Unused
  <2>3. /\ visitor' = [visitor EXCEPT ![addr[r]] = new]
        /\ mine' = [mine EXCEPT ![r] = new]
        /\ tokens' = [tokens EXCEPT ![new] = Full]
        /\ addr' = addr /\ ideal' = ideal
    BY <1>2 DEF Register, NewBucket, new
  <2>4. \A a \in Address : ideal[a] <= Full
    BY FullNat DEF TypeOK
  <2> QED
    BY <2>1, <2>2, <2>3, <2>4 DEF Covers, TypeOK
<1>3. ASSUME NEW r \in Request, Allow(r) PROVE Covers'
  <2> DEFINE v == mine[r]
             a == addr[r]
  <2>1. v \in Visitor /\ v # None /\ a \in Address
    BY <1>3, Assumptions DEF Allow, TypeOK
  <2>2. /\ visitor' = visitor
        /\ mine' = [mine EXCEPT ![r] = None]
        /\ addr' = [addr EXCEPT ![r] = None]
        /\ tokens' = [tokens EXCEPT ![v] = tokens[v] - Window]
        /\ ideal' = [ideal EXCEPT ![a] = Paid(ideal[a])]
        /\ tokens[v] >= Window
    BY <1>3 DEF Allow, Leave, HasToken
  <2>3. ideal[a] <= tokens[v]
    BY <2>1 DEF Covers
  <2>4. /\ ideal[a] \in -1..Full /\ tokens[v] \in 0..Full
        /\ Paid(ideal[a]) <= ideal[a] /\ Paid(ideal[a]) <= tokens[v] - Window
        /\ Paid(ideal[a]) \in -1..Full
    <3>1. ideal[a] \in -1..Full /\ tokens[v] \in 0..Full
      BY <2>1 DEF TypeOK
    <3> QED
      BY <3>1, <2>2, <2>3, PaidIn, FullNat, Assumptions DEF Paid
  <2>5. ASSUME NEW b \in Address, visitor'[b] # None PROVE ideal'[b] <= tokens'[visitor'[b]]
    <3>1. ideal[b] <= tokens[visitor[b]] /\ visitor[b] \in Visitor
      BY <2>2, <2>5 DEF Covers, TypeOK
    <3>2. CASE b = a
      <4>1. ideal'[b] = Paid(ideal[a])
        BY <2>1, <2>2, <3>2 DEF TypeOK
      <4>2. tokens'[visitor[b]] = IF visitor[b] = v THEN tokens[v] - Window ELSE tokens[visitor[b]]
        BY <2>1, <2>2, <3>1 DEF TypeOK
      <4>3. tokens[visitor[b]] \in 0..Full
        BY <3>1 DEF TypeOK
      <4> QED
        BY <4>1, <4>2, <4>3, <2>2, <2>4, <3>1, <3>2, FullNat, Assumptions
    <3>3. CASE b # a
      <4>1. visitor[b] # v
        BY <2>1, <3>3 DEF OneOwner
      <4> QED
        BY <2>1, <2>2, <3>1, <3>3, <4>1 DEF TypeOK
    <3> QED
      BY <3>2, <3>3
  <2>6. ASSUME NEW q \in Request, mine'[q] # None PROVE ideal'[addr'[q]] <= tokens'[mine'[q]]
    <3>1. q # r /\ mine'[q] = mine[q] /\ addr'[q] = addr[q] /\ mine[q] # None
      BY <2>2, <2>6 DEF TypeOK
    <3>2. ideal[addr[q]] <= tokens[mine[q]] /\ mine[q] \in Visitor /\ addr[q] \in Address
      BY <3>1 DEF Covers, TypeOK
    <3>3. CASE addr[q] = a
      <4>1. ideal'[addr[q]] = Paid(ideal[a])
        BY <2>1, <2>2, <3>3 DEF TypeOK
      <4>2. tokens'[mine[q]] = IF mine[q] = v THEN tokens[v] - Window ELSE tokens[mine[q]]
        BY <2>1, <2>2, <3>2 DEF TypeOK
      <4>3. tokens[mine[q]] \in 0..Full
        BY <3>2 DEF TypeOK
      <4> QED
        BY <4>1, <4>2, <4>3, <2>4, <3>1, <3>2, <3>3, FullNat, Assumptions
    <3>4. CASE addr[q] # a
      <4>1. mine[q] # v
        BY <2>1, <3>1, <3>4 DEF OneOwner
      <4> QED
        BY <2>1, <2>2, <3>1, <3>2, <3>4, <4>1 DEF TypeOK
    <3> QED
      BY <3>3, <3>4
  <2> QED
    BY <2>5, <2>6 DEF Covers
<1>4. ASSUME NEW r \in Request, Refuse(r) PROVE Covers'
  BY <1>4 DEF Covers, TypeOK, Refuse, Leave, buckets, history
<1>5. CASE Forget
  <2>1. condemned \in Address
    BY <1>5 DEF Forget, TypeOK
  <2> QED
    BY <1>5, <2>1 DEF Covers, TypeOK, Forget, call
<1>6. CASE Tick
  <2>1. ASSUME NEW a \in Address, NEW v \in Visitor, ideal[a] <= tokens[v]
        PROVE  ideal'[a] <= tokens'[v]
    <3>1. ideal[a] \in -1..Full /\ tokens[v] \in -1..Full
      BY FullNat DEF TypeOK
    <3>2. Refilled(ideal[a]) <= Refilled(tokens[v])
      BY <2>1, <3>1, RefilledMonotonic
    <3> QED
      BY <1>6, <3>2 DEF Tick
  <2>2. visitor' = visitor /\ mine' = mine /\ addr' = addr
    BY <1>6 DEF Tick
  <2>3. ASSUME NEW a \in Address, visitor'[a] # None PROVE ideal'[a] <= tokens'[visitor'[a]]
    BY <2>1, <2>2, <2>3 DEF Covers, TypeOK
  <2>4. ASSUME NEW q \in Request, mine'[q] # None PROVE ideal'[addr'[q]] <= tokens'[mine'[q]]
    BY <2>1, <2>2, <2>4 DEF Covers, TypeOK
  <2> QED
    BY <2>3, <2>4 DEF Covers
<1>7. ASSUME UNCHANGED <<visitor, mine, addr, tokens, ideal>> PROVE Covers'
  BY <1>7 DEF Covers
<1> QED
  BY <1>1, <1>2, <1>3, <1>4, <1>5, <1>6, <1>7
     DEF Next, RequestStep, SweepStep, Touch, SweepBegin, Judge, SweepEnds, Shutdown,
         vars, buckets, call, cleaner, history

-----------------------------------------------------------------------------
(* Quiet buckets refill.                                                   *)

LEMMA SoonStep ==
    TypeOK /\ (\A r \in Request : Soon(r)) /\ [Next]_vars => \A r \in Request : Soon(r)'
<1> SUFFICES ASSUME TypeOK, \A r \in Request : Soon(r), [Next]_vars,
                    NEW q \in Request, pc'[q] = "ready"
             PROVE  quiet'[mine'[q]] <= MaxPause + since'[q]
  BY DEF Soon
<1> USE Assumptions
<1>1. ASSUME NEW r \in Request, NEW n \in 0..since[r],
             NEW v \in Visitor, quiet' = [quiet EXCEPT ![v] = n],
             q # r => pc[q] = "ready" /\ mine'[q] = mine[q],
             q = r => mine'[q] = v,
             since' = since
      PROVE  quiet'[mine'[q]] <= MaxPause + since'[q]
  <2>1. n \in 0..MaxPause /\ since[q] \in 0..MaxPause
    BY <1>1 DEF TypeOK
  <2>2. CASE q # r
    <3>1. mine[q] \in Visitor /\ quiet[mine[q]] <= MaxPause + since[q]
      BY <1>1, <2>2 DEF Soon, TypeOK
    <3>2. quiet'[mine[q]] = IF mine[q] = v THEN n ELSE quiet[mine[q]]
      BY <1>1, <3>1 DEF TypeOK
    <3> QED
      BY <1>1, <2>1, <2>2, <3>1, <3>2
  <2>3. CASE q = r
    <3>1. quiet'[mine'[q]] = n
      BY <1>1, <2>3 DEF TypeOK
    <3> QED
      BY <1>1, <2>1, <3>1
  <2> QED
    BY <2>2, <2>3
<1>2. ASSUME NEW r \in Request, Touch(r) PROVE quiet'[mine'[q]] <= MaxPause + since'[q]
  <2>1. mine[r] \in Visitor
    BY <1>2 DEF Touch, TypeOK
  <2>2. PICK n \in 0..since[r] : quiet' = [quiet EXCEPT ![mine[r]] = n]
    BY <1>2 DEF Touch
  <2>3. mine' = mine /\ since' = since /\ (q # r => pc[q] = "ready")
    BY <1>2 DEF Touch, TypeOK
  <2> QED
    BY <1>1, <2>1, <2>2, <2>3
<1>3. ASSUME NEW r \in Request, Register(r) PROVE quiet'[mine'[q]] <= MaxPause + since'[q]
  <2> DEFINE new == NewVisitor
  <2>1. new \in Visitor
    BY <1>3, NewVisitorUnused, UnusedVisitor DEF Register
  <2> HIDE DEF new
  <2>2. PICK n \in 0..since[r] : quiet' = [quiet EXCEPT ![new] = n]
    BY <1>3 DEF Register, new
  <2>3. mine' = [mine EXCEPT ![r] = new] /\ since' = since /\ (q # r => pc[q] = "ready")
    BY <1>3 DEF Register, TypeOK, new
  <2>4. (q # r => mine'[q] = mine[q]) /\ (q = r => mine'[q] = new)
    BY <2>3 DEF TypeOK
  <2> QED
    BY <1>1, <2>1, <2>2, <2>3, <2>4
<1>4. CASE Tick
  <2>1. pc[q] = "ready" /\ mine'[q] = mine[q] /\ mine[q] \in Visitor /\ since'[q] = since[q] + 1
    BY <1>4 DEF Tick, TypeOK, Busy
  <2>2. quiet'[mine[q]] <= quiet[mine[q]] + 1
    BY <1>4, <2>1, FullNat DEF Tick, TypeOK
  <2>3. quiet[mine[q]] <= MaxPause + since[q]
    BY <2>1 DEF Soon
  <2>4. /\ quiet[mine[q]] \in Int /\ quiet'[mine[q]] \in Int /\ since[q] \in Int
    BY <1>4, <2>1, FullNat DEF Tick, TypeOK
  <2> QED
    BY <2>1, <2>2, <2>3, <2>4
<1>5. ASSUME pc[q] = "ready", mine'[q] = mine[q], since'[q] = since[q], quiet' = quiet
      PROVE  quiet'[mine'[q]] <= MaxPause + since'[q]
  BY <1>5 DEF Soon
<1>6. ASSUME NEW r \in Request, NEW a \in Address, Arrive(r, a)
      PROVE  quiet'[mine'[q]] <= MaxPause + since'[q]
  <2>1. q # r /\ pc[q] = "ready"
    BY <1>6 DEF Arrive, TypeOK
  <2> QED
    BY <2>1, <1>5, <1>6 DEF Arrive, TypeOK, buckets
<1>7. ASSUME NEW r \in Request, Allow(r) \/ Refuse(r)
      PROVE  quiet'[mine'[q]] <= MaxPause + since'[q]
  <2>1. q # r /\ pc[q] = "ready"
    BY <1>7 DEF Allow, Refuse, Leave, TypeOK
  <2> QED
    BY <2>1, <1>5, <1>7 DEF Allow, Refuse, Leave, TypeOK, buckets
<1>8. ASSUME UNCHANGED <<pc, mine, since, quiet>>
      PROVE  quiet'[mine'[q]] <= MaxPause + since'[q]
  BY <1>5, <1>8
<1> QED
  BY <1>2, <1>3, <1>4, <1>6, <1>7, <1>8
     DEF Next, RequestStep, SweepStep, SweepBegin, Judge, Forget, SweepEnds, Shutdown,
         vars, buckets, call, cleaner, history

LEMMA RefillsStep ==
    TypeOK /\ (\A r \in Request : Soon(r)) /\ (\A v \in Visitor : Refills(v)) /\ [Next]_vars
        => \A v \in Visitor : Refills(v)'
<1> SUFFICES ASSUME TypeOK, \A r \in Request : Soon(r), \A v \in Visitor : Refills(v),
                    [Next]_vars, NEW w \in Visitor
             PROVE  Refills(w)'
  OBVIOUS
<1> USE Assumptions
<1>t. /\ tokens[w] \in 0..Full /\ quiet[w] \in 0..MaxQuiet
      /\ Full \in Nat /\ MaxQuiet \in Nat
      /\ tokens[w] = Full \/ tokens[w] >= Burst * (quiet[w] - 2 * MaxPause)
  BY FullNat DEF TypeOK, Refills
(* A visitor just seen owes nothing yet. *)
<1>1. ASSUME tokens'[w] \in Nat, quiet'[w] \in 0..2 * MaxPause
      PROVE  Refills(w)'
  <2>1. quiet'[w] - 2 * MaxPause <= 0 /\ quiet'[w] - 2 * MaxPause \in Int
    BY <1>1
  <2>2. Burst * (quiet'[w] - 2 * MaxPause) <= Burst * 0
    BY <2>1, Product
  <2>3. Burst * (quiet'[w] - 2 * MaxPause) \in Int /\ Burst * 0 = 0
    BY <2>1
  <2> QED
    BY <1>1, <2>2, <2>3 DEF Refills
<1>2. ASSUME UNCHANGED <<tokens[w], quiet[w]>> PROVE Refills(w)'
  BY <1>2 DEF Refills
<1>3. ASSUME NEW r \in Request, Touch(r) PROVE Refills(w)'
  <2>1. PICK n \in 0..since[r] : quiet' = [quiet EXCEPT ![mine[r]] = n]
    BY <1>3 DEF Touch
  <2>2. n \in 0..MaxPause /\ tokens' = tokens
    BY <1>3, <2>1 DEF Touch, TypeOK
  <2>3. CASE w = mine[r]
    <3>1. quiet'[w] = n
      BY <2>1, <2>3 DEF TypeOK
    <3> QED
      BY <1>t, <2>2, <3>1, <1>1
  <2>4. CASE w # mine[r]
    BY <2>1, <2>2, <2>4, <1>2 DEF TypeOK
  <2> QED
    BY <2>3, <2>4
<1>4. ASSUME NEW r \in Request, Register(r) PROVE Refills(w)'
  <2>1. CASE w = NewVisitor
    BY <1>4, <2>1 DEF Register, NewBucket, Refills, TypeOK
  <2>2. CASE w # NewVisitor
    <3>1. quiet'[w] = quiet[w] /\ tokens'[w] = tokens[w]
      BY <1>4, <2>2 DEF Register, TypeOK
    <3> QED
      BY <3>1, <1>2
  <2> QED
    BY <2>1, <2>2
<1>5. ASSUME NEW r \in Request, Allow(r) PROVE Refills(w)'
  <2>1. CASE w = mine[r]
    <3>1. quiet' = quiet /\ tokens'[w] = tokens[w] - Window /\ tokens[w] >= Window
      BY <1>5, <2>1 DEF Allow, HasToken, TypeOK
    <3>2. quiet[w] <= MaxPause + since[r] /\ since[r] \in 0..MaxPause
      BY <1>5, <2>1 DEF Allow, Soon, TypeOK
    <3>3. tokens'[w] \in Nat /\ quiet'[w] \in 0..2 * MaxPause
      BY <1>t, <3>1, <3>2
    <3> QED
      BY <3>3, <1>1
  <2>2. CASE w # mine[r]
    <3>1. quiet'[w] = quiet[w] /\ tokens'[w] = tokens[w]
      BY <1>5, <2>2 DEF Allow, TypeOK
    <3> QED
      BY <3>1, <1>2
  <2> QED
    BY <2>1, <2>2
<1>6. CASE Tick
  <2>1. tokens'[w] = Refilled(tokens[w])
    BY <1>6 DEF Tick
  <2>2. quiet'[w] \in 0..MaxQuiet /\ quiet'[w] <= quiet[w] + 1
    BY <1>t, <1>6 DEF Tick
  <2>3. CASE tokens[w] + Burst >= Full
    BY <2>1, <2>3 DEF Refilled, Refills
  <2>4. CASE tokens[w] + Burst < Full
    <3>1. tokens'[w] = tokens[w] + Burst
      BY <1>t, <2>1, <2>4 DEF Refilled
    <3>2. tokens[w] >= Burst * (quiet[w] - 2 * MaxPause)
      BY <1>t, <2>4
    <3>3. Burst * (quiet'[w] - 2 * MaxPause) <= Burst * (quiet[w] + 1 - 2 * MaxPause)
      BY <1>t, <2>2, Product
    <3>4. Burst * (quiet[w] + 1 - 2 * MaxPause) = Burst * (quiet[w] - 2 * MaxPause) + Burst
      BY <1>t
    <3>5. /\ Burst * (quiet'[w] - 2 * MaxPause) \in Int
          /\ Burst * (quiet[w] - 2 * MaxPause) \in Int
      BY <1>t, <2>2
    <3> QED
      BY <1>t, <3>1, <3>2, <3>3, <3>4, <3>5 DEF Refills
  <2> QED
    BY <1>t, <2>3, <2>4
<1>7. ASSUME UNCHANGED <<tokens, quiet>> PROVE Refills(w)'
  BY <1>2, <1>7
<1> QED
  BY <1>3, <1>4, <1>5, <1>6, <1>7
     DEF Next, RequestStep, SweepStep, Arrive, Refuse, SweepBegin, Judge, Forget, SweepEnds,
         Shutdown, vars, buckets, call, cleaner, history

-----------------------------------------------------------------------------
(* What the sweep knows.                                                   *)

LEMMA CalmStep == TypeOK /\ OneOwner /\ Calm /\ [Next]_vars => Calm'
<1> SUFFICES ASSUME TypeOK, OneOwner, Calm, [Next]_vars PROVE Calm'
  OBVIOUS
<1> USE Assumptions
<1>1. ASSUME calm' \subseteq calm, condemned' = condemned, NEW r \in Request,
             \A q \in Request : q # r => addr'[q] = addr[q],
             addr'[r] \notin calm',
             condemned \in calm' =>
                /\ visitor'[condemned] = visitor[condemned]
                /\ quiet'[visitor[condemned]] = quiet[visitor[condemned]]
      PROVE  Calm'
  BY <1>1 DEF Calm, Quiet
<1>2. ASSUME NEW r \in Request, NEW a \in Address, Arrive(r, a) PROVE Calm'
  BY <1>1, <1>2 DEF Arrive, TypeOK, buckets, cleaner
<1>3. ASSUME NEW r \in Request, Touch(r) PROVE Calm'
  <2>1. addr[r] \notin calm
    BY DEF Calm, Quiet
  <2>2. PICK n \in 0..since[r] : quiet' = [quiet EXCEPT ![mine[r]] = n]
    BY <1>3 DEF Touch
  <2>3. condemned \in calm => visitor[condemned] # mine[r]
    BY <1>3, <2>1 DEF OneOwner, TypeOK, Touch
  <2>4. condemned \in calm => quiet'[visitor[condemned]] = quiet[visitor[condemned]]
    BY <2>2, <2>3 DEF TypeOK
  <2> QED
    BY <1>1, <1>3, <2>1, <2>4 DEF Touch, cleaner, history
<1>4. ASSUME NEW r \in Request, Register(r) PROVE Calm'
  <2> DEFINE new == NewVisitor
  <2>1. new \in Visitor /\ \A a \in Address : visitor[a] # new
    BY <1>4, NewVisitorUnused, UnusedVisitor DEF Register, Unused
  <2> HIDE DEF new
  <2>2. addr[r] \notin calm /\ addr[r] \in Address
    BY <1>4 DEF Calm, Quiet, Register, TypeOK
  <2>3. PICK n \in 0..since[r] : quiet' = [quiet EXCEPT ![new] = n]
    BY <1>4 DEF Register, new
  <2>4. condemned \in calm => quiet'[visitor[condemned]] = quiet[visitor[condemned]]
    BY <2>1, <2>3 DEF TypeOK
  <2>5. condemned \in calm => visitor'[condemned] = visitor[condemned]
    BY <1>4, <2>2 DEF Register, TypeOK
  <2> QED
    BY <1>1, <1>4, <2>2, <2>4, <2>5 DEF Register, cleaner
<1>5. ASSUME NEW r \in Request, Allow(r) \/ Refuse(r) PROVE Calm'
  <2>1. addr'[r] = None /\ None \notin calm
    BY <1>5 DEF Allow, Refuse, Leave, TypeOK
  <2>2. calm' = calm /\ condemned' = condemned /\ visitor' = visitor /\ quiet' = quiet
    BY <1>5 DEF Allow, Refuse, cleaner, history, buckets
  <2>3. \A q \in Request : q # r => addr'[q] = addr[q]
    BY <1>5 DEF Allow, Refuse, Leave, TypeOK
  <2> QED
    BY <1>1, <2>1, <2>2, <2>3
<1>6. CASE SweepBegin
  <2>1. condemned = None /\ condemned' = None /\ None \notin Address
    BY <1>6 DEF SweepBegin, TypeOK
  <2>2. calm' = {a \in Address : Quiet(a)} /\ addr' = addr
    BY <1>6 DEF SweepBegin, call
  <2> QED
    BY <2>1, <2>2 DEF Calm, Quiet
<1>7. ASSUME NEW a \in Address, Judge(a) PROVE Calm'
  <2>1. /\ visitor' = visitor /\ quiet' = quiet /\ addr' = addr /\ calm' = calm
        /\ condemned' = IF visitor[a] # None /\ TooQuiet(visitor[a]) THEN a ELSE None
    BY <1>7 DEF Judge, buckets, call, history
  <2>2. None \notin calm
    BY DEF TypeOK
  <2>3. visitor[a] # None /\ TooQuiet(visitor[a]) => quiet[visitor[a]] > Idle
    BY FullNat DEF TooQuiet, TypeOK
  <2> QED
    BY <2>1, <2>2, <2>3 DEF Calm, Quiet
<1>8. CASE Forget
  <2>1. condemned' = None /\ None \notin calm' /\ calm' = calm /\ addr' = addr
    BY <1>8 DEF Forget, call, TypeOK
  <2> QED
    BY <2>1 DEF Calm, Quiet
<1>9. CASE SweepEnds
  BY <1>9 DEF Calm, SweepEnds
<1>10. CASE Tick
  <2>1. /\ visitor' = visitor /\ addr' = addr /\ calm' = calm /\ condemned' = condemned
        /\ quiet' = [v \in Visitor |-> IF quiet[v] = MaxQuiet THEN MaxQuiet ELSE quiet[v] + 1]
    BY <1>10 DEF Tick
  <2>2. ASSUME NEW v \in Visitor, quiet[v] > Idle PROVE quiet'[v] > Idle
    BY <2>1, <2>2, FullNat DEF MaxQuiet, TypeOK
  <2>3. condemned \in calm /\ visitor[condemned] # None => visitor[condemned] \in Visitor
    BY DEF TypeOK
  <2> QED
    BY <2>1, <2>2, <2>3 DEF Calm, Quiet
<1>11. CASE Shutdown
  BY <1>11 DEF Calm, Quiet, Shutdown, buckets, call, history
<1>12. CASE UNCHANGED vars
  BY <1>12 DEF Calm, Quiet, vars, buckets, call, cleaner, history
<1> QED
  BY <1>2, <1>3, <1>4, <1>5, <1>6, <1>7, <1>8, <1>9, <1>10, <1>11, <1>12
     DEF Next, RequestStep, SweepStep

(* What a sweep forgets while the address is calm. *)
LEMMA Forgiven ==
    ASSUME TypeOK, Calm, \A v \in Visitor : Refills(v), condemned \in calm
    PROVE  /\ visitor[condemned] \in Visitor
           /\ \/ tokens[visitor[condemned]] = Full
              \/ tokens[visitor[condemned]] >= Burst * (Idle + 1 - 2 * MaxPause)
           /\ InTime => tokens[visitor[condemned]] = Full
<1> DEFINE v == visitor[condemned]
<1>1. v \in Visitor /\ quiet[v] > Idle /\ quiet[v] \in Nat /\ tokens[v] \in 0..Full
  BY FullNat DEF Calm, TypeOK
<1>2. CASE tokens[v] = Full
  BY <1>1, <1>2
<1>3. CASE tokens[v] >= Burst * (quiet[v] - 2 * MaxPause)
  <2> DEFINE x == Idle + 1 - 2 * MaxPause
             y == quiet[v] - 2 * MaxPause
  <2>1. x \in Int /\ y \in Int /\ x <= y
    BY <1>1, Assumptions
  <2>2. Burst * x <= Burst * y /\ Burst * x \in Int /\ Burst * y \in Int
    BY <2>1, Product, Assumptions
  <2>3. tokens[v] >= Burst * x
    BY <1>1, <1>3, <2>2, FullNat
  <2>4. InTime => tokens[v] = Full
    <3> SUFFICES ASSUME InTime PROVE tokens[v] = Full
      OBVIOUS
    <3>1. Window <= x /\ Window \in Int
      BY Assumptions DEF InTime
    <3>2. Full <= Burst * x
      BY <3>1, <2>1, Product DEF Full
    <3> QED
      BY <3>2, <2>2, <2>3, <1>1, FullNat
  <2> QED
    BY <1>1, <2>3, <2>4
<1> QED
  BY <1>1, <1>2, <1>3 DEF Refills

-----------------------------------------------------------------------------
(* Without races there is one bucket.                                      *)

LEMMA UnracedStep ==
    ASSUME TypeOK, OneOwner, Calm, \A v \in Visitor : Refills(v), InTime,
           \A a \in Address \ raced : Unraced(a), [Next]_vars
    PROVE  \A a \in Address \ raced' : Unraced(a)'
<1> USE Assumptions
<1> SUFFICES ASSUME NEW a \in Address, a \notin raced' PROVE Unraced(a)'
  OBVIOUS
<1>r. raced \subseteq raced'
  BY DEF Next, RequestStep, SweepStep, Arrive, Touch, Register, Allow, Refuse, SweepBegin, Judge,
         Forget, SweepEnds, Shutdown, Tick, vars, cleaner, history
<1>u. Unraced(a)
  BY <1>r
<1>1. ASSUME NEW r \in Request, NEW b \in Address, Arrive(r, b) PROVE Unraced(a)'
  BY <1>1, <1>u DEF Unraced, Arrive, TypeOK, buckets
<1>2. ASSUME NEW r \in Request, Register(r) PROVE Unraced(a)'
  <2> DEFINE new == NewVisitor
  <2>1. /\ new \in Visitor /\ \A b \in Address : visitor[b] # new
        /\ addr[r] \in Address
    BY <1>2, NewVisitorUnused, UnusedVisitor DEF Register, Unused, TypeOK
  <2> HIDE DEF new
  <2>2. /\ visitor' = [visitor EXCEPT ![addr[r]] = new]
        /\ mine' = [mine EXCEPT ![r] = new]
        /\ tokens' = [tokens EXCEPT ![new] = Full]
        /\ addr' = addr /\ ideal' = ideal
        /\ addr[r] \in raced' \/ visitor[addr[r]] = None
    BY <1>2 DEF Register, NewBucket, new
  <2>3. CASE a = addr[r]
    <3>1. visitor[a] = None /\ ideal[a] = Full /\ \A q \in Request : addr[q] = a => mine[q] = None
      BY <1>u, <2>2, <2>3 DEF Unraced
    <3>2. visitor'[a] = new /\ tokens'[new] = Full /\ new # None
      BY <2>1, <2>2, <2>3 DEF TypeOK
    <3>3. \A q \in Request : addr'[q] = a => mine'[q] \in {None, new}
      BY <2>2, <3>1 DEF TypeOK
    <3> QED
      BY <2>2, <3>1, <3>2, <3>3 DEF Unraced
  <2>4. CASE a # addr[r]
    <3>1. visitor'[a] = visitor[a] /\ visitor[a] # new
      BY <2>1, <2>2, <2>4 DEF TypeOK
    <3>2. visitor[a] # None => tokens'[visitor[a]] = tokens[visitor[a]]
      BY <2>1, <2>2, <3>1 DEF TypeOK
    <3>3. \A q \in Request : addr'[q] = a => addr[q] = a /\ mine'[q] = mine[q]
      BY <2>2, <2>4 DEF TypeOK
    <3> QED
      BY <1>u, <2>2, <3>1, <3>2, <3>3 DEF Unraced
  <2> QED
    BY <2>3, <2>4
<1>3. ASSUME NEW r \in Request, Allow(r) PROVE Unraced(a)'
  <2>1. /\ visitor' = visitor
        /\ mine' = [mine EXCEPT ![r] = None]
        /\ addr' = [addr EXCEPT ![r] = None]
        /\ tokens' = [tokens EXCEPT ![mine[r]] = tokens[mine[r]] - Window]
        /\ ideal' = [ideal EXCEPT ![addr[r]] = Paid(ideal[addr[r]])]
        /\ tokens[mine[r]] >= Window
        /\ mine[r] \in Visitor /\ mine[r] # None /\ addr[r] \in Address
    BY <1>3 DEF Allow, Leave, HasToken, TypeOK
  <2>2. \A q \in Request : addr'[q] = a => addr[q] = a /\ mine'[q] = mine[q]
    BY <2>1 DEF TypeOK
  <2>3. CASE a = addr[r]
    <3>1. visitor[a] = mine[r] /\ ideal[a] = tokens[mine[r]]
      BY <1>u, <2>1, <2>3 DEF Unraced
    <3>2. ideal'[a] = Paid(tokens[mine[r]])
      BY <2>1, <2>3, <3>1 DEF TypeOK
    <3>3. tokens'[mine[r]] = tokens[mine[r]] - Window
      BY <2>1 DEF TypeOK
    <3>4. ideal'[a] = tokens'[visitor'[a]]
      BY <2>1, <3>1, <3>2, <3>3 DEF Paid
    <3> QED
      BY <1>u, <2>1, <2>2, <3>1, <3>4 DEF Unraced
  <2>4. CASE a # addr[r]
    <3>1. visitor[a] # mine[r]
      BY <2>1, <2>4 DEF OneOwner
    <3>2. visitor[a] # None => tokens'[visitor'[a]] = tokens[visitor[a]]
      BY <2>1, <3>1 DEF TypeOK
    <3>3. ideal'[a] = ideal[a]
      BY <2>1, <2>4 DEF TypeOK
    <3> QED
      BY <1>u, <2>1, <2>2, <3>2, <3>3 DEF Unraced
  <2> QED
    BY <2>3, <2>4
<1>4. ASSUME NEW r \in Request, Refuse(r) PROVE Unraced(a)'
  BY <1>4, <1>u DEF Unraced, Refuse, Leave, TypeOK, buckets, history
<1>5. CASE Forget
  <2>1. /\ visitor' = [visitor EXCEPT ![condemned] = None]
        /\ tokens' = tokens /\ mine' = mine /\ addr' = addr /\ ideal' = ideal
        /\ condemned \in Address
        /\ condemned \in calm \/ condemned \in raced'
    BY <1>5 DEF Forget, call, TypeOK
  <2>2. CASE a = condemned
    <3>1. condemned \in calm /\ visitor'[a] = None
      BY <2>1, <2>2 DEF TypeOK
    <3>2. tokens[visitor[a]] = Full /\ visitor[a] \in Visitor
      BY <2>2, <3>1, Forgiven
    <3>3. \A r \in Request : addr[r] # a
      BY <2>2, <3>1 DEF Calm, Quiet
    <3> QED
      BY <1>u, <2>1, <3>1, <3>2, <3>3 DEF Unraced, TypeOK
  <2>3. CASE a # condemned
    BY <1>u, <2>1, <2>3 DEF Unraced, TypeOK
  <2> QED
    BY <2>2, <2>3
<1>6. CASE Tick
  <2>1. /\ visitor' = visitor /\ mine' = mine /\ addr' = addr
        /\ tokens' = [v \in Visitor |-> Refilled(tokens[v])]
        /\ ideal' = [b \in Address |-> Refilled(ideal[b])]
    BY <1>6 DEF Tick
  <2>2. Refilled(Full) = Full
    BY FullNat DEF Refilled
  <2> QED
    BY <1>u, <2>1, <2>2 DEF Unraced, TypeOK
<1>7. ASSUME UNCHANGED <<visitor, mine, addr, tokens, ideal>> PROVE Unraced(a)'
  BY <1>u, <1>7 DEF Unraced
<1> QED
  BY <1>1, <1>2, <1>3, <1>4, <1>5, <1>6, <1>7
     DEF Next, RequestStep, SweepStep, Touch, SweepBegin, Judge, SweepEnds, Shutdown,
         vars, buckets, call, cleaner, history

-----------------------------------------------------------------------------
(* The inductive invariant, and what follows from it.                      *)

LEMMA InvInit == Init => IInv
<1> SUFFICES ASSUME Init PROVE IInv
  OBVIOUS
<1>1. TypeOK
  BY TypeInit
<1>2. OneOwner /\ Covers /\ Calm
  BY Assumptions DEF Init, OneOwner, Covers, Calm
<1>3. (\A v \in Visitor : Refills(v)) /\ (\A r \in Request : Soon(r))
  BY DEF Init, Refills, Soon
<1>4. \A a \in Address : Unraced(a)
  BY DEF Init, Unraced
<1> QED
  BY <1>1, <1>2, <1>3, <1>4 DEF IInv

LEMMA InvStep == IInv /\ [Next]_vars => IInv'
<1> SUFFICES ASSUME IInv, [Next]_vars PROVE IInv'
  OBVIOUS
<1>1. TypeOK' /\ OneOwner' /\ Covers' /\ Calm'
  BY TypeStep, OwnerStep, CoversStep, CalmStep DEF IInv
<1>2. (\A v \in Visitor : Refills(v)') /\ (\A r \in Request : Soon(r)')
  BY RefillsStep, SoonStep DEF IInv
<1>3. InTime' <=> InTime
  BY DEF InTime
<1>4. InTime => \A a \in Address \ raced' : Unraced(a)'
  BY UnracedStep DEF IInv
<1> QED
  BY <1>1, <1>2, <1>3, <1>4 DEF IInv

LEMMA InvCorrect == Spec => []IInv
BY InvInit, InvStep, PTL DEF Spec

(* A request is refused only when one lasting bucket of its address would  *)
(* refuse it: neither a race for the map nor the sweep costs a client its  *)
(* rate.                                                                   *)
THEOREM RefusedCorrect == Spec => RefusedFairly
<1>1. ASSUME IInv, NEW r \in Request, Refuse(r) PROVE ideal[addr[r]] < Window
  <2>1. mine[r] \in Visitor /\ mine[r] # None /\ addr[r] \in Address /\ tokens[mine[r]] < Window
    BY <1>1, Assumptions DEF IInv, TypeOK, Refuse, HasToken
  <2>2. ideal[addr[r]] <= tokens[mine[r]]
    BY <1>1, <2>1 DEF IInv, Covers
  <2>3. ideal[addr[r]] \in Int /\ tokens[mine[r]] \in Int
    BY <1>1, <2>1, FullNat DEF IInv, TypeOK
  <2> QED
    BY <2>1, <2>2, <2>3, Assumptions
<1>2. IInv /\ [Next]_vars => [\A r \in Request : Refuse(r) => ideal[addr[r]] < Window]_vars
  BY <1>1
<1> QED
  BY <1>2, InvCorrect, PTL DEF Spec, RefusedFairly

(* What a sweep forgives an address that no request crosses: never more    *)
(* than the bucket lacks after Idle + 1 ticks of refilling.                *)
THEOREM ForgivesCorrect == Spec => ForgivesLittle
<1>1. ASSUME IInv, [Next]_vars, NEW a \in calm, visitor[a] # None, visitor'[a] = None
      PROVE  \/ tokens[visitor[a]] = Full
             \/ tokens[visitor[a]] >= Burst * (Idle + 1 - 2 * MaxPause)
  <2>1. a \in Address /\ \A r \in Request : addr[r] # a
    BY <1>1 DEF IInv, TypeOK, Calm, Quiet
  <2>2. CASE Forget
    <3>1. condemned = a
      BY <1>1, <2>1, <2>2 DEF IInv, TypeOK, Forget
    <3> QED
      BY <1>1, <3>1, Forgiven DEF IInv
  <2>3. ASSUME NEW r \in Request, Register(r) PROVE FALSE
    BY <1>1, <2>1, <2>3 DEF IInv, TypeOK, Register
  <2>4. visitor' # visitor
    BY <1>1
  <2> QED
    BY <1>1, <2>2, <2>3, <2>4
       DEF Next, RequestStep, SweepStep, Arrive, Touch, Allow, Refuse, SweepBegin, Judge,
           SweepEnds, Shutdown, Tick, vars, buckets
<1> DEFINE A == \A a \in calm : visitor[a] # None /\ visitor'[a] = None =>
                   \/ tokens[visitor[a]] = Full
                   \/ tokens[visitor[a]] >= Burst * (Idle + 1 - 2 * MaxPause)
<1>2. IInv /\ [Next]_vars => [A]_vars
  BY <1>1
<1> QED
  BY <1>2, InvCorrect, PTL DEF Spec, ForgivesLittle

(* An address without races gets no more than its rate, whatever the sweep *)
(* does, when the window is over before a visitor is forgotten.            *)
THEOREM RateCorrect == Spec => []UnracedWithinRate
<1>1. ASSUME IInv, InTime, NEW a \in Address \ raced PROVE ideal[a] >= 0
  <2>1. Unraced(a)
    BY <1>1 DEF IInv
  <2>2. visitor[a] # None => tokens[visitor[a]] \in 0..Full
    BY <1>1 DEF IInv, TypeOK
  <2> QED
    BY <2>1, <2>2, FullNat DEF Unraced
<1>2. IInv => UnracedWithinRate
  BY <1>1 DEF UnracedWithinRate, InTime
<1> QED
  BY <1>2, InvCorrect, PTL

=============================================================================
