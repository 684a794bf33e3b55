--------------------------- MODULE ApiKeysProofs ---------------------------
(***************************************************************************)
(* Theorems about ApiKeys, for any number of administrators' requests,     *)
(* keys, addresses and failing reads.                                      *)
(***************************************************************************)
EXTENDS ApiKeys, TLAPS

LEMMA ActiveKeysType ==
    ASSUME NEW rows \in [Id -> Row \cup {None}]
    PROVE  ActiveKeys(rows) \in Map
<1> SUFFICES ASSUME NEW k \in Key
             PROVE  LET holders == {i \in Id : rows[i] # None /\ rows[i].key = k}
                    IN  (IF holders = {} THEN None
                         ELSE LET i == CHOOSE j \in holders : TRUE
                              IN  [id |-> i, ips |-> rows[i].ips]) \in Entry \cup {None}
  BY DEF ActiveKeys, Map
<1> DEFINE holders == {i \in Id : rows[i] # None /\ rows[i].key = k}
<1>1. CASE holders = {}
  BY <1>1
<1>2. CASE holders # {}
  <2> DEFINE i == CHOOSE j \in holders : TRUE
  <2>1. i \in holders
    BY <1>2
  <2> HIDE DEF i
  <2>2. i \in Id /\ rows[i] \in Row
    BY <2>1
  <2>3. [id |-> i, ips |-> rows[i].ips] \in Entry
    BY <2>2 DEF Row, Entry
  <2> QED
    BY <1>2, <2>3 DEF i
<1> QED
  BY <1>1, <1>2

LEMMA EmptyType == Empty \in Map
BY DEF Empty, Map

(* What the map says of a key is what a row of the table says.             *)
LEMMA ActiveIsRow ==
    ASSUME NEW rows \in [Id -> Row \cup {None}], NEW k \in Key,
           ActiveKeys(rows)[k] # None
    PROVE  \E i \in Id : /\ rows[i] # None /\ rows[i].key = k
                        /\ rows[i].ips = ActiveKeys(rows)[k].ips
<1> DEFINE holders == {i \in Id : rows[i] # None /\ rows[i].key = k}
<1> DEFINE i == CHOOSE j \in holders : TRUE
<1>1. ActiveKeys(rows)[k] = IF holders = {} THEN None ELSE [id |-> i, ips |-> rows[i].ips]
  BY DEF ActiveKeys
<1>2. holders # {} /\ i \in holders
  BY <1>1
<1> HIDE DEF i
<1>3. ActiveKeys(rows)[k].ips = rows[i].ips
  BY <1>1, <1>2
<1> QED
  BY <1>2, <1>3

-----------------------------------------------------------------------------
(* Type correctness.                                                       *)

LEMMA TypeInit == Init => TypeOK
BY EmptyType, Assumptions DEF Init, TypeOK, RowsGivenOut

(* What the statements of the four operations leave in the table. *)
LEMMA ChangeType ==
    ASSUME TypeOK, NEW w \in Worker, NEW rows \in [Id -> Row \cup {None}],
           Change(w, rows), usedIds' \subseteq Id, usedKeys' \subseteq Key,
           RowsGivenOut(rows, usedIds', usedKeys')
    PROVE  TypeOK'
<1>1. ActiveKeys(rows) \in Map
  BY ActiveKeysType
<1>2. request' \in [Caller -> Request \cup {None}]
  <2> SUFFICES ASSUME NEW q \in Caller, request[q] # None
               PROVE  [request[q] EXCEPT !.sure = FALSE] \in Request
    BY DEF Change
  <2> QED
    BY DEF TypeOK, Request
<1> QED
  BY <1>1, <1>2 DEF TypeOK, Change

LEMMA TypeStep == TypeOK /\ [Next]_vars => TypeOK'
<1> SUFFICES ASSUME TypeOK, [Next]_vars PROVE TypeOK'
  OBVIOUS
<1>1. ASSUME NEW w \in Worker, NEW i \in Id, NEW k \in Key, CreateApiKey(w, i, k)
      PROVE  TypeOK'
  <2> DEFINE rows == [table EXCEPT ![i] = [key |-> k, ips |-> {}]]
  <2>1. rows \in [Id -> Row \cup {None}]
    BY DEF TypeOK, Row
  <2>2. Change(w, rows) /\ usedIds' \subseteq Id /\ usedKeys' \subseteq Key
    BY <1>1 DEF CreateApiKey, TypeOK
  <2>3. RowsGivenOut(rows, usedIds', usedKeys')
    BY <1>1 DEF CreateApiKey, TypeOK, RowsGivenOut, Row
  <2> QED
    BY <2>1, <2>2, <2>3, ChangeType
<1>2. ASSUME NEW w \in Worker, NEW i \in Id, NEW k \in Key, ResetApiKey(w, i, k)
      PROVE  TypeOK'
  <2> DEFINE rows == IF table[i] = None THEN table ELSE [table EXCEPT ![i].key = k]
  <2>1. rows \in [Id -> Row \cup {None}]
    BY DEF TypeOK, Row
  <2>2. Change(w, rows) /\ usedIds' \subseteq Id /\ usedKeys' \subseteq Key
    BY <1>2 DEF ResetApiKey, TypeOK
  <2>3. RowsGivenOut(rows, usedIds', usedKeys')
    BY <1>2 DEF ResetApiKey, TypeOK, RowsGivenOut, Row
  <2> QED
    BY <2>1, <2>2, <2>3, ChangeType
<1>3. ASSUME NEW w \in Worker, NEW i \in Id, DeleteApiKey(w, i)
      PROVE  TypeOK'
  <2> DEFINE rows == [table EXCEPT ![i] = None]
  <2>1. rows \in [Id -> Row \cup {None}]
    BY DEF TypeOK
  <2>2. Change(w, rows) /\ usedIds' \subseteq Id /\ usedKeys' \subseteq Key
    BY <1>3 DEF DeleteApiKey, TypeOK
  <2>3. RowsGivenOut(rows, usedIds', usedKeys')
    BY <1>3 DEF DeleteApiKey, TypeOK, RowsGivenOut, Row
  <2> QED
    BY <2>1, <2>2, <2>3, ChangeType
<1>4. ASSUME NEW w \in Worker, NEW i \in Id, NEW ips \in Whitelists,
             UpdateApiKeyWhitelist(w, i, ips)
      PROVE  TypeOK'
  <2> DEFINE rows == IF table[i] = None THEN table ELSE [table EXCEPT ![i].ips = ips]
  <2>1. rows \in [Id -> Row \cup {None}]
    BY Assumptions DEF TypeOK, Row
  <2>2. Change(w, rows) /\ usedIds' \subseteq Id /\ usedKeys' \subseteq Key
    BY <1>4 DEF UpdateApiKeyWhitelist, TypeOK
  <2>3. RowsGivenOut(rows, usedIds', usedKeys')
    BY <1>4 DEF UpdateApiKeyWhitelist, TypeOK, RowsGivenOut, Row
  <2> QED
    BY <2>1, <2>2, <2>3, ChangeType
<1>5. ASSUME NEW w \in Worker, ReadActive(w)
      PROVE  TypeOK'
  BY <1>5, ActiveKeysType DEF TypeOK, ReadActive
<1>6. ASSUME NEW w \in Worker, ReadActiveFails(w)
      PROVE  TypeOK'
  BY <1>6, Assumptions DEF TypeOK, ReadActiveFails
<1>7. ASSUME NEW w \in Worker, Install(w)
      PROVE  TypeOK'
  <2>1. past' \subseteq Map
    BY <1>7, ActiveKeysType DEF TypeOK, Install
  <2> QED
    BY <1>7, <2>1, EmptyType DEF TypeOK, Install
<1>8. CASE Restart
  <2>1. cache' \in Map /\ Empty \in Map
    BY <1>8, ActiveKeysType, EmptyType DEF TypeOK, Restart
  <2>2. failures' \in 0..MaxFailures
    BY <1>8, Assumptions DEF TypeOK, Restart
  <2>3. pc' \in [Worker -> {"idle", "changed", "read"}] /\ alone' \in [Worker -> BOOLEAN]
    BY <1>8 DEF Restart
  <2>4. snapshot' \in [Worker -> Map]
    BY <1>8, <2>1 DEF Restart
  <2>5. settled' \in BOOLEAN
    BY <1>8 DEF Restart
  <2>6. past' \subseteq Map /\ request' \in [Caller -> Request \cup {None}]
    BY <1>8, ActiveKeysType DEF TypeOK, Restart
  <2> QED
    BY <1>8, <2>1, <2>2, <2>3, <2>4, <2>5, <2>6 DEF TypeOK, Restart
<1>9. ASSUME NEW q \in Caller, NEW k \in Key, NEW address \in Address,
             ValidateApiKey(q, k, address)
      PROVE  TypeOK'
  <2>1. cache[k] \in Entry /\ settled \in BOOLEAN
    BY <1>9 DEF TypeOK, Map, ValidateApiKey
  <2>2. [key |-> k, address |-> address, ips |-> cache[k].ips,
         passed |-> FALSE, sure |-> settled] \in Request
    BY <2>1 DEF Entry, Request
  <2>3. request' \in [Caller -> Request \cup {None}]
    BY <1>9, <2>2 DEF TypeOK, ValidateApiKey
  <2> QED
    BY <1>9, <2>3 DEF TypeOK, ValidateApiKey, ops
<1>10. ASSUME NEW q \in Caller, IPWhitelist(q)
       PROVE  TypeOK'
  <2>1. [request[q] EXCEPT !.passed = TRUE] \in Request
    BY <1>10 DEF TypeOK, IPWhitelist, Request
  <2>2. request' \in [Caller -> Request \cup {None}]
    BY <1>10, <2>1 DEF TypeOK, IPWhitelist
  <2> QED
    BY <1>10, <2>2 DEF TypeOK, IPWhitelist, ops
<1>11. ASSUME NEW q \in Caller, Answer(q)
       PROVE  TypeOK'
  BY <1>11 DEF TypeOK, Answer, ops
<1>12. CASE UNCHANGED vars
  BY <1>12 DEF TypeOK, vars, ops, RowsGivenOut
<1> QED
  BY <1>1, <1>2, <1>3, <1>4, <1>5, <1>6, <1>7, <1>8, <1>9, <1>10, <1>11, <1>12 DEF Next

(* Every variable keeps its type. *)
THEOREM TypeCorrect == Spec => []TypeOK
BY TypeInit, TypeStep, PTL DEF Spec

-----------------------------------------------------------------------------
(* The inductive invariant: an operation that is alone has the table to    *)
(* itself, so the map it has built is still the table's.                   *)

AloneOK(w) ==
    alone[w] /\ pc[w] # "idle" =>
        /\ \A v \in Worker : v # w => pc[v] = "idle"
        /\ pc[w] = "read" => snapshot[w] = ActiveKeys(table)

(* A request that is sure goes by what the table says, and has passed only  *)
(* if that admits it.                                                      *)
SureOK(q) ==
    request[q] # None =>
        /\ request[q].sure =>
              /\ ActiveKeys(table)[request[q].key] # None
              /\ request[q].ips = ActiveKeys(table)[request[q].key].ips
        /\ request[q].passed => IPMatchesWhitelist(request[q].address, request[q].ips)

Inv ==
    /\ AloneRefreshSettles
    /\ \A w \in Worker : AloneOK(w)
    /\ ActiveKeys(table) \in past
    /\ \A w \in Worker : pc[w] = "read" => snapshot[w] \in past
    /\ MapIsWhole
    /\ \A q \in Caller : SureOK(q)

LEMMA ActiveOfNothing == ActiveKeys([i \in Id |-> None]) = Empty
BY DEF ActiveKeys, Empty

LEMMA InvInit == Init => Inv
BY ActiveOfNothing
   DEF Init, Inv, AloneRefreshSettles, AloneOK, SureOK, Quiet, MapIsWhole

LEMMA InvChange ==
    ASSUME TypeOK, Inv, NEW w \in Worker, NEW rows, Change(w, rows)
    PROVE  Inv'
<1>1. AloneRefreshSettles'
  BY DEF Change, AloneRefreshSettles
<1>2. ASSUME NEW v \in Worker PROVE AloneOK(v)'
  BY DEF TypeOK, Change, AloneOK
<1>3. ActiveKeys(table)' \in past' /\ past \subseteq past' /\ UNCHANGED <<cache, snapshot>>
  BY DEF Change
<1>4. ASSUME NEW v \in Worker, pc'[v] = "read" PROVE snapshot'[v] \in past'
  <2>1. pc[v] = "read"
    BY <1>4 DEF TypeOK, Change
  <2> QED
    BY <1>3, <2>1 DEF Inv
<1>5. ASSUME NEW q \in Caller PROVE SureOK(q)'
  BY DEF TypeOK, Request, Change, Inv, SureOK
<1> QED
  BY <1>1, <1>2, <1>3, <1>4, <1>5 DEF Inv, MapIsWhole

LEMMA InvStep == TypeOK /\ Inv /\ [Next]_vars => Inv'
<1> SUFFICES ASSUME TypeOK, Inv, [Next]_vars PROVE Inv'
  OBVIOUS
<1>1. ASSUME NEW w \in Worker, NEW rows, Change(w, rows)
      PROVE  Inv'
  BY <1>1, InvChange
<1>2. ASSUME NEW w \in Worker, ReadActive(w)
      PROVE  Inv'
  <2>1. ~settled
    BY <1>2 DEF ReadActive, Inv, AloneRefreshSettles, Quiet
  <2>2. ASSUME NEW v \in Worker PROVE AloneOK(v)'
    BY <1>2 DEF TypeOK, ReadActive, Inv, AloneOK
  <2>3. ASSUME NEW v \in Worker, pc'[v] = "read" PROVE snapshot'[v] \in past'
    BY <1>2, <2>3 DEF TypeOK, ReadActive, Inv
  <2>4. ASSUME NEW q \in Caller PROVE SureOK(q)'
    BY <1>2 DEF ReadActive, Inv, SureOK
  <2> QED
    BY <1>2, <2>1, <2>2, <2>3, <2>4 DEF ReadActive, Inv, AloneRefreshSettles, MapIsWhole
<1>3. ASSUME NEW w \in Worker, ReadActiveFails(w)
      PROVE  Inv'
  <2>1. ~settled
    BY <1>3 DEF ReadActiveFails, Inv, AloneRefreshSettles, Quiet
  <2>2. ASSUME NEW v \in Worker PROVE AloneOK(v)'
    BY <1>3 DEF TypeOK, ReadActiveFails, Inv, AloneOK
  <2>3. ASSUME NEW v \in Worker, pc'[v] = "read" PROVE snapshot'[v] \in past'
    BY <1>3, <2>3 DEF TypeOK, ReadActiveFails, Inv
  <2>4. ASSUME NEW q \in Caller PROVE SureOK(q)'
    BY <1>3 DEF ReadActiveFails, Inv, SureOK
  <2> QED
    BY <1>3, <2>1, <2>2, <2>3, <2>4 DEF ReadActiveFails, Inv, AloneRefreshSettles, MapIsWhole
<1>4. ASSUME NEW w \in Worker, Install(w)
      PROVE  Inv'
  <2>1. AloneRefreshSettles'
    BY <1>4 DEF TypeOK, Install, Inv, AloneOK, AloneRefreshSettles, Quiet
  <2>2. ASSUME NEW v \in Worker PROVE AloneOK(v)'
    BY <1>4 DEF TypeOK, Install, Inv, AloneOK
  <2>3. ASSUME NEW v \in Worker, pc'[v] = "read" PROVE snapshot'[v] \in past'
    BY <1>4, <2>3 DEF TypeOK, Install, Inv, AloneOK
  <2>4. ASSUME NEW q \in Caller PROVE SureOK(q)'
    BY <1>4 DEF Install, Inv, SureOK
  <2>5. ActiveKeys(table)' \in past'
    BY <1>4 DEF Install, Inv
  <2>6. MapIsWhole'
    BY <1>4 DEF TypeOK, Install, Inv, AloneOK, MapIsWhole
  <2> QED
    BY <2>1, <2>2, <2>3, <2>4, <2>5, <2>6 DEF Inv
<1>5. CASE Restart
  <2>1. AloneRefreshSettles' /\ MapIsWhole'
    BY <1>5 DEF Restart, Inv, AloneRefreshSettles, Quiet, MapIsWhole
  <2> QED
    BY <1>5, <2>1 DEF Restart, Inv, AloneOK, SureOK
<1>6. ASSUME NEW p \in Caller, NEW k \in Key, NEW address \in Address,
             ValidateApiKey(p, k, address)
      PROVE  Inv'
  <2>1. ASSUME NEW q \in Caller PROVE SureOK(q)'
    BY <1>6 DEF TypeOK, ValidateApiKey, Inv, AloneRefreshSettles, SureOK
  <2> QED
    BY <1>6, <2>1
       DEF ValidateApiKey, ops, Inv, AloneOK, AloneRefreshSettles, Quiet, MapIsWhole
<1>7. ASSUME NEW p \in Caller, IPWhitelist(p)
      PROVE  Inv'
  <2>1. ASSUME NEW q \in Caller PROVE SureOK(q)'
    BY <1>7 DEF TypeOK, Request, IPWhitelist, Inv, SureOK
  <2> QED
    BY <1>7, <2>1
       DEF IPWhitelist, ops, Inv, AloneOK, AloneRefreshSettles, Quiet, MapIsWhole
<1>8. ASSUME NEW p \in Caller, Answer(p)
      PROVE  Inv'
  <2>1. ASSUME NEW q \in Caller PROVE SureOK(q)'
    BY <1>8 DEF TypeOK, Answer, Inv, SureOK
  <2> QED
    BY <1>8, <2>1
       DEF Answer, ops, Inv, AloneOK, AloneRefreshSettles, Quiet, MapIsWhole
<1>9. CASE UNCHANGED vars
  BY <1>9 DEF vars, ops, Inv, AloneOK, SureOK, AloneRefreshSettles, Quiet, MapIsWhole
<1> QED
  BY <1>1, <1>2, <1>3, <1>4, <1>5, <1>6, <1>7, <1>8, <1>9
     DEF Next, CreateApiKey, ResetApiKey, DeleteApiKey, UpdateApiKeyWhitelist

LEMMA InvCorrect == Spec => []Inv
<1>1. Init => TypeOK /\ Inv
  BY TypeInit, InvInit
<1>2. TypeOK /\ Inv /\ [Next]_vars => (TypeOK /\ Inv)'
  BY TypeStep, InvStep
<1> QED
  BY <1>1, <1>2, PTL DEF Spec

(* Staleness of the map needs an overlap or a failing read, and ends with  *)
(* the next operation that has neither.                                    *)
THEOREM SettlesCorrect == Spec => []AloneRefreshSettles
<1>1. Inv => AloneRefreshSettles
  BY DEF Inv
<1> QED
  BY <1>1, InvCorrect, PTL

(* The map is one state the table has had since it was last settled. *)
THEOREM MapIsWholeCorrect == Spec => []MapIsWhole
<1>1. Inv => MapIsWhole
  BY DEF Inv
<1> QED
  BY <1>1, InvCorrect, PTL

(* A request that found its key in a settled map passes only if the table  *)
(* admits it, until the next operation begins.                             *)
THEOREM AdmittedCorrect == Spec => []AdmittedByTable
<1>1. TypeOK /\ Inv => AdmittedByTable
  <2> SUFFICES ASSUME TypeOK, Inv, NEW q \in Caller,
                      request[q] # None, request[q].passed, request[q].sure
               PROVE  \E i \in Id :
                         /\ table[i] # None /\ table[i].key = request[q].key
                         /\ IPMatchesWhitelist(request[q].address, table[i].ips)
    BY DEF AdmittedByTable
  <2>1. request[q].key \in Key /\ table \in [Id -> Row \cup {None}]
    BY DEF TypeOK, Request
  <2>2. /\ ActiveKeys(table)[request[q].key] # None
        /\ request[q].ips = ActiveKeys(table)[request[q].key].ips
        /\ IPMatchesWhitelist(request[q].address, request[q].ips)
    BY DEF Inv, SureOK
  <2>3. PICK i \in Id : /\ table[i] # None /\ table[i].key = request[q].key
                        /\ table[i].ips = request[q].ips
    BY <2>1, <2>2, ActiveIsRow
  <2> QED
    BY <2>2, <2>3
<1> QED
  BY <1>1, TypeCorrect, InvCorrect, PTL

-----------------------------------------------------------------------------
(* Implementation of KeyBook.                                              *)

LEMMA BookInit == Init => KeyBook!Init
BY ActiveOfNothing DEF Init, KeyBook!Init

(* An operation's statement alters the book, an installed map is one of    *)
(* the books since, and the rest is nothing to book and copy.              *)
LEMMA BookStep ==
    TypeOK /\ TypeOK' /\ Inv /\ [Next]_vars => [KeyBook!Next]_(KeyBook!vars)
<1> SUFFICES ASSUME TypeOK, TypeOK', Inv, [Next]_vars
             PROVE  KeyBook!Next \/ UNCHANGED <<ActiveKeys(table), cache, past>>
  BY DEF KeyBook!vars
<1>1. ASSUME NEW w \in Worker, NEW rows, Change(w, rows)
      PROVE  KeyBook!Alter
  <2>1. ActiveKeys(table)' \in Map
    BY <1>1, ActiveKeysType DEF TypeOK
  <2>2. ActiveKeys(table)' = ActiveKeys(rows)
    BY <1>1 DEF Change
  <2> QED
    BY <1>1, <2>1, <2>2 DEF Change, KeyBook!Alter
<1>2. ASSUME NEW w \in Worker, Install(w)
      PROVE  KeyBook!Next
  <2>1. ActiveKeys(table)' = ActiveKeys(table)
    BY <1>2 DEF Install
  <2>2. CASE alone[w]
    <3>1. snapshot[w] = ActiveKeys(table)
      BY <1>2, <2>2 DEF Install, Inv, AloneOK
    <3>2. KeyBook!CatchUp
      BY <1>2, <2>1, <2>2, <3>1 DEF Install, KeyBook!CatchUp
    <3> QED
      BY <3>2 DEF KeyBook!Next
  <2>3. CASE ~alone[w]
    <3>1. KeyBook!Lag
      BY <1>2, <2>1, <2>3 DEF Install, Inv, KeyBook!Lag
    <3> QED
      BY <3>1 DEF KeyBook!Next
  <2> QED
    BY <2>2, <2>3
<1>3. CASE Restart
  <2>1. ActiveKeys(table)' = ActiveKeys(table) /\ past' = {ActiveKeys(table)}
    BY <1>3 DEF Restart
  <2>2. CASE cache' = ActiveKeys(table)
    BY <2>1, <2>2 DEF KeyBook!CatchUp, KeyBook!Next
  <2>3. CASE cache' = Empty
    BY <2>1, <2>3 DEF KeyBook!StartEmpty, KeyBook!Next
  <2> QED
    BY <1>3, <2>2, <2>3 DEF Restart
<1>4. ASSUME NEW w \in Worker, ReadActive(w) \/ ReadActiveFails(w)
      PROVE  UNCHANGED <<ActiveKeys(table), cache, past>>
  BY <1>4 DEF ReadActive, ReadActiveFails
<1>5. ASSUME NEW q \in Caller, NEW k \in Key, NEW address \in Address,
             ValidateApiKey(q, k, address)
      PROVE  UNCHANGED <<ActiveKeys(table), cache, past>>
  BY <1>5 DEF ValidateApiKey
<1>6. ASSUME NEW q \in Caller, IPWhitelist(q) \/ Answer(q)
      PROVE  UNCHANGED <<ActiveKeys(table), cache, past>>
  BY <1>6 DEF IPWhitelist, Answer
<1>7. CASE UNCHANGED vars
  BY <1>7 DEF vars
<1> QED
  BY <1>1, <1>2, <1>3, <1>4, <1>5, <1>6, <1>7
     DEF Next, CreateApiKey, ResetApiKey, DeleteApiKey, UpdateApiKeyWhitelist, KeyBook!Next

(* Table and map, with every overlap, failing read and restart, are a book *)
(* and a copy that never lags behind the last time it caught up.           *)
THEOREM KeyBookCorrect == Spec => ImplementsKeyBook
BY BookInit, BookStep, TypeCorrect, InvCorrect, PTL
   DEF Spec, ImplementsKeyBook, KeyBook!Spec

=============================================================================
