------------------------- MODULE SignedLinksProofs -------------------------
(***************************************************************************)
(* Theorems about SignedLinks, for every set of tokens and goroutines,     *)
(* every configuration and any number of restarts.                         *)
(***************************************************************************)
EXTENDS SignedLinks, FiniteSetTheorems, TLAPS

(* What Start may put into the map and what a DELETE leaves in the table.  *)
LEMMA PurgedRows ==
    ASSUME TypeOK
    PROVE  /\ Purged(db) \in [Token -> Nat \cup {None}]
           /\ \A t \in Token :
                 \/ Purged(db)[t] = db[t]
                 \/ Purged(db)[t] = None /\ (expires[t] <= now \/ db[t] <= 0)
BY NoneAssumption DEF Purged, TypeOK

-----------------------------------------------------------------------------
(* Type correctness.                                                       *)

LEMMA TypeInit == Init => TypeOK
BY NoneAssumption, BoundAssumption DEF Init, TypeOK

LEMMA TypeStep == TypeOK /\ [Next]_vars => TypeOK'
<1> SUFFICES ASSUME TypeOK, [Next]_vars PROVE TypeOK'
  OBVIOUS
<1> USE NoneAssumption, BoundAssumption
<1> USE DEF proc, link, calls, client, sweep, Call, Return
<1>1. ASSUME NEW w \in Worker, NEW t \in Token, BeginConsume(w, t)
      PROVE  TypeOK'
  BY <1>1 DEF TypeOK, BeginConsume, Lookup, Dead
<1>2. ASSUME NEW w \in Worker, NEW t \in Token,
             NEW minutes \in 1..maxExp, NEW n \in 1..maxDL,
             GenCreate(w, t, minutes, n)
      PROVE  TypeOK'
  BY <1>2 DEF TypeOK, GenCreate
<1>3. ASSUME NEW w \in Worker, GenStore(w)
      PROVE  TypeOK'
  BY <1>3 DEF TypeOK, GenStore
<1>4. ASSUME NEW w \in Worker, Decrement(w)
      PROVE  TypeOK'
  BY <1>4 DEF TypeOK, Decrement, RowDecremented
<1>5. ASSUME NEW w \in Worker, DecrementFails(w)
      PROVE  TypeOK'
  BY <1>5 DEF TypeOK, DecrementFails
<1>6. ASSUME NEW w \in Worker, Finish(w)
      PROVE  TypeOK'
  BY <1>6 DEF TypeOK, Finish, Updated
<1>7. ASSUME NEW t \in Token, Refuse(t)
      PROVE  TypeOK'
  BY <1>7 DEF TypeOK, Refuse
<1>8. CASE CleanupBegin
  BY <1>8 DEF TypeOK, CleanupBegin
<1>9. ASSUME NEW t \in Token, CleanupVisit(t)
      PROVE  TypeOK'
  BY <1>9 DEF TypeOK, CleanupVisit
<1>10. CASE CleanupRows
  BY <1>10, PurgedRows DEF TypeOK, CleanupRows
<1>11. CASE PurgeExpired
  BY <1>11, PurgedRows DEF TypeOK, PurgeExpired
<1>12. ASSUME NEW n \in DownloadBounds, SetMaxDownloads(n)
       PROVE  TypeOK'
  BY <1>12 DEF TypeOK, SetMaxDownloads
<1>13. ASSUME NEW d \in ExpirationBounds, SetMaxExpiration(d)
       PROVE  TypeOK'
  BY <1>13 DEF TypeOK, SetMaxExpiration
<1>14. CASE Tick
  BY <1>14 DEF TypeOK, Tick
<1>15. CASE Shutdown
  BY <1>15 DEF TypeOK, Shutdown
<1>16. CASE Exit
  <2>1. restarts' \in 0..MaxRestarts
    BY <1>16 DEF TypeOK, Exit
  <2>2. \A w \in Worker : pc'[w] = "idle"
    BY <1>16 DEF Exit
  <2>3. cache' \in [Token -> (Nat \ {0}) \cup {None}] /\ mu' \in Worker \cup {None}
    BY <1>16 DEF Exit
  <2>4. pc' \in [Worker -> {"idle", "created", "checked", "decremented"}]
    BY <1>16 DEF Exit
  <2>5. tok' \in [Worker -> Token \cup {None}] /\ seen' \in [Worker -> Nat]
    BY <1>16 DEF Exit
  <2> QED
    BY <1>16, <2>1, <2>2, <2>3, <2>4, <2>5 DEF TypeOK, Exit
<1>17. CASE Start
  BY <1>17 DEF TypeOK, Start, Active
<1>18. CASE UNCHANGED vars
  BY <1>18 DEF TypeOK, vars
<1> QED
  BY <1>1, <1>2, <1>3, <1>4, <1>5, <1>6, <1>7, <1>8, <1>9, <1>10, <1>11,
     <1>12, <1>13, <1>14, <1>15, <1>16, <1>17, <1>18 DEF Next, Step, Cleanup

(* Every variable keeps its type. *)
THEOREM TypeCorrect == Spec => []TypeOK
BY TypeInit, TypeStep, PTL DEF Spec

-----------------------------------------------------------------------------
(* The inductive invariant.                                                *)

LEMMA ConsistentInit == Init => Consistent
<1> SUFFICES ASSUME Init PROVE Consistent
  OBVIOUS
<1> USE NoneAssumption DEF Init
<1>1. ASSUME NEW w \in Worker PROVE CallOK(w)
  BY DEF CallOK
<1>2. ASSUME NEW t \in Token PROVE ~InCall(t)
  BY DEF InCall
<1>3. ASSUME NEW t \in Token PROVE LinkOK(t)
  BY <1>2 DEF LinkOK
<1> QED
  BY <1>1, <1>3 DEF Consistent

LEMMA ConsistentStep == TypeOK /\ Consistent /\ [Next]_vars => Consistent'
<1> SUFFICES ASSUME TypeOK, Consistent, [Next]_vars PROVE Consistent'
  OBVIOUS
<1>0. TypeOK'
  BY TypeStep
<1> USE NoneAssumption, BoundAssumption
<1> USE DEF proc, link, calls, client, sweep, Call, Return
<1>1. ASSUME NEW w \in Worker, NEW t \in Token, BeginConsume(w, t)
      PROVE  Consistent'
  <2>0. ~InCall(t)
    BY <1>1 DEF TypeOK, Consistent, CallOK, InCall, BeginConsume, Unlocked
  <2>a. /\ seen'[w] = Lookup(t) /\ tok'[w] = t /\ pc'[w] = "checked" /\ mu' = w
        /\ t \in issued /\ Lookup(t) # None
        /\ \A v \in Worker \ {w} : pc'[v] = pc[v] /\ tok'[v] = tok[v] /\ seen'[v] = seen[v]
    BY <1>1 DEF TypeOK, BeginConsume
  <2>b. /\ Agree(t, Lookup(t)) /\ cache[t] \in {Lookup(t), None}
        /\ granted[t] + Lookup(t) <= limit[t]
    BY <2>0, <2>a DEF TypeOK, Consistent, LinkOK, Lookup, Agree
  <2>1. ASSUME NEW v \in Worker PROVE CallOK(v)'
    <3>1. CASE v = w
      BY <1>1, <2>a, <2>b, <3>1 DEF CallOK, Agree, BeginConsume
    <3>2. CASE v # w
      BY <1>1, <2>a, <3>2 DEF TypeOK, Consistent, CallOK, Agree, BeginConsume, Unlocked
    <3> QED
      BY <3>1, <3>2
  <2>2. \A u, v \in Worker : (tok[u] = tok[v] /\ tok[u] # None => u = v)'
    BY <1>0, <1>1 DEF TypeOK, Consistent, LinkOK, CallOK, InCall, BeginConsume, Lookup, Dead, Unlocked
  <2>3. ASSUME NEW s \in Token PROVE LinkOK(s)'
    <3>1. InCall(s)' <=> InCall(s) \/ s = t
      BY <1>1, <2>a DEF TypeOK, Consistent, CallOK, InCall, BeginConsume
    <3> QED
      BY <1>1, <3>1, <2>a DEF Consistent, LinkOK, Agree, BeginConsume
  <2>4. (mu # None => pc[mu] \in {"checked", "decremented"})'
    BY <1>0, <1>1 DEF TypeOK, Consistent, CallOK, BeginConsume, Lookup, Dead, Unlocked
  <2>5. (~up => \A s \in Token : cache[s] = None)'
    BY <1>0, <1>1 DEF TypeOK, Consistent, CallOK, BeginConsume, Lookup, Dead, Unlocked
  <2> QED
    BY <2>1, <2>2, <2>3, <2>4, <2>5 DEF Consistent
<1>2. ASSUME NEW w \in Worker, NEW t \in Token,
             NEW minutes \in 1..maxExp, NEW n \in 1..maxDL, GenCreate(w, t, minutes, n)
      PROVE  Consistent'
  <2>1. ASSUME NEW v \in Worker PROVE CallOK(v)'
    BY <1>0, <1>2 DEF TypeOK, Consistent, CallOK, LinkOK, InCall, Agree, GenCreate
  <2>2. \A u, v \in Worker : (tok[u] = tok[v] /\ tok[u] # None => u = v)'
    BY <1>0, <1>2 DEF TypeOK, Consistent, LinkOK, CallOK, InCall, GenCreate
  <2>3. ASSUME NEW s \in Token PROVE LinkOK(s)'
    <3>1. InCall(s)' <=> InCall(s) \/ s = t
      BY <1>2 DEF TypeOK, Consistent, CallOK, InCall, GenCreate
    <3>2. CASE s = t
      BY <1>2, <3>1, <3>2 DEF TypeOK, Consistent, LinkOK, GenCreate
    <3>3. CASE s # t
      BY <1>2, <3>1, <3>3 DEF TypeOK, Consistent, LinkOK, Agree, GenCreate
    <3> QED
      BY <3>2, <3>3
  <2>4. (mu # None => pc[mu] \in {"checked", "decremented"})'
    BY <1>0, <1>2 DEF TypeOK, Consistent, CallOK, GenCreate
  <2>5. (~up => \A s \in Token : cache[s] = None)'
    BY <1>0, <1>2 DEF TypeOK, Consistent, CallOK, GenCreate
  <2> QED
    BY <2>1, <2>2, <2>3, <2>4, <2>5 DEF Consistent
<1>3. ASSUME NEW w \in Worker, GenStore(w)
      PROVE  Consistent'
  <2>1. ASSUME NEW v \in Worker PROVE CallOK(v)'
    <3>1. CASE v = w
      BY <1>3, <3>1 DEF TypeOK, CallOK, GenStore
    <3>2. CASE v # w
      <4>1. pc'[v] = pc[v] /\ tok'[v] = tok[v] /\ seen'[v] = seen[v]
        BY <1>3, <3>2 DEF TypeOK, GenStore
      <4>2. tok[v] # tok[w]
        BY <1>3, <3>2 DEF TypeOK, Consistent, GenStore
      <4> QED
        BY <1>3, <4>1, <4>2 DEF TypeOK, Consistent, CallOK, Agree, GenStore
    <3> QED
      BY <3>1, <3>2
  <2>2. \A u, v \in Worker : (tok[u] = tok[v] /\ tok[u] # None => u = v)'
    BY <1>0, <1>3 DEF TypeOK, Consistent, LinkOK, CallOK, InCall, GenStore
  <2>3. ASSUME NEW s \in Token PROVE LinkOK(s)'
    <3>1. InCall(s)' <=> InCall(s) /\ s # tok[w]
      BY <1>3 DEF TypeOK, Consistent, InCall, GenStore
    <3>2. CASE s = tok[w]
      <4>1. /\ cache'[s] = limit[s] /\ granted[s] <= limit[s] /\ limit[s] > 0
            /\ Agree(s, limit[s]) /\ s \in issued' /\ granted[s] = 0
        BY <1>3, <3>2 DEF TypeOK, Consistent, CallOK, LinkOK, GenStore
      <4> QED
        BY <1>3, <3>1, <3>2, <4>1 DEF TypeOK, LinkOK, Agree, GenStore
    <3>3. CASE s # tok[w]
      BY <1>3, <3>1, <3>3 DEF TypeOK, Consistent, LinkOK, Agree, GenStore
    <3> QED
      BY <3>2, <3>3
  <2>4. (mu # None => pc[mu] \in {"checked", "decremented"})'
    BY <1>0, <1>3 DEF TypeOK, Consistent, CallOK, GenStore
  <2>5. (~up => \A s \in Token : cache[s] = None)'
    BY <1>0, <1>3 DEF TypeOK, Consistent, CallOK, GenStore
  <2> QED
    BY <2>1, <2>2, <2>3, <2>4, <2>5 DEF Consistent
<1>4. ASSUME NEW w \in Worker, Decrement(w)
      PROVE  Consistent'
  <2>1. ASSUME NEW v \in Worker PROVE CallOK(v)'
    BY <1>0, <1>4 DEF TypeOK, Consistent, CallOK, LinkOK, InCall, Agree, Decrement, RowDecremented
  <2>2. \A u, v \in Worker : (tok[u] = tok[v] /\ tok[u] # None => u = v)'
    BY <1>0, <1>4 DEF TypeOK, Consistent, LinkOK, CallOK, InCall, Decrement, RowDecremented
  <2>3. ASSUME NEW s \in Token PROVE LinkOK(s)'
    BY <1>0, <1>4 DEF TypeOK, Consistent, CallOK, LinkOK, InCall, Agree, Decrement, RowDecremented
  <2>4. (mu # None => pc[mu] \in {"checked", "decremented"})'
    BY <1>0, <1>4 DEF TypeOK, Consistent, CallOK, Decrement, RowDecremented
  <2>5. (~up => \A s \in Token : cache[s] = None)'
    BY <1>0, <1>4 DEF TypeOK, Consistent, CallOK, Decrement, RowDecremented
  <2> QED
    BY <2>1, <2>2, <2>3, <2>4, <2>5 DEF Consistent
<1>5. ASSUME NEW w \in Worker, DecrementFails(w)
      PROVE  Consistent'
  <2>1. ASSUME NEW v \in Worker PROVE CallOK(v)'
    BY <1>0, <1>5 DEF TypeOK, Consistent, CallOK, LinkOK, InCall, Agree, DecrementFails
  <2>2. \A u, v \in Worker : (tok[u] = tok[v] /\ tok[u] # None => u = v)'
    BY <1>0, <1>5 DEF TypeOK, Consistent, LinkOK, CallOK, InCall, DecrementFails
  <2>3. ASSUME NEW s \in Token PROVE LinkOK(s)'
    <3>1. InCall(s)' <=> InCall(s) /\ s # tok[w]
      BY <1>5 DEF TypeOK, Consistent, InCall, DecrementFails
    <3>2. CASE s = tok[w]
      BY <1>5, <3>1, <3>2 DEF TypeOK, Consistent, CallOK, LinkOK, Agree, DecrementFails
    <3>3. CASE s # tok[w]
      BY <1>5, <3>1, <3>3 DEF TypeOK, Consistent, LinkOK, Agree, DecrementFails
    <3> QED
      BY <3>2, <3>3
  <2>4. (mu # None => pc[mu] \in {"checked", "decremented"})'
    BY <1>0, <1>5 DEF TypeOK, Consistent, CallOK, DecrementFails
  <2>5. (~up => \A s \in Token : cache[s] = None)'
    BY <1>0, <1>5 DEF TypeOK, Consistent, CallOK, DecrementFails
  <2> QED
    BY <2>1, <2>2, <2>3, <2>4, <2>5 DEF Consistent
<1>6. ASSUME NEW w \in Worker, Finish(w)
      PROVE  Consistent'
  <2>1. ASSUME NEW v \in Worker PROVE CallOK(v)'
    BY <1>0, <1>6 DEF TypeOK, Consistent, CallOK, LinkOK, InCall, Agree, Finish, Updated
  <2>2. \A u, v \in Worker : (tok[u] = tok[v] /\ tok[u] # None => u = v)'
    BY <1>0, <1>6 DEF TypeOK, Consistent, LinkOK, CallOK, InCall, Finish, Updated
  <2>3. ASSUME NEW s \in Token PROVE LinkOK(s)'
    <3>1. InCall(s)' <=> InCall(s) /\ s # tok[w]
      BY <1>6 DEF TypeOK, Consistent, InCall, Finish
    <3>2. CASE s = tok[w]
      BY <1>6, <3>1, <3>2 DEF TypeOK, Consistent, CallOK, LinkOK, Agree, Finish, Updated
    <3>3. CASE s # tok[w]
      BY <1>6, <3>1, <3>3 DEF TypeOK, Consistent, LinkOK, Agree, Finish, Updated
    <3> QED
      BY <3>2, <3>3
  <2>4. (mu # None => pc[mu] \in {"checked", "decremented"})'
    BY <1>0, <1>6 DEF TypeOK, Consistent, CallOK, Finish, Updated
  <2>5. (~up => \A s \in Token : cache[s] = None)'
    BY <1>0, <1>6 DEF TypeOK, Consistent, CallOK, Finish, Updated
  <2> QED
    BY <2>1, <2>2, <2>3, <2>4, <2>5 DEF Consistent
<1>7. ASSUME NEW t \in Token, Refuse(t)
      PROVE  Consistent'
  <2>1. ASSUME NEW v \in Worker PROVE CallOK(v)'
    BY <1>0, <1>7 DEF TypeOK, Consistent, CallOK, LinkOK, InCall, Agree, Refuse, Unlocked
  <2>2. \A u, v \in Worker : (tok[u] = tok[v] /\ tok[u] # None => u = v)'
    BY <1>0, <1>7 DEF TypeOK, Consistent, LinkOK, CallOK, InCall, Refuse, Unlocked
  <2>3. ASSUME NEW s \in Token PROVE LinkOK(s)'
    BY <1>0, <1>7 DEF TypeOK, Consistent, CallOK, LinkOK, InCall, Agree, Refuse, Unlocked
  <2>4. (mu # None => pc[mu] \in {"checked", "decremented"})'
    BY <1>0, <1>7 DEF TypeOK, Consistent, CallOK, Refuse, Unlocked
  <2>5. (~up => \A s \in Token : cache[s] = None)'
    BY <1>0, <1>7 DEF TypeOK, Consistent, CallOK, Refuse, Unlocked
  <2> QED
    BY <2>1, <2>2, <2>3, <2>4, <2>5 DEF Consistent
<1>8. CASE CleanupBegin
  <2>1. ASSUME NEW v \in Worker PROVE CallOK(v)'
    BY <1>0, <1>8 DEF TypeOK, Consistent, CallOK, LinkOK, InCall, Agree, CleanupBegin
  <2>2. \A u, v \in Worker : (tok[u] = tok[v] /\ tok[u] # None => u = v)'
    BY <1>0, <1>8 DEF TypeOK, Consistent, LinkOK, CallOK, InCall, CleanupBegin
  <2>3. ASSUME NEW s \in Token PROVE LinkOK(s)'
    BY <1>0, <1>8 DEF TypeOK, Consistent, CallOK, LinkOK, InCall, Agree, CleanupBegin
  <2>4. (mu # None => pc[mu] \in {"checked", "decremented"})'
    BY <1>0, <1>8 DEF TypeOK, Consistent, CallOK, CleanupBegin
  <2>5. (~up => \A s \in Token : cache[s] = None)'
    BY <1>0, <1>8 DEF TypeOK, Consistent, CallOK, CleanupBegin
  <2> QED
    BY <2>1, <2>2, <2>3, <2>4, <2>5 DEF Consistent
<1>9. ASSUME NEW t \in Token, CleanupVisit(t)
      PROVE  Consistent'
  <2>1. ASSUME NEW v \in Worker PROVE CallOK(v)'
    BY <1>0, <1>9 DEF TypeOK, Consistent, CallOK, LinkOK, InCall, Agree, CleanupVisit
  <2>2. \A u, v \in Worker : (tok[u] = tok[v] /\ tok[u] # None => u = v)'
    BY <1>0, <1>9 DEF TypeOK, Consistent, LinkOK, CallOK, InCall, CleanupVisit
  <2>3. ASSUME NEW s \in Token PROVE LinkOK(s)'
    BY <1>0, <1>9 DEF TypeOK, Consistent, CallOK, LinkOK, InCall, Agree, CleanupVisit
  <2>4. (mu # None => pc[mu] \in {"checked", "decremented"})'
    BY <1>0, <1>9 DEF TypeOK, Consistent, CallOK, CleanupVisit
  <2>5. (~up => \A s \in Token : cache[s] = None)'
    BY <1>0, <1>9 DEF TypeOK, Consistent, CallOK, CleanupVisit
  <2> QED
    BY <2>1, <2>2, <2>3, <2>4, <2>5 DEF Consistent
<1>10. CASE CleanupRows
  <2>1. ASSUME NEW v \in Worker PROVE CallOK(v)'
    BY <1>0, <1>10, PurgedRows DEF TypeOK, Consistent, CallOK, LinkOK, InCall, Agree, CleanupRows
  <2>2. \A u, v \in Worker : (tok[u] = tok[v] /\ tok[u] # None => u = v)'
    BY <1>0, <1>10, PurgedRows DEF TypeOK, Consistent, LinkOK, CallOK, InCall, CleanupRows
  <2>3. ASSUME NEW s \in Token PROVE LinkOK(s)'
    BY <1>0, <1>10, PurgedRows DEF TypeOK, Consistent, CallOK, LinkOK, InCall, Agree, CleanupRows
  <2>4. (mu # None => pc[mu] \in {"checked", "decremented"})'
    BY <1>0, <1>10, PurgedRows DEF TypeOK, Consistent, CallOK, CleanupRows
  <2>5. (~up => \A s \in Token : cache[s] = None)'
    BY <1>0, <1>10, PurgedRows DEF TypeOK, Consistent, CallOK, CleanupRows
  <2> QED
    BY <2>1, <2>2, <2>3, <2>4, <2>5 DEF Consistent
<1>11. CASE PurgeExpired
  <2>1. ASSUME NEW v \in Worker PROVE CallOK(v)'
    BY <1>0, <1>11, PurgedRows DEF TypeOK, Consistent, CallOK, LinkOK, InCall, Agree, PurgeExpired
  <2>2. \A u, v \in Worker : (tok[u] = tok[v] /\ tok[u] # None => u = v)'
    BY <1>0, <1>11, PurgedRows DEF TypeOK, Consistent, LinkOK, CallOK, InCall, PurgeExpired
  <2>3. ASSUME NEW s \in Token PROVE LinkOK(s)'
    BY <1>0, <1>11, PurgedRows DEF TypeOK, Consistent, CallOK, LinkOK, InCall, Agree, PurgeExpired
  <2>4. (mu # None => pc[mu] \in {"checked", "decremented"})'
    BY <1>0, <1>11, PurgedRows DEF TypeOK, Consistent, CallOK, PurgeExpired
  <2>5. (~up => \A s \in Token : cache[s] = None)'
    BY <1>0, <1>11, PurgedRows DEF TypeOK, Consistent, CallOK, PurgeExpired
  <2> QED
    BY <2>1, <2>2, <2>3, <2>4, <2>5 DEF Consistent
<1>12. ASSUME NEW n \in DownloadBounds, SetMaxDownloads(n)
      PROVE  Consistent'
  <2>1. ASSUME NEW v \in Worker PROVE CallOK(v)'
    BY <1>0, <1>12 DEF TypeOK, Consistent, CallOK, LinkOK, InCall, Agree, SetMaxDownloads
  <2>2. \A u, v \in Worker : (tok[u] = tok[v] /\ tok[u] # None => u = v)'
    BY <1>0, <1>12 DEF TypeOK, Consistent, LinkOK, CallOK, InCall, SetMaxDownloads
  <2>3. ASSUME NEW s \in Token PROVE LinkOK(s)'
    BY <1>0, <1>12 DEF TypeOK, Consistent, CallOK, LinkOK, InCall, Agree, SetMaxDownloads
  <2>4. (mu # None => pc[mu] \in {"checked", "decremented"})'
    BY <1>0, <1>12 DEF TypeOK, Consistent, CallOK, SetMaxDownloads
  <2>5. (~up => \A s \in Token : cache[s] = None)'
    BY <1>0, <1>12 DEF TypeOK, Consistent, CallOK, SetMaxDownloads
  <2> QED
    BY <2>1, <2>2, <2>3, <2>4, <2>5 DEF Consistent
<1>13. ASSUME NEW d \in ExpirationBounds, SetMaxExpiration(d)
      PROVE  Consistent'
  <2>1. ASSUME NEW v \in Worker PROVE CallOK(v)'
    BY <1>0, <1>13 DEF TypeOK, Consistent, CallOK, LinkOK, InCall, Agree, SetMaxExpiration
  <2>2. \A u, v \in Worker : (tok[u] = tok[v] /\ tok[u] # None => u = v)'
    BY <1>0, <1>13 DEF TypeOK, Consistent, LinkOK, CallOK, InCall, SetMaxExpiration
  <2>3. ASSUME NEW s \in Token PROVE LinkOK(s)'
    BY <1>0, <1>13 DEF TypeOK, Consistent, CallOK, LinkOK, InCall, Agree, SetMaxExpiration
  <2>4. (mu # None => pc[mu] \in {"checked", "decremented"})'
    BY <1>0, <1>13 DEF TypeOK, Consistent, CallOK, SetMaxExpiration
  <2>5. (~up => \A s \in Token : cache[s] = None)'
    BY <1>0, <1>13 DEF TypeOK, Consistent, CallOK, SetMaxExpiration
  <2> QED
    BY <2>1, <2>2, <2>3, <2>4, <2>5 DEF Consistent
<1>14. CASE Tick
  <2>1. ASSUME NEW v \in Worker PROVE CallOK(v)'
    BY <1>0, <1>14 DEF TypeOK, Consistent, CallOK, LinkOK, InCall, Agree, Tick
  <2>2. \A u, v \in Worker : (tok[u] = tok[v] /\ tok[u] # None => u = v)'
    BY <1>0, <1>14 DEF TypeOK, Consistent, LinkOK, CallOK, InCall, Tick
  <2>3. ASSUME NEW s \in Token PROVE LinkOK(s)'
    BY <1>0, <1>14 DEF TypeOK, Consistent, CallOK, LinkOK, InCall, Agree, Tick
  <2>4. (mu # None => pc[mu] \in {"checked", "decremented"})'
    BY <1>0, <1>14 DEF TypeOK, Consistent, CallOK, Tick
  <2>5. (~up => \A s \in Token : cache[s] = None)'
    BY <1>0, <1>14 DEF TypeOK, Consistent, CallOK, Tick
  <2> QED
    BY <2>1, <2>2, <2>3, <2>4, <2>5 DEF Consistent
<1>15. CASE Shutdown
  <2>1. ASSUME NEW v \in Worker PROVE CallOK(v)'
    BY <1>0, <1>15 DEF TypeOK, Consistent, CallOK, LinkOK, InCall, Agree, Shutdown
  <2>2. \A u, v \in Worker : (tok[u] = tok[v] /\ tok[u] # None => u = v)'
    BY <1>0, <1>15 DEF TypeOK, Consistent, LinkOK, CallOK, InCall, Shutdown
  <2>3. ASSUME NEW s \in Token PROVE LinkOK(s)'
    BY <1>0, <1>15 DEF TypeOK, Consistent, CallOK, LinkOK, InCall, Agree, Shutdown
  <2>4. (mu # None => pc[mu] \in {"checked", "decremented"})'
    BY <1>0, <1>15 DEF TypeOK, Consistent, CallOK, Shutdown
  <2>5. (~up => \A s \in Token : cache[s] = None)'
    BY <1>0, <1>15 DEF TypeOK, Consistent, CallOK, Shutdown
  <2> QED
    BY <2>1, <2>2, <2>3, <2>4, <2>5 DEF Consistent
<1>16. CASE Exit
  <2>1. ASSUME NEW v \in Worker PROVE CallOK(v)'
    BY <1>0, <1>16 DEF TypeOK, Consistent, CallOK, LinkOK, InCall, Agree, Exit
  <2>2. \A u, v \in Worker : (tok[u] = tok[v] /\ tok[u] # None => u = v)'
    BY <1>0, <1>16 DEF TypeOK, Consistent, LinkOK, CallOK, InCall, Exit
  <2>3. ASSUME NEW s \in Token PROVE LinkOK(s)'
    BY <1>0, <1>16 DEF TypeOK, Consistent, CallOK, LinkOK, InCall, Agree, Exit
  <2>4. (mu # None => pc[mu] \in {"checked", "decremented"})'
    BY <1>0, <1>16 DEF TypeOK, Consistent, CallOK, Exit
  <2>5. (~up => \A s \in Token : cache[s] = None)'
    BY <1>0, <1>16 DEF TypeOK, Consistent, CallOK, Exit
  <2> QED
    BY <2>1, <2>2, <2>3, <2>4, <2>5 DEF Consistent
<1>17. CASE Start
  <2>1. ASSUME NEW v \in Worker PROVE CallOK(v)'
    BY <1>0, <1>17 DEF TypeOK, Consistent, CallOK, LinkOK, InCall, Agree, Start, Active
  <2>2. \A u, v \in Worker : (tok[u] = tok[v] /\ tok[u] # None => u = v)'
    BY <1>0, <1>17 DEF TypeOK, Consistent, LinkOK, CallOK, InCall, Start, Active
  <2>3. ASSUME NEW s \in Token PROVE LinkOK(s)'
    BY <1>0, <1>17 DEF TypeOK, Consistent, CallOK, LinkOK, InCall, Agree, Start, Active
  <2>4. (mu # None => pc[mu] \in {"checked", "decremented"})'
    BY <1>0, <1>17 DEF TypeOK, Consistent, CallOK, Start, Active
  <2>5. (~up => \A s \in Token : cache[s] = None)'
    BY <1>0, <1>17 DEF TypeOK, Consistent, CallOK, Start, Active
  <2> QED
    BY <2>1, <2>2, <2>3, <2>4, <2>5 DEF Consistent
<1>18. CASE UNCHANGED vars
  <2>1. ASSUME NEW v \in Worker PROVE CallOK(v)'
    BY <1>0, <1>18 DEF TypeOK, Consistent, CallOK, LinkOK, InCall, Agree, vars
  <2>2. \A u, v \in Worker : (tok[u] = tok[v] /\ tok[u] # None => u = v)'
    BY <1>0, <1>18 DEF TypeOK, Consistent, LinkOK, CallOK, InCall, vars
  <2>3. ASSUME NEW s \in Token PROVE LinkOK(s)'
    BY <1>0, <1>18 DEF TypeOK, Consistent, CallOK, LinkOK, InCall, Agree, vars
  <2>4. (mu # None => pc[mu] \in {"checked", "decremented"})'
    BY <1>0, <1>18 DEF TypeOK, Consistent, CallOK, vars
  <2>5. (~up => \A s \in Token : cache[s] = None)'
    BY <1>0, <1>18 DEF TypeOK, Consistent, CallOK, vars
  <2> QED
    BY <2>1, <2>2, <2>3, <2>4, <2>5 DEF Consistent
<1> QED
  BY <1>1, <1>2, <1>3, <1>4, <1>5, <1>6, <1>7, <1>8, <1>9,
     <1>10, <1>11, <1>12, <1>13, <1>14, <1>15, <1>16, <1>17, <1>18 DEF Next, Step, Cleanup

LEMMA ConsistentCorrect == Spec => [](TypeOK /\ Consistent)
<1>1. Init => TypeOK /\ Consistent
  BY TypeInit, ConsistentInit
<1>2. TypeOK /\ Consistent /\ [Next]_vars => (TypeOK /\ Consistent)'
  BY TypeStep, ConsistentStep
<1> QED
  BY <1>1, <1>2, PTL DEF Spec

-----------------------------------------------------------------------------
(* The safety properties.                                                  *)

(* ValidateAndConsume never succeeds more often than the link's limit.     *)
THEOREM WithinLimitCorrect == Spec => []DownloadsWithinLimit
<1>1. Consistent => DownloadsWithinLimit
  BY DEF Consistent, LinkOK, DownloadsWithinLimit
<1> QED
  BY <1>1, ConsistentCorrect, PTL

(* The row is never ahead of the downloads given: an exit between the      *)
(* decrement and the answer cannot make a link allow one more.             *)
THEOREM RowSurvivesExitCorrect == Spec => []RowSurvivesExit
<1>1. TypeOK /\ Consistent => RowSurvivesExit
  <2> SUFFICES ASSUME TypeOK, Consistent, NEW t \in Token, db[t] # None
               PROVE  granted[t] + db[t]
                        + (IF \E w \in Worker : tok[w] = t /\ pc[w] = "decremented"
                           THEN 1 ELSE 0) <= limit[t]
    BY DEF RowSurvivesExit
  <2>1. CASE \E w \in Worker : tok[w] = t /\ pc[w] = "decremented"
    <3>1. PICK w \in Worker : tok[w] = t /\ pc[w] = "decremented"
      BY <2>1
    <3>2. db[t] = seen[w] - 1 /\ granted[t] + seen[w] <= limit[t]
      BY <3>1 DEF Consistent, CallOK, Agree
    <3> QED
      BY <2>1, <3>2 DEF TypeOK
  <2>2. CASE ~\E w \in Worker : tok[w] = t /\ pc[w] = "decremented"
    BY <2>2, NoneAssumption DEF TypeOK, Consistent, LinkOK
  <2> QED
    BY <2>1, <2>2
<1> QED
  BY <1>1, ConsistentCorrect, PTL

(* Map and table agree on every link no call is working on.                *)
THEOREM CopiesAgreeCorrect == Spec => []CopiesAgree
<1>1. Consistent => CopiesAgree
  BY DEF Consistent, LinkOK, CopiesAgree
<1> QED
  BY <1>1, ConsistentCorrect, PTL

-----------------------------------------------------------------------------
(* Implementation of DownloadBudget.                                       *)

(* In a call, what is left is what the call has read... *)
LEMMA LeftInCall ==
    ASSUME Consistent, NEW w \in Worker, NEW t \in Token, tok[w] = t
    PROVE  Left(t) = seen[w]
<1>1. \A v \in Worker : tok[v] = t => v = w
  BY NoneAssumption DEF Consistent
<1>2. w = CHOOSE v \in Worker : tok[v] = t
  BY <1>1
<1> QED
  BY <1>2 DEF Left, InCall

LEMMA LeftInCallNext ==
    ASSUME Consistent', NEW w \in Worker, NEW t \in Token, tok'[w] = t
    PROVE  Left(t)' = seen'[w]
<1>1. \A v \in Worker : tok'[v] = t => v = w
  BY NoneAssumption DEF Consistent
<1>2. w = CHOOSE v \in Worker : tok'[v] = t
  BY <1>1
<1> QED
  BY <1>2 DEF Left, InCall

(* ...and otherwise what the next call would read. *)
LEMMA LeftOutside ==
    ASSUME NEW t \in Token
    PROVE  /\ ~InCall(t) => Left(t) = IF Lookup(t) = None THEN 0 ELSE Lookup(t)
           /\ ~InCall(t)' => Left(t)' = IF Lookup(t)' = None THEN 0 ELSE Lookup(t)'
BY DEF Left

LEMMA LeftType == TypeOK /\ Consistent => \A t \in Token : Left(t) \in Nat
<1> SUFFICES ASSUME TypeOK, Consistent, NEW t \in Token PROVE Left(t) \in Nat
  OBVIOUS
<1>1. CASE InCall(t)
  <2>1. PICK w \in Worker : tok[w] = t
    BY <1>1 DEF InCall
  <2> QED
    BY <2>1, LeftInCall DEF TypeOK
<1>2. CASE ~InCall(t)
  BY <1>2, LeftOutside DEF TypeOK, Lookup
<1> QED
  BY <1>1, <1>2

(* A step that leaves the calls alone and takes entries or rows away, or   *)
(* loads them from the table, does not add to what is left.                *)
LEMMA LeftOfCopies ==
    ASSUME TypeOK, Consistent, TypeOK', Consistent', UNCHANGED <<tok, seen>>,
           NEW t \in Token,
           ~InCall(t) =>
              \/ Lookup(t)' = Lookup(t)
              \/ Lookup(t)' = None
              \/ Lookup(t)' = db[t] /\ cache[t] # None
    PROVE  Left(t)' <= Left(t)
<1> USE NoneAssumption
<1>1. CASE InCall(t)
  <2>1. PICK w \in Worker : tok[w] = t
    BY <1>1 DEF InCall
  <2>2. Left(t) = seen[w]
    BY <2>1, LeftInCall
  <2>3. tok'[w] = t /\ seen'[w] = seen[w]
    BY <2>1
  <2>4. Left(t)' = seen'[w]
    BY <2>3, LeftInCallNext
  <2> QED
    BY <2>2, <2>3, <2>4 DEF TypeOK
<1>2. CASE ~InCall(t)
  <2>1. ~InCall(t)'
    BY <1>2 DEF InCall
  <2>2. Lookup(t)' \in Nat \cup {None} /\ Lookup(t) \in Nat \cup {None}
    BY DEF TypeOK, Lookup
  <2>3. /\ Left(t) = IF Lookup(t) = None THEN 0 ELSE Lookup(t)
        /\ Left(t)' = IF Lookup(t)' = None THEN 0 ELSE Lookup(t)'
    BY <1>2, <2>1, LeftOutside
  <2>4. cache[t] # None => Lookup(t) = cache[t] /\ (db[t] = None \/ db[t] = Lookup(t))
    BY <1>2 DEF Consistent, LinkOK, Agree, Lookup
  <2>5. CASE Lookup(t)' = None
    BY <2>2, <2>3, <2>5
  <2>6. CASE Lookup(t)' = Lookup(t)
    BY <2>2, <2>3, <2>6
  <2>7. CASE Lookup(t)' = db[t] /\ cache[t] # None
    BY <2>2, <2>3, <2>4, <2>7
  <2> QED
    BY <1>2, <2>5, <2>6, <2>7
<1> QED
  BY <1>1, <1>2

(* A call that begins or ends leaves the other links alone.                *)
LEMMA LeftOfOthers ==
    ASSUME Consistent, Consistent', NEW w \in Worker, NEW s \in Token,
           \A v \in Worker : v # w => tok'[v] = tok[v] /\ seen'[v] = seen[v],
           tok[w] # s, tok'[w] # s, Lookup(s)' = Lookup(s)
    PROVE  Left(s)' = Left(s)
<1>1. CASE InCall(s)
  <2>1. PICK v \in Worker : tok[v] = s
    BY <1>1 DEF InCall
  <2>2. tok'[v] = s /\ seen'[v] = seen[v]
    BY <2>1
  <2> QED
    BY <2>1, <2>2, LeftInCall, LeftInCallNext
<1>2. CASE ~InCall(s)
  <2>1. ~InCall(s)'
    BY <1>2 DEF InCall
  <2> QED
    BY <1>2, <2>1, LeftOutside
<1> QED
  BY <1>1, <1>2

(* When a call on t is over, what is left is what the copies say.          *)
LEMMA LeftAfterCall ==
    ASSUME Consistent, NEW w \in Worker, NEW t \in Token, tok[w] = t,
           \A v \in Worker : v # w => tok'[v] = tok[v], tok'[w] = None
    PROVE  Left(t)' = IF Lookup(t)' = None THEN 0 ELSE Lookup(t)'
<1>1. \A v \in Worker : tok'[v] # t
  BY NoneAssumption DEF Consistent
<1> QED
  BY <1>1, LeftOutside DEF InCall

LEMMA LeftShrinks ==
    ASSUME TypeOK, Consistent, TypeOK', Consistent', [Next]_vars,
           UNCHANGED <<limit, granted>>, NEW s \in Token
    PROVE  Left(s)' <= Left(s)
<1> USE NoneAssumption
<1> USE DEF proc, link, calls, client, sweep, Call, Return
<1>0. Left(s) \in Nat
  BY LeftType
<1>1. ASSUME NEW w \in Worker, NEW t \in Token, BeginConsume(w, t)
      PROVE  Left(s)' <= Left(s)
  <2>0. /\ tok' = [tok EXCEPT ![w] = t] /\ seen' = [seen EXCEPT ![w] = Lookup(t)]
        /\ tok[w] = None /\ Lookup(s)' = Lookup(s)
    BY <1>1 DEF BeginConsume, Consistent, CallOK, Lookup
  <2>1. CASE s = t
    <3>1. ~InCall(t)
      BY <1>1 DEF TypeOK, Consistent, CallOK, InCall, BeginConsume, Unlocked
    <3>2. Left(t) = Lookup(t)
      BY <1>1, <3>1, LeftOutside DEF BeginConsume
    <3>3. tok'[w] = t /\ seen'[w] = Lookup(t)
      BY <2>0 DEF TypeOK
    <3>4. Left(t)' = Lookup(t)
      BY <3>3, LeftInCallNext
    <3> QED
      BY <1>0, <2>1, <3>2, <3>4
  <2>2. CASE s # t
    <3>1. /\ \A v \in Worker : v # w => tok'[v] = tok[v] /\ seen'[v] = seen[v]
          /\ tok'[w] # s /\ tok[w] # s
      BY <2>0, <2>2 DEF TypeOK
    <3> QED
      BY <1>0, <2>0, <3>1, LeftOfOthers
  <2> QED
    BY <2>1, <2>2
<1>2. ASSUME NEW w \in Worker, NEW t \in Token,
             NEW minutes \in 1..maxExp, NEW n \in 1..maxDL,
             GenCreate(w, t, minutes, n)
      PROVE  Left(s)' <= Left(s)
  BY <1>2 DEF GenCreate, TypeOK
<1>3. ASSUME NEW w \in Worker, GenStore(w) \/ DecrementFails(w)
      PROVE  Left(s)' <= Left(s)
  <2>0. /\ tok' = [tok EXCEPT ![w] = None] /\ seen' = [seen EXCEPT ![w] = 0]
        /\ tok[w] \in Token
    BY <1>3 DEF TypeOK, GenStore, DecrementFails
  <2>1. \A v \in Worker : v # w => tok'[v] = tok[v] /\ seen'[v] = seen[v]
    BY <2>0 DEF TypeOK
  <2>2. tok'[w] = None
    BY <2>0 DEF TypeOK
  <2>3. CASE s = tok[w]
    <3>1. Left(s) = seen[w]
      BY <2>3, LeftInCall
    <3>2. Left(s)' = IF Lookup(s)' = None THEN 0 ELSE Lookup(s)'
      BY <2>1, <2>2, <2>3, LeftAfterCall
    <3>3. Lookup(s)' \in {seen[w], None}
      BY <1>3, <2>3 DEF TypeOK, Consistent, CallOK, Agree, Lookup, GenStore, DecrementFails
    <3> QED
      BY <1>0, <3>1, <3>2, <3>3
  <2>4. CASE s # tok[w]
    <3>1. Lookup(s)' = Lookup(s)
      BY <1>3, <2>4 DEF TypeOK, Lookup, GenStore, DecrementFails
    <3> QED
      BY <1>0, <2>1, <2>2, <2>4, <3>1, LeftOfOthers
  <2> QED
    BY <2>3, <2>4
<1>4. ASSUME NEW w \in Worker, Decrement(w)
      PROVE  Left(s)' <= Left(s)
  <2>1. ~InCall(s) => Lookup(s)' = Lookup(s)
    BY <1>4 DEF TypeOK, InCall, Lookup, Decrement, RowDecremented
  <2> QED
    BY <1>4, <2>1, LeftOfCopies DEF Decrement
<1>5. ASSUME NEW w \in Worker, Finish(w)
      PROVE  Left(s)' <= Left(s)
  BY <1>5 DEF TypeOK, Finish
<1>6. ASSUME NEW t \in Token, Refuse(t)
      PROVE  Left(s)' <= Left(s)
  <2>1. \/ Lookup(s)' \in {Lookup(s), None}
        \/ Lookup(s)' = db[s] /\ cache[s] # None
    BY <1>6 DEF TypeOK, Lookup, Refuse
  <2> QED
    BY <1>6, <2>1, LeftOfCopies DEF Refuse
<1>7. ASSUME NEW t \in Token, CleanupVisit(t)
      PROVE  Left(s)' <= Left(s)
  <2>1. \/ Lookup(s)' = Lookup(s)
        \/ Lookup(s)' = db[s] /\ cache[s] # None
    BY <1>7 DEF TypeOK, Lookup, CleanupVisit
  <2> QED
    BY <1>7, <2>1, LeftOfCopies DEF CleanupVisit
<1>8. CASE CleanupRows \/ PurgeExpired
  <2>1. Lookup(s)' \in {Lookup(s), None}
    BY <1>8, PurgedRows DEF Lookup, CleanupRows, PurgeExpired
  <2> QED
    BY <1>8, <2>1, LeftOfCopies DEF CleanupRows, PurgeExpired
<1>9. CASE CleanupBegin \/ Tick \/ Shutdown \/ UNCHANGED vars
  BY <1>9, LeftOfCopies DEF Lookup, CleanupBegin, Tick, Shutdown, vars
<1>10. ASSUME NEW n \in Nat, SetMaxDownloads(n) \/ SetMaxExpiration(n)
       PROVE  Left(s)' <= Left(s)
  BY <1>10, LeftOfCopies DEF Lookup, SetMaxDownloads, SetMaxExpiration
<1>11. CASE Exit
  <2>1. ~InCall(s)' /\ Lookup(s)' = db[s]
    BY <1>11 DEF InCall, Lookup, Exit
  <2>2. Left(s)' = IF db[s] = None THEN 0 ELSE db[s]
    BY <2>1, LeftOutside
  <2>3. CASE InCall(s)
    <3>1. PICK w \in Worker : tok[w] = s
      BY <2>3 DEF InCall
    <3>2. Left(s) = seen[w]
      BY <3>1, LeftInCall
    <3>3. db[s] = None \/ db[s] <= seen[w]
      BY <3>1 DEF TypeOK, Consistent, CallOK, Agree
    <3> QED
      BY <1>0, <2>2, <3>2, <3>3
  <2>4. CASE ~InCall(s)
    <3>1. Left(s) = IF Lookup(s) = None THEN 0 ELSE Lookup(s)
      BY <2>4, LeftOutside
    <3>2. db[s] = None \/ db[s] = Lookup(s)
      BY <2>4 DEF Consistent, LinkOK, Agree, Lookup
    <3> QED
      BY <1>0, <2>2, <3>1, <3>2
  <2> QED
    BY <2>3, <2>4
<1>12. CASE Start
  <2>1. Lookup(s)' = Lookup(s)
    BY <1>12 DEF TypeOK, Consistent, Lookup, Start
  <2> QED
    BY <1>12, <2>1, LeftOfCopies DEF Start
<1> QED
  BY <1>1, <1>2, <1>3, <1>4, <1>5, <1>6, <1>7, <1>8, <1>9, <1>10, <1>11, <1>12,
     BoundAssumption DEF Next, Step, Cleanup

LEMMA BudgetInit == Init => Budget!Init
<1> SUFFICES ASSUME Init PROVE Budget!Init
  OBVIOUS
<1>1. ASSUME NEW t \in Token PROVE Left(t) = 0
  <2>1. ~InCall(t)
    BY NoneAssumption DEF Init, InCall
  <2> QED
    BY <2>1, LeftOutside DEF Init, Lookup
<1> QED
  BY <1>1 DEF Init, Budget!Init

(* Every step of the service issues a link, grants a download or loses some. *)
LEMMA BudgetStep ==
    TypeOK /\ Consistent /\ TypeOK' /\ Consistent' /\ [Next]_vars
      => [Budget!Next]_(Budget!vars)
<1> SUFFICES ASSUME TypeOK, Consistent, TypeOK', Consistent', [Next]_vars
             PROVE  Budget!Next
  OBVIOUS
<1> DEFINE L == [t \in Token |-> Left(t)]
<1> USE NoneAssumption
<1>0. L \in [Token -> Nat] /\ L' \in [Token -> Nat]
  <2>1. \A t \in Token : Left(t) \in Nat
    BY LeftType
  <2>2. (\A t \in Token : Left(t) \in Nat)'
    BY LeftType, PTL
  <2> QED
    BY <2>1, <2>2
<1>1. CASE UNCHANGED <<limit, granted>>
  <2>1. \A t \in Token : L'[t] <= L[t]
    BY <1>1, LeftShrinks
  <2>2. Budget!Lose
    BY <1>0, <1>1, <2>1 DEF Budget!Lose
  <2> QED
    BY <2>2 DEF Budget!Next
<1>2. ASSUME NEW w \in Worker, NEW t \in Token,
             NEW minutes \in 1..maxExp, NEW n \in 1..maxDL,
             GenCreate(w, t, minutes, n)
      PROVE  Budget!Issue(t, limit'[t])
  <2>1. /\ tok' = [tok EXCEPT ![w] = t] /\ seen' = [seen EXCEPT ![w] = n]
        /\ tok[w] = None /\ UNCHANGED granted
    BY <1>2 DEF GenCreate, Call, client, Consistent, CallOK
  <2>2. tok'[w] = t /\ seen'[w] = n
    BY <2>1 DEF TypeOK
  <2>3. Left(t)' = n
    BY <2>2, LeftInCallNext
  <2>4. ASSUME NEW s \in Token, s # t PROVE Left(s)' = Left(s)
    <3>1. \A v \in Worker : v # w => tok'[v] = tok[v] /\ seen'[v] = seen[v]
      BY <2>1 DEF TypeOK
    <3>2. Lookup(s)' = Lookup(s)
      BY <1>2, <2>4 DEF TypeOK, Lookup, GenCreate
    <3> QED
      BY <2>1, <2>2, <2>4, <3>1, <3>2, LeftOfOthers
  <2>5. L' = [L EXCEPT ![t] = n]
    BY <2>3, <2>4, <1>0
  <2>6. limit[t] = 0 /\ limit' = [limit EXCEPT ![t] = n] /\ limit'[t] = n /\ n \in Nat \ {0}
    BY <1>2 DEF TypeOK, GenCreate
  <2> QED
    BY <2>1, <2>5, <2>6 DEF Budget!Issue
<1>3. ASSUME NEW w \in Worker, Finish(w)
      PROVE  \E t \in Token : Budget!Grant(t)
  <2>0. PICK t \in Token : tok[w] = t
    BY <1>3 DEF TypeOK, Finish
  <2>1. /\ tok' = [tok EXCEPT ![w] = None] /\ seen' = [seen EXCEPT ![w] = 0]
        /\ tok[w] = t /\ seen[w] > 0 /\ UNCHANGED limit
        /\ granted' = [granted EXCEPT ![t] = @ + 1]
    BY <1>3, <2>0 DEF TypeOK, Finish, Return, Call, link
  <2>2. \A v \in Worker : v # w => tok'[v] = tok[v] /\ seen'[v] = seen[v]
    BY <2>1 DEF TypeOK
  <2>3. tok'[w] = None
    BY <2>1 DEF TypeOK
  <2>4. Left(t) = seen[w]
    BY <2>1, LeftInCall
  <2>5. Left(t)' = seen[w] - 1
    <3>1. Left(t)' = IF Lookup(t)' = None THEN 0 ELSE Lookup(t)'
      BY <2>1, <2>2, <2>3, LeftAfterCall
    <3>2. CASE seen[w] > 1
      BY <1>3, <2>1, <3>1, <3>2 DEF TypeOK, Lookup, Finish, Updated
    <3>3. CASE seen[w] = 1
      <4>1. Lookup(t)' \in {0, None}
        BY <1>3, <2>1, <3>3 DEF TypeOK, Consistent, CallOK, Agree, Lookup, Finish, Updated
      <4> QED
        BY <3>1, <3>3, <4>1
    <3> QED
      BY <2>1, <3>2, <3>3 DEF TypeOK
  <2>6. ASSUME NEW s \in Token, s # t PROVE Left(s)' = Left(s)
    <3>1. Lookup(s)' = Lookup(s)
      BY <1>3, <2>1, <2>6 DEF TypeOK, Lookup, Finish, Updated
    <3> QED
      BY <2>1, <2>2, <2>3, <2>6, <3>1, LeftOfOthers
  <2>7. L' = [L EXCEPT ![t] = @ - 1]
    BY <2>1, <2>4, <2>5, <2>6, <1>0
  <2>8. Budget!Grant(t)
    BY <2>1, <2>4, <2>7 DEF Budget!Grant
  <2> QED
    BY <2>1, <2>8
<1>4. \/ UNCHANGED <<limit, granted>>
      \/ \E w \in Worker, t \in Token :
            \E minutes \in 1..maxExp, n \in 1..maxDL : GenCreate(w, t, minutes, n)
      \/ \E w \in Worker : Finish(w)
  BY DEF Next, Step, Cleanup, BeginConsume, GenStore, Decrement, DecrementFails,
         Refuse, CleanupBegin, CleanupVisit, CleanupRows, PurgeExpired,
         SetMaxDownloads, SetMaxExpiration, Tick, Shutdown, Exit, Start,
         vars, link, client
<1> QED
  BY <1>1, <1>2, <1>3, <1>4 DEF Budget!Next

(* The service implements the budget: what is left of a link never grows,  *)
(* and every download granted is paid for with one that was left.          *)
THEOREM BudgetCorrect == Spec => ImplementsBudget
BY BudgetInit, BudgetStep, ConsistentCorrect, PTL
   DEF Spec, ImplementsBudget, Budget!Spec

(* What any implementation of the budget keeps, whatever its mechanism.    *)
LEMMA BudgetPromise == Budget!Spec => [](Budget!TypeOK /\ Budget!WithinLimit)
<1>1. Budget!Init => Budget!TypeOK /\ Budget!WithinLimit
  BY DEF Budget!Init, Budget!TypeOK, Budget!WithinLimit
<1>2. Budget!TypeOK /\ Budget!WithinLimit /\ [Budget!Next]_Budget!vars
         => (Budget!TypeOK /\ Budget!WithinLimit)'
  <2> SUFFICES ASSUME Budget!TypeOK, Budget!WithinLimit, [Budget!Next]_Budget!vars
               PROVE  (Budget!TypeOK /\ Budget!WithinLimit)'
    OBVIOUS
  <2>1. /\ limit \in [Token -> Nat] /\ granted \in [Token -> Nat]
        /\ \A t \in Token : Left(t) \in Nat /\ granted[t] + Left(t) <= limit[t]
    BY DEF Budget!TypeOK, Budget!WithinLimit
  <2>2. SUFFICES /\ limit' \in [Token -> Nat] /\ granted' \in [Token -> Nat]
                 /\ \A t \in Token : Left(t)' \in Nat /\ granted'[t] + Left(t)' <= limit'[t]
    BY <2>2 DEF Budget!TypeOK, Budget!WithinLimit
  <2>3. ASSUME NEW t \in Token, Budget!Issue(t, limit'[t])
        PROVE  /\ limit' \in [Token -> Nat] /\ granted' = granted
               /\ \A s \in Token \ {t} : Left(s)' = Left(s) /\ limit'[s] = limit[s]
               /\ limit[t] = 0 /\ Left(t)' = limit'[t] /\ limit'[t] \in Nat
    BY <2>1, <2>3 DEF Budget!Issue
  <2>4. ASSUME NEW t \in Token, Budget!Grant(t)
        PROVE  /\ limit' = limit /\ granted' \in [Token -> Nat]
               /\ \A s \in Token \ {t} : Left(s)' = Left(s) /\ granted'[s] = granted[s]
               /\ Left(t) > 0 /\ Left(t)' = Left(t) - 1 /\ granted'[t] = granted[t] + 1
    <3>1. /\ limit' = limit /\ granted' = [granted EXCEPT ![t] = @ + 1]
          /\ Left(t) > 0
      BY <2>4 DEF Budget!Grant
    <3>2. [s \in Token |-> Left(s)'] = [s \in Token |-> IF s = t THEN Left(t) - 1 ELSE Left(s)]
      BY <2>4 DEF Budget!Grant
    <3>3. \A s \in Token : Left(s)' = IF s = t THEN Left(t) - 1 ELSE Left(s)
      BY <3>2
    <3> QED
      BY <2>1, <3>1, <3>3
  <2>5. CASE Budget!Lose
    <3>1. \A t \in Token : Left(t)' \in Nat /\ Left(t)' <= Left(t)
      BY <2>1, <2>5 DEF Budget!Lose
    <3> QED
      BY <2>1, <2>5, <3>1 DEF Budget!Lose
  <2>6. CASE UNCHANGED Budget!vars
    <3>1. \A t \in Token : Left(t)' = Left(t)
      BY <2>6 DEF Budget!vars
    <3> QED
      BY <2>1, <2>6, <3>1 DEF Budget!vars
  <2>7. ASSUME NEW t \in Token, Budget!Issue(t, limit'[t]) \/ Budget!Grant(t)
        PROVE  /\ limit' \in [Token -> Nat] /\ granted' \in [Token -> Nat]
               /\ \A s \in Token : Left(s)' \in Nat /\ granted'[s] + Left(s)' <= limit'[s]
    BY <2>1, <2>3, <2>4, <2>7
  <2> QED
    BY <2>5, <2>6, <2>7 DEF Budget!Next
<1> QED
  BY <1>1, <1>2, PTL DEF Budget!Spec

(* What a link has given and what it could still give, in the call under   *)
(* way or after a lookup, never come to more than it was issued for.       *)
THEOREM BudgetKept == Spec => []Budget!WithinLimit
BY BudgetCorrect, BudgetPromise, PTL DEF ImplementsBudget

-----------------------------------------------------------------------------
(* What a link that is good may lose.                                      *)

LEMMA LeftTypeNext ==
    ASSUME TypeOK', Consistent'
    PROVE  (\A t \in Token : Left(t) \in Nat)'
BY LeftType, PTL

(* A step that leaves the calls alone keeps what is left of a link when    *)
(* the next lookup finds the same, or nothing was left.                    *)
LEMMA LeftSame ==
    ASSUME TypeOK, Consistent, TypeOK', Consistent', UNCHANGED <<tok, seen>>,
           NEW s \in Token,
           ~InCall(s) => Lookup(s)' = Lookup(s) \/ Left(s) = 0
    PROVE  Left(s)' >= Left(s)
<1>0. Left(s) \in Nat /\ Left(s)' \in Nat
  <2>1. \A t \in Token : Left(t) \in Nat
    BY LeftType
  <2>2. (\A t \in Token : Left(t) \in Nat)'
    BY LeftTypeNext
  <2> QED
    BY <2>1, <2>2
<1>1. CASE InCall(s)
  <2>1. PICK w \in Worker : tok[w] = s
    BY <1>1 DEF InCall
  <2>2. Left(s) = seen[w]
    BY <2>1, LeftInCall
  <2>3. tok'[w] = s /\ seen'[w] = seen[w]
    BY <2>1
  <2>4. Left(s)' = seen'[w]
    BY <2>3, LeftInCallNext
  <2> QED
    BY <1>0, <2>2, <2>3, <2>4
<1>2. CASE ~InCall(s)
  <2>1. ~InCall(s)'
    BY <1>2 DEF InCall
  <2> QED
    BY <1>0, <1>2, <2>1, LeftOutside
<1> QED
  BY <1>1, <1>2

(* While the process lives, a link that is good keeps what is left.        *)
LEMMA LeftKept ==
    ASSUME TypeOK, Consistent, TypeOK', Consistent', [Next]_vars, ~Exit,
           UNCHANGED <<limit, granted>>, NEW s \in Token, now' < expires'[s]
    PROVE  Left(s)' >= Left(s)
<1> USE NoneAssumption
<1> USE DEF proc, link, calls, client, sweep, Call, Return
<1>0. Left(s) \in Nat
  BY LeftType
<1>1. ASSUME NEW w \in Worker, NEW t \in Token, BeginConsume(w, t)
      PROVE  Left(s)' >= Left(s)
  <2>0. /\ tok' = [tok EXCEPT ![w] = t] /\ seen' = [seen EXCEPT ![w] = Lookup(t)]
        /\ tok[w] = None /\ Lookup(s)' = Lookup(s)
    BY <1>1 DEF BeginConsume, Consistent, CallOK, Lookup
  <2>1. CASE s = t
    <3>1. ~InCall(t)
      BY <1>1 DEF TypeOK, Consistent, CallOK, InCall, BeginConsume, Unlocked
    <3>2. Left(t) = Lookup(t)
      BY <1>1, <3>1, LeftOutside DEF BeginConsume
    <3>3. tok'[w] = t /\ seen'[w] = Lookup(t)
      BY <2>0 DEF TypeOK
    <3>4. Left(t)' = Lookup(t)
      BY <3>3, LeftInCallNext
    <3> QED
      BY <1>0, <2>1, <3>2, <3>4
  <2>2. CASE s # t
    <3>1. /\ \A v \in Worker : v # w => tok'[v] = tok[v] /\ seen'[v] = seen[v]
          /\ tok'[w] # s /\ tok[w] # s
      BY <2>0, <2>2 DEF TypeOK
    <3> QED
      BY <1>0, <2>0, <3>1, LeftOfOthers
  <2> QED
    BY <2>1, <2>2
<1>2. ASSUME NEW w \in Worker, NEW t \in Token,
             NEW minutes \in 1..maxExp, NEW n \in 1..maxDL,
             GenCreate(w, t, minutes, n)
      PROVE  Left(s)' >= Left(s)
  BY <1>2 DEF GenCreate, TypeOK
<1>3. ASSUME NEW w \in Worker, GenStore(w) \/ DecrementFails(w)
      PROVE  Left(s)' >= Left(s)
  <2>0. /\ tok' = [tok EXCEPT ![w] = None] /\ seen' = [seen EXCEPT ![w] = 0]
        /\ tok[w] \in Token /\ UNCHANGED <<now, expires>>
    BY <1>3 DEF TypeOK, GenStore, DecrementFails
  <2>1. \A v \in Worker : v # w => tok'[v] = tok[v] /\ seen'[v] = seen[v]
    BY <2>0 DEF TypeOK
  <2>2. tok'[w] = None
    BY <2>0 DEF TypeOK
  <2>3. CASE s = tok[w]
    <3>1. Left(s) = seen[w]
      BY <2>3, LeftInCall
    <3>2. Left(s)' = IF Lookup(s)' = None THEN 0 ELSE Lookup(s)'
      BY <2>1, <2>2, <2>3, LeftAfterCall
    <3>3. now < expires[s] /\ now \in Nat /\ expires[s] \in Nat
      BY <2>0, BoundAssumption DEF TypeOK
    <3>4. seen[w] \in Nat /\ Lookup(s)' = seen[w]
      BY <1>3, <2>3, <3>3
         DEF TypeOK, Consistent, CallOK, Agree, Lookup, GenStore, DecrementFails
    <3> QED
      BY <1>0, <3>1, <3>2, <3>4
  <2>4. CASE s # tok[w]
    <3>1. Lookup(s)' = Lookup(s)
      BY <1>3, <2>4 DEF TypeOK, Lookup, GenStore, DecrementFails
    <3> QED
      BY <1>0, <2>1, <2>2, <2>4, <3>1, LeftOfOthers
  <2> QED
    BY <2>3, <2>4
<1>4. ASSUME NEW w \in Worker, Decrement(w)
      PROVE  Left(s)' >= Left(s)
  <2>1. ~InCall(s) => Lookup(s)' = Lookup(s)
    BY <1>4 DEF TypeOK, InCall, Lookup, Decrement, RowDecremented
  <2> QED
    BY <1>4, <2>1, LeftSame DEF Decrement
<1>5. ASSUME NEW w \in Worker, Finish(w)
      PROVE  Left(s)' >= Left(s)
  BY <1>5 DEF TypeOK, Finish
<1>6. ASSUME NEW t \in Token, Refuse(t)
      PROVE  Left(s)' >= Left(s)
  <2>1. CASE s # t
    <3>1. Lookup(s)' = Lookup(s)
      BY <1>6, <2>1 DEF TypeOK, Lookup, Refuse
    <3> QED
      BY <1>6, <3>1, LeftSame DEF Refuse
  <2>2. CASE s = t
    <3>1. now < expires[s] /\ now \in Nat /\ expires[s] \in Nat
      BY <1>6, BoundAssumption DEF TypeOK, Refuse
    <3>2. Lookup(s) \in Nat /\ Lookup(s) = 0
      BY <1>6, <2>2, <3>1 DEF TypeOK, Refuse, Dead, Expired, Lookup
    <3>3. ~InCall(s) => Left(s) = 0
      BY <3>2, LeftOutside
    <3> QED
      BY <1>6, <3>3, LeftSame DEF Refuse
  <2> QED
    BY <2>1, <2>2
<1>7. ASSUME NEW t \in Token, CleanupVisit(t)
      PROVE  Left(s)' >= Left(s)
  <2>1. now < expires[s] /\ now \in Nat /\ expires[s] \in Nat
    BY <1>7, BoundAssumption DEF TypeOK, CleanupVisit
  <2>2. ~InCall(s) /\ cache[s] # None => db[s] = cache[s]
    BY <2>1 DEF Consistent, LinkOK, Agree
  <2>3. ~InCall(s) => Lookup(s)' = Lookup(s)
    BY <1>7, <2>2 DEF TypeOK, Lookup, CleanupVisit
  <2> QED
    BY <1>7, <2>3, LeftSame DEF CleanupVisit
<1>8. CASE CleanupRows \/ PurgeExpired
  <2>1. now < expires[s] /\ now \in Nat /\ expires[s] \in Nat
    BY <1>8, BoundAssumption DEF TypeOK, CleanupRows, PurgeExpired
  <2>2. \/ Lookup(s)' = Lookup(s)
        \/ Lookup(s) = db[s] /\ db[s] <= 0 /\ db[s] # None
    BY <1>8, <2>1, PurgedRows DEF Lookup, CleanupRows, PurgeExpired
  <2>3. ~InCall(s) => Lookup(s)' = Lookup(s) \/ Left(s) = 0
    BY <2>2, LeftOutside DEF TypeOK
  <2> QED
    BY <1>8, <2>3, LeftSame DEF CleanupRows, PurgeExpired
<1>9. CASE CleanupBegin \/ Tick \/ Shutdown \/ UNCHANGED vars
  BY <1>9, LeftSame DEF Lookup, CleanupBegin, Tick, Shutdown, vars
<1>10. ASSUME NEW n \in Nat, SetMaxDownloads(n) \/ SetMaxExpiration(n)
       PROVE  Left(s)' >= Left(s)
  BY <1>10, LeftSame DEF Lookup, SetMaxDownloads, SetMaxExpiration
<1>11. CASE Start
  <2>1. Lookup(s)' = Lookup(s)
    BY <1>11 DEF TypeOK, Consistent, Lookup, Start
  <2> QED
    BY <1>11, <2>1, LeftSame DEF Start
<1> QED
  BY <1>1, <1>2, <1>3, <1>4, <1>5, <1>6, <1>7, <1>8, <1>9, <1>10, <1>11,
     BoundAssumption DEF Next, Step, Cleanup

(* When the process ends, the link whose row was decremented loses one.    *)
LEMMA LeftAtExit ==
    ASSUME TypeOK, Consistent, TypeOK', Consistent', Exit,
           NEW s \in Token, now < expires[s]
    PROVE  \/ Left(s)' = Left(s)
           \/ /\ Left(s)' = Left(s) - 1
              /\ \E w \in Worker : pc[w] = "decremented" /\ tok[w] = s
<1> USE NoneAssumption
<1>0. Left(s) \in Nat /\ now \in Nat /\ expires[s] \in Nat
  BY LeftType, BoundAssumption DEF TypeOK
<1>1. ~InCall(s)' /\ Lookup(s)' = db[s]
  BY DEF InCall, Lookup, Exit
<1>2. Left(s)' = IF db[s] = None THEN 0 ELSE db[s]
  BY <1>1, LeftOutside
<1>3. CASE InCall(s)
  <2>1. PICK w \in Worker : tok[w] = s
    BY <1>3 DEF InCall
  <2>2. Left(s) = seen[w] /\ seen[w] \in Nat
    BY <2>1, LeftInCall DEF TypeOK
  <2>3. pc[w] # "idle"
    BY <2>1 DEF Consistent, CallOK
  <2>4. CASE pc[w] \in {"created", "checked"}
    <3>1. db[s] = seen[w]
      BY <1>0, <2>1, <2>4 DEF Consistent, CallOK, Agree
    <3> QED
      BY <1>2, <2>2, <3>1
  <2>5. CASE pc[w] = "decremented"
    <3>1. db[s] = seen[w] - 1 \/ (db[s] = None /\ seen[w] = 1)
      BY <1>0, <2>1, <2>5 DEF Consistent, CallOK, Agree
    <3>2. Left(s)' = seen[w] - 1
      BY <1>2, <2>2, <3>1
    <3> QED
      BY <2>1, <2>2, <2>5, <3>2
  <2> QED
    BY <2>3, <2>4, <2>5 DEF TypeOK
<1>4. CASE ~InCall(s)
  <2>1. Left(s) = IF Lookup(s) = None THEN 0 ELSE Lookup(s)
    BY <1>4, LeftOutside
  <2>2. db[s] = Lookup(s)
    BY <1>0, <1>4 DEF Consistent, LinkOK, Agree, Lookup
  <2> QED
    BY <1>2, <2>1, <2>2
<1> QED
  BY <1>3, <1>4

(* While the process lives, a good link loses nothing.                     *)
LEMMA LostKept ==
    ASSUME TypeOK, Consistent, TypeOK', Consistent', [Next]_vars, ~Exit,
           NEW s \in Token, now' < expires'[s]
    PROVE  Lost(s)' <= Lost(s)
<1> USE NoneAssumption
<1> DEFINE L == [t \in Token |-> Left(t)]
<1>0. \A t \in Token : L[t] = Left(t) /\ L'[t] = Left(t)'
  OBVIOUS
<1>1. \A t \in Token : Left(t) \in Nat
  BY LeftType
<1>2. (\A t \in Token : Left(t) \in Nat)'
  BY LeftTypeNext
<1>3. limit[s] \in Nat /\ granted[s] \in Nat /\ Left(s) \in Nat /\ Left(s)' \in Nat
  BY <1>1, <1>2 DEF TypeOK
<1>4. CASE UNCHANGED <<limit, granted>>
  <2>1. Left(s)' >= Left(s)
    BY <1>4, LeftKept
  <2> QED
    BY <1>3, <1>4, <2>1 DEF Lost
<1>5. CASE ~UNCHANGED <<limit, granted>>
  <2>1. \E t \in Token : Budget!Issue(t, limit'[t]) \/ Budget!Grant(t)
    BY <1>5, BudgetStep DEF Budget!Next, Budget!Lose, Budget!vars
  <2>2. PICK t \in Token : Budget!Issue(t, limit'[t]) \/ Budget!Grant(t)
    BY <2>1
  <2>3. CASE Budget!Issue(t, limit'[t])
    <3>1. /\ limit[t] = 0 /\ limit' = [limit EXCEPT ![t] = limit'[t]]
          /\ L' = [L EXCEPT ![t] = limit'[t]] /\ granted' = granted
      BY <2>3 DEF Budget!Issue
    <3>2. CASE s = t
      <4>1. granted[t] = 0
        BY <1>3, <3>1, <3>2 DEF Consistent, LinkOK, TypeOK
      <4>2. Left(t)' = limit'[t] /\ limit'[t] \in Nat
        BY <1>0, <1>2, <3>1
      <4>3. Left(t) = 0
        BY <3>1, LeftOutside DEF Consistent, LinkOK, Lookup
      <4> QED
        BY <1>3, <3>1, <3>2, <4>1, <4>2, <4>3 DEF Lost
    <3>3. CASE s # t
      <4>1. limit'[s] = limit[s] /\ granted'[s] = granted[s]
        BY <3>1, <3>3 DEF TypeOK
      <4>2. Left(s)' = Left(s)
        BY <1>0, <3>1, <3>3
      <4> QED
        BY <1>3, <4>1, <4>2 DEF Lost
    <3> QED
      BY <3>2, <3>3
  <2>4. CASE Budget!Grant(t)
    <3>1. /\ limit' = limit /\ L' = [L EXCEPT ![t] = @ - 1]
          /\ granted' = [granted EXCEPT ![t] = @ + 1]
      BY <2>4 DEF Budget!Grant
    <3>2. CASE s = t
      <4>1. Left(s)' = Left(s) - 1
        BY <1>0, <3>1, <3>2
      <4>2. granted'[s] = granted[s] + 1
        BY <3>1, <3>2 DEF TypeOK
      <4> QED
        BY <1>3, <3>1, <4>1, <4>2 DEF Lost
    <3>3. CASE s # t
      <4>1. Left(s)' = Left(s)
        BY <1>0, <3>1, <3>3
      <4>2. granted'[s] = granted[s]
        BY <3>1, <3>3 DEF TypeOK
      <4> QED
        BY <1>3, <3>1, <4>1, <4>2 DEF Lost
    <3> QED
      BY <3>2, <3>3
  <2> QED
    BY <2>2, <2>3, <2>4
<1> QED
  BY <1>4, <1>5

LEMMA LossStep ==
    ASSUME TypeOK, Consistent, TypeOK', Consistent', [Next]_vars,
           NEW s \in Token, now' < expires'[s], Lost(s)' > Lost(s)
    PROVE  /\ Exit /\ Lost(s)' = Lost(s) + 1
           /\ \A t \in Token \ {s} : now < expires[t] => Lost(t)' = Lost(t)
<1> USE NoneAssumption
<1>0. \A t \in Token : /\ limit[t] \in Nat /\ granted[t] \in Nat
                       /\ Left(t) \in Nat
  BY LeftType DEF TypeOK
<1>1. Exit
  <2>1. SUFFICES ASSUME ~Exit PROVE FALSE
    OBVIOUS
  <2>2. Lost(s)' <= Lost(s)
    BY <2>1, LostKept
  <2>3. Lost(s) \in Int
    BY <1>0 DEF Lost
  <2>4. (\A t \in Token : Left(t) \in Nat)'
    BY LeftTypeNext
  <2>5. Lost(s)' \in Int
    BY <2>4 DEF Lost, TypeOK
  <2> QED
    BY <2>2, <2>3, <2>5
<1>2. UNCHANGED <<now, limit, expires, granted>>
  BY <1>1 DEF Exit, link, client
<1>3. /\ Left(s)' = Left(s) - 1
      /\ \E w \in Worker : pc[w] = "decremented" /\ tok[w] = s
  <2>1. Left(s)' # Left(s)
    BY <1>0, <1>2 DEF Lost
  <2> QED
    BY <1>1, <1>2, <2>1, LeftAtExit
<1>4. PICK w \in Worker : pc[w] = "decremented" /\ tok[w] = s
  BY <1>3
<1>5. ASSUME NEW t \in Token \ {s}, now < expires[t]
      PROVE  Lost(t)' = Lost(t)
  <2>1. \A v \in Worker : pc[v] = "decremented" => v = w
    BY <1>4 DEF Consistent, CallOK
  <2>2. Left(t)' = Left(t)
    BY <1>1, <1>4, <1>5, <2>1, LeftAtExit
  <2> QED
    BY <1>2, <2>2 DEF Lost
<1> QED
  BY <1>0, <1>1, <1>2, <1>3, <1>5 DEF Lost

(* A link that is good loses a download only when the process ends, one,   *)
(* and then no other link loses any.                                       *)
THEOREM LossCorrect == Spec => LossOnlyAtExit
<1>1. TypeOK /\ Consistent /\ TypeOK' /\ Consistent' /\ [Next]_vars =>
        [\A s \in Token : now' < expires'[s] /\ Lost(s)' > Lost(s) =>
          /\ Exit /\ Lost(s)' = Lost(s) + 1
          /\ \A t \in Token \ {s} : now < expires[t] => Lost(t)' = Lost(t)]_vars
  BY LossStep
<1> QED
  BY <1>1, TypeCorrect, ConsistentCorrect, PTL DEF Spec, LossOnlyAtExit

-----------------------------------------------------------------------------
(* The number of lost downloads.                                           *)

LEMMA LostType ==
    TypeOK /\ Consistent => \A t \in Token : Lost(t) \in Int
BY LeftType DEF Lost, TypeOK

LEMMA LostTypeNext ==
    ASSUME TypeOK', Consistent'
    PROVE  \A t \in Token : Lost(t)' \in Int
<1>1. (\A t \in Token : Left(t) \in Nat)'
  BY LeftTypeNext
<1> QED
  BY <1>1 DEF Lost, TypeOK

(* A link is made once: its lifetime does not change afterwards.           *)
LEMMA LifetimeKept ==
    ASSUME TypeOK, [Next]_vars, NEW t \in Token, limit[t] # 0
    PROVE  expires'[t] = expires[t] /\ now' >= now
<1> USE DEF proc, link, TypeOK
<1>1. ASSUME NEW w \in Worker, NEW s \in Token,
             NEW minutes \in 1..maxExp, NEW n \in 1..maxDL,
             GenCreate(w, s, minutes, n)
      PROVE  expires'[t] = expires[t] /\ now' >= now
  BY <1>1, BoundAssumption DEF GenCreate
<1>2. CASE \E w \in Worker : Step(w)
  BY <1>2, BoundAssumption DEF Step, GenStore, Decrement, DecrementFails, Finish
<1>3. CASE \E w \in Worker, s \in Token : BeginConsume(w, s)
  BY <1>3, BoundAssumption DEF BeginConsume
<1>4. CASE Cleanup
  BY <1>4, BoundAssumption DEF Cleanup, CleanupBegin, CleanupVisit, CleanupRows
<1>5. CASE PurgeExpired \/ Tick \/ Shutdown \/ Exit \/ Start \/ UNCHANGED vars
  BY <1>5, BoundAssumption DEF PurgeExpired, Tick, Shutdown, Exit, Start, vars
<1>6. ASSUME NEW n, SetMaxDownloads(n) \/ SetMaxExpiration(n)
      PROVE  expires'[t] = expires[t] /\ now' >= now
  BY <1>6, BoundAssumption DEF SetMaxDownloads, SetMaxExpiration
<1>7. ASSUME NEW s \in Token, Refuse(s)
      PROVE  expires'[t] = expires[t] /\ now' >= now
  BY <1>7, BoundAssumption DEF Refuse
<1> QED
  BY <1>1, <1>2, <1>3, <1>4, <1>5, <1>6, <1>7 DEF Next

(* What a step may add to the lost downloads: one, and only at an exit.    *)
LEMMA LostDownloadsStep ==
    ASSUME TypeOK, Consistent, TypeOK', Consistent', [Next]_vars
    PROVE  \/ LostDownloads' \subseteq LostDownloads /\ restarts' >= restarts
           \/ /\ restarts' = restarts + 1
              /\ \E x : LostDownloads' \subseteq LostDownloads \cup {x}
<1> USE NoneAssumption
<1>1. /\ \A t \in Token : Lost(t) \in Int /\ limit[t] \in Nat /\ granted[t] \in Nat
      /\ \A t \in Token : Lost(t)' \in Int
      /\ \A t \in Token : expires[t] \in Nat
      /\ now \in Nat /\ now' \in Nat /\ \A t \in Token : expires'[t] \in Nat
  BY LostType, LostTypeNext, BoundAssumption DEF TypeOK
<1>2. ASSUME NEW x \in LostDownloads'
      PROVE  \E t \in Token : \E k \in Int :
                k \in 1..Lost(t)' /\ x = <<t, k>> /\ now' < expires'[t]
  BY <1>2 DEF LostDownloads
<1>3. ASSUME NEW t \in Token, NEW k \in 1..Lost(t), now < expires[t]
      PROVE  <<t, k>> \in LostDownloads
  BY <1>3 DEF LostDownloads
<1>4. ASSUME NEW t \in Token, Lost(t) >= 1, now' < expires'[t]
      PROVE  now < expires[t]
  <2>1. limit[t] # 0
    BY <1>1, <1>4, LeftType DEF Lost
  <2> QED
    BY <1>1, <1>4, <2>1, LifetimeKept
<1>5. CASE \A t \in Token : now' < expires'[t] => Lost(t)' <= Lost(t)
  <2>1. ASSUME NEW x \in LostDownloads' PROVE x \in LostDownloads
    <3>1. PICK t \in Token, k \in Int :
             k \in 1..Lost(t)' /\ x = <<t, k>> /\ now' < expires'[t]
      BY <1>2
    <3>2. Lost(t)' <= Lost(t) /\ k \in 1..Lost(t)
      BY <1>1, <1>5, <3>1
    <3> QED
      BY <1>1, <1>3, <1>4, <3>1, <3>2
  <2>2. restarts' >= restarts
    BY BoundAssumption DEF TypeOK, Next, vars, proc, Step, GenStore, Decrement,
       DecrementFails, Finish, BeginConsume, GenCreate, Refuse, Cleanup,
       CleanupBegin, CleanupVisit, CleanupRows, PurgeExpired, SetMaxDownloads,
       SetMaxExpiration, Tick, Shutdown, Exit, Start
  <2> QED
    BY <2>1, <2>2
<1>6. CASE \E s \in Token : now' < expires'[s] /\ Lost(s)' > Lost(s)
  <2>1. PICK s \in Token : now' < expires'[s] /\ Lost(s)' > Lost(s)
    BY <1>6
  <2>2. /\ Exit /\ Lost(s)' = Lost(s) + 1
        /\ \A t \in Token \ {s} : now < expires[t] => Lost(t)' = Lost(t)
    BY <2>1, LossStep
  <2>3. UNCHANGED <<now, expires>> /\ restarts' = restarts + 1
    BY <2>2 DEF Exit, link
  <2>4. ASSUME NEW x \in LostDownloads'
        PROVE  x \in LostDownloads \cup {<<s, Lost(s) + 1>>}
    <3>1. PICK t \in Token, k \in Int :
             k \in 1..Lost(t)' /\ x = <<t, k>> /\ now' < expires'[t]
      BY <1>2, <2>4
    <3>2. k \in 1..Lost(t) \/ (t = s /\ k = Lost(s) + 1)
      BY <1>1, <2>2, <2>3, <3>1
    <3> QED
      BY <1>3, <2>3, <3>1, <3>2
  <2> QED
    BY <2>3, <2>4
<1> QED
  BY <1>1, <1>5, <1>6

(* Cardinality means something of finite sets only. *)
OneLostInv == IsFiniteSet(LostDownloads) /\ OneLostPerExit

LEMMA OneLostInit == Init => OneLostInv
<1> SUFFICES ASSUME Init PROVE OneLostInv
  OBVIOUS
<1>1. LostDownloads = {}
  <2>1. \A t \in Token : ~(now < expires[t])
    BY DEF Init
  <2> QED
    BY <2>1 DEF LostDownloads
<1> QED
  BY <1>1, FS_EmptySet DEF Init, OneLostInv, OneLostPerExit

LEMMA OneLostStep ==
    TypeOK /\ Consistent /\ TypeOK' /\ Consistent' /\ OneLostInv /\ [Next]_vars
        => OneLostInv'
<1> SUFFICES ASSUME TypeOK, Consistent, TypeOK', Consistent', OneLostInv, [Next]_vars
             PROVE  OneLostInv'
  OBVIOUS
<1>1. /\ IsFiniteSet(LostDownloads) /\ Cardinality(LostDownloads) <= restarts
      /\ restarts \in Nat /\ restarts' \in Nat
  BY BoundAssumption DEF OneLostInv, OneLostPerExit, TypeOK
<1>2. Cardinality(LostDownloads) \in Nat
  BY <1>1, FS_CardinalityType
<1>3. CASE LostDownloads' \subseteq LostDownloads /\ restarts' >= restarts
  <2>1. IsFiniteSet(LostDownloads') /\ Cardinality(LostDownloads') <= Cardinality(LostDownloads)
    BY <1>1, <1>3, FS_Subset
  <2>2. Cardinality(LostDownloads') \in Nat
    BY <2>1, FS_CardinalityType
  <2> QED
    BY <1>1, <1>2, <1>3, <2>1, <2>2 DEF OneLostInv, OneLostPerExit
<1>4. CASE /\ restarts' = restarts + 1
           /\ \E x : LostDownloads' \subseteq LostDownloads \cup {x}
  <2>1. PICK x : LostDownloads' \subseteq LostDownloads \cup {x}
    BY <1>4
  <2>2. /\ IsFiniteSet(LostDownloads \cup {x})
        /\ Cardinality(LostDownloads \cup {x}) <= restarts + 1
        /\ Cardinality(LostDownloads \cup {x}) \in Nat
    BY <1>1, <1>2, FS_AddElement
  <2>3. /\ IsFiniteSet(LostDownloads')
        /\ Cardinality(LostDownloads') <= Cardinality(LostDownloads \cup {x})
    BY <2>1, <2>2, FS_Subset
  <2>4. Cardinality(LostDownloads') \in Nat
    BY <2>3, FS_CardinalityType
  <2> QED
    BY <1>1, <1>4, <2>2, <2>3, <2>4 DEF OneLostInv, OneLostPerExit
<1> QED
  BY <1>3, <1>4, LostDownloadsStep

(* Of the links that have not expired, all together, at most one download  *)
(* is lost each time the process ends, with any number of links.           *)
THEOREM OneLostCorrect == Spec => []OneLostPerExit
<1>1. OneLostInv => OneLostPerExit
  BY DEF OneLostInv
<1> QED
  BY <1>1, OneLostInit, OneLostStep, TypeCorrect, ConsistentCorrect, PTL DEF Spec

NothingLost ==
    restarts = 0 =>
        \A t \in Token : now < expires[t] => granted[t] + Left(t) = limit[t]

(* As long as the process has not ended, a link that has not expired keeps *)
(* every download it was issued for and has not given: clean-ups, the      *)
(* CleanupService and failing statements take none.                        *)
THEOREM NothingLostCorrect == Spec => []NothingLost
<1>1. ASSUME TypeOK, Consistent, Budget!WithinLimit, OneLostInv, restarts = 0,
             NEW t \in Token, now < expires[t]
      PROVE  granted[t] + Left(t) = limit[t]
  <2>1. LostDownloads = {}
    <3>1. IsFiniteSet(LostDownloads) /\ Cardinality(LostDownloads) <= 0
      BY <1>1 DEF OneLostInv, OneLostPerExit
    <3>2. Cardinality(LostDownloads) = 0
      BY <3>1, FS_CardinalityType
    <3> QED
      BY <3>1, <3>2, FS_EmptySet
  <2>2. Lost(t) \in Int /\ Left(t) \in Nat /\ limit[t] \in Nat /\ granted[t] \in Nat
    BY <1>1, LostType, LeftType DEF TypeOK
  <2>3. ~(Lost(t) >= 1)
    <3> SUFFICES ASSUME Lost(t) >= 1 PROVE FALSE
      OBVIOUS
    <3>1. 1 \in 1..Lost(t)
      BY <2>2
    <3>2. <<t, 1>> \in LostDownloads
      BY <1>1, <3>1 DEF LostDownloads
    <3> QED
      BY <2>1, <3>2
  <2>4. granted[t] + Left(t) <= limit[t]
    BY <1>1 DEF Budget!WithinLimit
  <2> QED
    BY <2>2, <2>3, <2>4 DEF Lost
<1>2. TypeOK /\ Consistent /\ Budget!WithinLimit /\ OneLostInv => NothingLost
  BY <1>1 DEF NothingLost
<1> QED
  BY <1>2, OneLostInit, OneLostStep, ConsistentCorrect, BudgetKept, PTL DEF Spec

-----------------------------------------------------------------------------
(* Links that are over, and links that are gone.                           *)

LEMMA OverStep ==
    ASSUME TypeOK, Consistent, Consistent', [Next]_vars, NEW t \in Token, Over(t)
    PROVE  Over(t)'
<1>1. limit[t] # 0 /\ (now > expires[t] \/ granted[t] = limit[t])
  BY DEF Over, Expired
<1>2. expires'[t] = expires[t] /\ now' >= now
  BY <1>1, LifetimeKept
<1>3. limit'[t] = limit[t] /\ granted'[t] >= granted[t]
  <2> USE DEF link, client, TypeOK
  <2>1. ASSUME NEW w \in Worker, Step(w)
        PROVE  limit'[t] = limit[t] /\ granted'[t] >= granted[t]
    BY <2>1 DEF Step, GenStore, Decrement, DecrementFails, Finish
  <2>2. ASSUME NEW w \in Worker, NEW s \in Token,
               NEW minutes \in 1..maxExp, NEW n \in 1..maxDL,
               GenCreate(w, s, minutes, n)
        PROVE  limit'[t] = limit[t] /\ granted'[t] >= granted[t]
    BY <1>1, <2>2 DEF GenCreate
  <2>3. CASE \/ \E w \in Worker, s \in Token : BeginConsume(w, s)
             \/ \E s \in Token : Refuse(s)
             \/ Cleanup \/ PurgeExpired
    BY <2>3 DEF BeginConsume, Refuse, Cleanup, CleanupBegin, CleanupVisit,
         CleanupRows, PurgeExpired
  <2>4. CASE \/ \E n \in DownloadBounds : SetMaxDownloads(n)
             \/ \E d \in ExpirationBounds : SetMaxExpiration(d)
             \/ Tick \/ Shutdown \/ Exit \/ Start \/ UNCHANGED vars
    BY <2>4 DEF SetMaxDownloads, SetMaxExpiration, Tick, Shutdown, Exit, Start, vars
  <2> QED
    BY <2>1, <2>2, <2>3, <2>4 DEF Next
<1>4. granted'[t] <= limit'[t]
  BY DEF Consistent, LinkOK
<1>5. /\ now \in Nat /\ now' \in Nat /\ expires[t] \in Nat /\ limit[t] \in Nat
      /\ granted[t] \in Nat /\ granted'[t] \in Nat
  BY TypeStep, BoundAssumption DEF TypeOK
<1> QED
  BY <1>1, <1>2, <1>3, <1>4, <1>5 DEF Over, Expired

(* A link that has expired or was used up never comes to life again: no    *)
(* restart, bound or clean-up gives it time or downloads.                  *)
THEOREM OverStays ==
    ASSUME NEW t \in Token
    PROVE  Spec => [](Over(t) => []Over(t))
<1>1. TypeOK /\ Consistent /\ Consistent' /\ [Next]_vars /\ Over(t) => Over(t)'
  BY OverStep
<1> QED
  BY <1>1, ConsistentCorrect, PTL DEF Spec

(* Neither copy of a link that was made is left, and no call holds one.    *)
Gone(t) == limit[t] # 0 /\ cache[t] = None /\ db[t] = None /\ ~InCall(t)

LEMMA GoneStep ==
    ASSUME TypeOK, [Next]_vars, NEW t \in Token, Gone(t)
    PROVE  Gone(t)'
<1> USE NoneAssumption DEF TypeOK, Gone, InCall, link, calls, Call, Return
<1>1. ASSUME NEW w \in Worker, Step(w)
      PROVE  Gone(t)'
  <2>1. pc[w] # "idle" /\ tok[w] # t /\ tok[w] \in Token
    BY <1>1 DEF Step, GenStore, Decrement, DecrementFails, Finish
  <2>2. limit' = limit /\ cache'[t] = None /\ db'[t] = None
    BY <1>1, <2>1 DEF Step, GenStore, Decrement, RowDecremented, DecrementFails, Finish
  <2>3. \A v \in Worker : tok'[v] # t
    BY <1>1, <2>1 DEF Step, GenStore, Decrement, DecrementFails, Finish
  <2> QED
    BY <2>2, <2>3
<1>2. ASSUME NEW w \in Worker, NEW s \in Token,
             NEW minutes \in 1..maxExp, NEW n \in 1..maxDL,
             GenCreate(w, s, minutes, n)
      PROVE  Gone(t)'
  BY <1>2 DEF GenCreate
<1>3. ASSUME NEW w \in Worker, NEW s \in Token, BeginConsume(w, s)
      PROVE  Gone(t)'
  BY <1>3 DEF BeginConsume, Lookup
<1>4. ASSUME NEW s \in Token, Refuse(s)
      PROVE  Gone(t)'
  BY <1>4 DEF Refuse
<1>5. CASE Cleanup \/ PurgeExpired
  BY <1>5 DEF Cleanup, CleanupBegin, CleanupVisit, CleanupRows, PurgeExpired, Purged
<1>6. CASE \/ \E n \in DownloadBounds : SetMaxDownloads(n)
           \/ \E d \in ExpirationBounds : SetMaxExpiration(d)
           \/ Tick \/ Shutdown \/ UNCHANGED vars
  BY <1>6 DEF SetMaxDownloads, SetMaxExpiration, Tick, Shutdown, vars
<1>7. CASE Exit \/ Start
  BY <1>7 DEF Exit, Start, Active
<1> QED
  BY <1>1, <1>2, <1>3, <1>4, <1>5, <1>6, <1>7 DEF Next

(* The half of OverIsReaped that is safety: once entry and row are gone    *)
(* and no call is under way on the link, they stay gone.                   *)
THEOREM GoneStays ==
    ASSUME NEW t \in Token
    PROVE  Spec => [](Gone(t) => []Gone(t))
<1>1. TypeOK /\ [Next]_vars /\ Gone(t) => Gone(t)'
  BY GoneStep
<1> QED
  BY <1>1, TypeCorrect, PTL DEF Spec

=============================================================================
