-------------------------- MODULE SettingsProofs --------------------------
(***************************************************************************)
(* What holds of Settings for every number of requests, settings and       *)
(* values.  Types and bounds are inductive together.  SettledAgrees needs  *)
(* one thing more: as long as nobody else has stored the setting a request *)
(* has under way, the row still has the request's value.                   *)
(***************************************************************************)
EXTENDS Settings, TLAPS

(* A request only holds values that were validated. *)
TodoValid ==
    \A r \in Request, k \in Key : todo[r][k] # None => todo[r][k] \in Lowest[k]..Highest[k]

(* The row still has the value of a request that is alone on its setting.  *)
LoneStored ==
    \A r \in Request : pc[r] = "stored" /\ lone[r] =>
        stored[current[r]] = todo[r][current[r]]

Bounds == TypeOK /\ TodoValid /\ OnlyValidValues
Inv    == Bounds /\ LoneStored /\ SettledAgrees

-----------------------------------------------------------------------------

LEMMA InitHolds == Init => Inv
BY Assumptions
DEF Init, Inv, Bounds, TypeOK, TodoValid, OnlyValidValues, LoneStored, SettledAgrees,
    InitDefaults, Nothing, Value

LEMMA TypeStep == Bounds /\ [Next]_vars => TypeOK'
<1> SUFFICES ASSUME Bounds, [Next]_vars PROVE TypeOK'
  OBVIOUS
<1> USE Assumptions DEF Bounds, TypeOK, update, Value
<1>1. ASSUME NEW r \in Request, NEW configs \in [Key -> Value \cup {None}],
             UpdateBegin(r, configs)
      PROVE  TypeOK'
  BY <1>1 DEF UpdateBegin
<1>2. ASSUME NEW r \in Request, NEW k \in Key, Store(r, k)
      PROVE  TypeOK'
  <2>1. todo[r][k] \in Value /\ todo[r][k] # None
    BY <1>2 DEF Store, Left
  <2>2. stored' \in [Key -> Value \cup {None}]
    BY <1>2, <2>1 DEF Store
  <2>3. /\ pc' \in [Request -> {"idle", "updating", "stored"}]
        /\ current' \in [Request -> Key \cup {None}]
        /\ lone' \in [Request -> BOOLEAN]
    BY <1>2 DEF Store
  <2> QED
    BY <1>2, <2>1, <2>2, <2>3 DEF Store
<1>3. ASSUME NEW r \in Request, NEW k \in Key, StoreFails(r, k)
      PROVE  TypeOK'
  BY <1>3 DEF StoreFails
<1>4. ASSUME NEW r \in Request, Apply(r)
      PROVE  TypeOK'
  <2>1. current[r] \in Key /\ todo[r][current[r]] \in Int
    BY <1>4 DEF Apply, TodoValid
  <2> QED
    BY <1>4, <2>1 DEF Apply
<1>5. ASSUME NEW r \in Request, UpdateEnds(r)
      PROVE  TypeOK'
  <2>1. todo[r] = Nothing
    BY <1>5 DEF UpdateEnds, Left, Nothing
  <2> QED
    BY <1>5, <2>1 DEF UpdateEnds
<1>6. ASSUME NEW done \in SUBSET Key, Restart(done)
      PROVE  TypeOK'
  BY <1>6 DEF Restart, InitDefaults, Nothing
<1>7. CASE UNCHANGED vars
  BY <1>7 DEF vars
<1> QED
  BY <1>1, <1>2, <1>3, <1>4, <1>5, <1>6, <1>7 DEF Next

LEMMA ValidStep == Bounds /\ [Next]_vars => TodoValid' /\ OnlyValidValues'
<1> SUFFICES ASSUME Bounds, [Next]_vars PROVE TodoValid' /\ OnlyValidValues'
  OBVIOUS
<1> USE Assumptions DEF Bounds, TypeOK, TodoValid, OnlyValidValues, update, Value
<1>1. ASSUME NEW r \in Request, NEW configs \in [Key -> Value \cup {None}],
             UpdateBegin(r, configs)
      PROVE  TodoValid' /\ OnlyValidValues'
  BY <1>1 DEF UpdateBegin, Valid
<1>2. ASSUME NEW r \in Request, NEW k \in Key, Store(r, k)
      PROVE  TodoValid' /\ OnlyValidValues'
  BY <1>2 DEF Store, Left
<1>3. ASSUME NEW r \in Request, NEW k \in Key, StoreFails(r, k)
      PROVE  TodoValid' /\ OnlyValidValues'
  BY <1>3 DEF StoreFails
<1>4. ASSUME NEW r \in Request, Apply(r)
      PROVE  TodoValid' /\ OnlyValidValues'
  <2>1. current[r] \in Key /\ todo[r][current[r]] # None
    BY <1>4 DEF Apply
  <2> QED
    BY <1>4, <2>1 DEF Apply
<1>5. ASSUME NEW r \in Request, UpdateEnds(r)
      PROVE  TodoValid' /\ OnlyValidValues'
  BY <1>5 DEF UpdateEnds
<1>6. ASSUME NEW done \in SUBSET Key, Restart(done)
      PROVE  TodoValid' /\ OnlyValidValues'
  BY <1>6 DEF Restart, InitDefaults, Nothing
<1>7. CASE UNCHANGED vars
  BY <1>7 DEF vars
<1> QED
  BY <1>1, <1>2, <1>3, <1>4, <1>5, <1>6, <1>7 DEF Next

LEMMA AgreeStep == Inv /\ [Next]_vars => LoneStored' /\ SettledAgrees'
<1> SUFFICES ASSUME Inv, [Next]_vars PROVE LoneStored' /\ SettledAgrees'
  OBVIOUS
<1> USE Assumptions DEF Inv, Bounds, TypeOK, LoneStored, SettledAgrees, update, Value
<1>1. ASSUME NEW r \in Request, NEW configs \in [Key -> Value \cup {None}],
             UpdateBegin(r, configs)
      PROVE  LoneStored' /\ SettledAgrees'
  BY <1>1 DEF UpdateBegin
<1>2. ASSUME NEW r \in Request, NEW k \in Key, Store(r, k)
      PROVE  LoneStored' /\ SettledAgrees'
  <2>1. \A j \in Key : j # k => stored'[j] = stored[j]
    BY <1>2 DEF Store
  <2>2. SettledAgrees'
    BY <1>2, <2>1 DEF Store
  <2>3. lone'[r] => stored'[k] = todo[r][k]
    BY <1>2 DEF Store
  <2>4. \A q \in Request : q # r /\ lone'[q] => lone[q] /\ current[q] # k
    BY <1>2 DEF Store
  <2>5. /\ pc'[r] = "stored" /\ current'[r] = k /\ todo' = todo
        /\ \A q \in Request : q # r => pc'[q] = pc[q] /\ current'[q] = current[q]
    BY <1>2 DEF Store
  <2>6. LoneStored'
    <3> SUFFICES ASSUME NEW q \in Request, pc'[q] = "stored", lone'[q]
                 PROVE  stored'[current'[q]] = todo'[q][current'[q]]
      OBVIOUS
    <3>1. CASE q = r
      BY <3>1, <2>3, <2>5
    <3>2. CASE q # r
      BY <3>2, <2>1, <2>4, <2>5
    <3> QED
      BY <3>1, <3>2
  <2> QED
    BY <2>2, <2>6
<1>3. ASSUME NEW r \in Request, NEW k \in Key, StoreFails(r, k)
      PROVE  LoneStored' /\ SettledAgrees'
  BY <1>3 DEF StoreFails
<1>4. ASSUME NEW r \in Request, Apply(r)
      PROVE  LoneStored' /\ SettledAgrees'
  <2>1. /\ current[r] \in Key
        /\ todo[r][current[r]] \in Int /\ todo[r][current[r]] # Text
    BY <1>4 DEF Apply, TodoValid
  <2>2. SettledAgrees'
    <3>1. \A k \in Key : k # current[r] => running'[k] = running[k]
      BY <1>4, <2>1 DEF Apply
    <3>2. current[r] \in settled' =>
             lone[r] /\ running'[current[r]] = todo[r][current[r]]
      BY <1>4, <2>1 DEF Apply
    <3>3. /\ stored' = stored /\ pc[r] = "stored"
          /\ \A k \in Key : k \in settled' /\ k # current[r] => k \in settled
          /\ settled' \subseteq Key
      BY <1>4, <2>1 DEF Apply
    <3> QED
      BY <2>1, <3>1, <3>2, <3>3
  <2>3. LoneStored'
    <3>1. \A q \in Request : q # r => todo'[q] = todo[q] /\ pc'[q] = pc[q]
      BY <1>4 DEF Apply
    <3>2. pc'[r] = "updating" /\ UNCHANGED <<stored, current, lone>>
      BY <1>4 DEF Apply
    <3> QED
      BY <3>1, <3>2
  <2> QED
    BY <2>2, <2>3
<1>5. ASSUME NEW r \in Request, UpdateEnds(r)
      PROVE  LoneStored' /\ SettledAgrees'
  BY <1>5 DEF UpdateEnds
<1>6. ASSUME NEW done \in SUBSET Key, Restart(done)
      PROVE  LoneStored' /\ SettledAgrees'
  BY <1>6 DEF Restart
<1>7. CASE UNCHANGED vars
  BY <1>7 DEF vars
<1> QED
  BY <1>1, <1>2, <1>3, <1>4, <1>5, <1>6, <1>7 DEF Next

LEMMA InvHolds == Spec => []Inv
<1>1. Inv /\ [Next]_vars => Inv'
  BY TypeStep, ValidStep, AgreeStep DEF Inv, Bounds
<1> QED
  BY InitHolds, <1>1, PTL DEF Spec

-----------------------------------------------------------------------------

(* Every state of the settings has the types of TypeOK, and no setting is  *)
(* between statement and setter without a value for it.                    *)
THEOREM TypeCorrect == Spec => []TypeOK
BY InvHolds, PTL DEF Inv, Bounds

(* No service works with, and no row holds, a value that neither the       *)
(* configuration nor a validated request gave: validateConfigs.            *)
THEOREM OnlyValidCorrect == Spec => []OnlyValidValues
BY InvHolds, PTL DEF Inv, Bounds

(* A setting whose last update nobody interfered with has one value in     *)
(* both places, for any number of updates of any settings: Update.         *)
THEOREM SettledCorrect == Spec => []SettledAgrees
BY InvHolds, PTL DEF Inv

(* No start takes a stored value back: a row changes only to the value of  *)
(* an update under way.  InitDefaults, Update.                             *)
THEOREM StoredCorrect == Spec => StoredChangesByUpdate
<1> DEFINE ByUpdate == \A k \in Key : stored[k] # None /\ stored'[k] # stored[k] =>
                          \E r \in Request : todo[r][k] # None /\ stored'[k] = todo[r][k]
<1>1. Inv /\ [Next]_vars => ByUpdate
  <2> SUFFICES ASSUME Inv, [Next]_vars PROVE ByUpdate
    OBVIOUS
  <2>1. ASSUME NEW r \in Request, NEW k \in Key, Store(r, k)
        PROVE  ByUpdate
    BY <2>1 DEF Store, Left, Inv, Bounds, TypeOK
  <2>2. ASSUME NEW done \in SUBSET Key, Restart(done)
        PROVE  ByUpdate
    BY <2>2 DEF Restart, InitDefaults
  <2>3. \/ \E r \in Request, k \in Key : Store(r, k)
        \/ \E done \in SUBSET Key : Restart(done)
        \/ UNCHANGED stored
    BY DEF Next, vars, UpdateBegin, StoreFails, Apply, UpdateEnds
  <2> QED
    BY <2>1, <2>2, <2>3
<1> QED
  BY InvHolds, <1>1, PTL DEF Spec, StoredChangesByUpdate
=============================================================================
