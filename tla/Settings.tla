----------------------------- MODULE Settings -----------------------------
(***************************************************************************)
(* The settings: the table (internal/store/setting_store.go), the update   *)
(* of several of them (internal/handler/config_handler.go) and what the    *)
(* services start with (main.go).                                          *)
(*                                                                         *)
(* A setting has two copies: the row of system_settings, which the         *)
(* administration page lists, and the field of the service it is about.    *)
(* An update goes through the settings it was given in the random order of *)
(* a Go map: one statement, then the setter.  No lock spans the two, the   *)
(* rate limits have no setter, and a start takes every field from the      *)
(* configuration and none from the table.                                  *)
(***************************************************************************)
EXTENDS Integers

CONSTANTS
    Request,        \* the goroutines of the administrators' requests
    Key,            \* allowedConfigKeys
    Applied,        \* the settings applyRuntimeConfig has a case for
    Number, Text,   \* what a request may give: integers, or a text that is none
    Lowest, Highest,\* the bounds validateConfigs has for each setting
    Cfg,            \* the configuration the services start with
    Default,        \* the values of initDefaultSettings
    None,           \* no row; not given
    MaxFailures     \* bound of the model: failing statements

ASSUME Assumptions ==
    /\ Applied \subseteq Key
    /\ Lowest \in [Key -> Int] /\ Highest \in [Key -> Int]
    /\ Number \subseteq Int
    /\ Cfg \in [Key -> Int] /\ Default \in [Key -> Number]
    /\ None \notin Number \cup {Text} /\ Text \notin Int
    /\ MaxFailures \in Nat

VARIABLES
    stored,     \* stored[k]: the value of k's row, None without one
    running,    \* running[k]: the value k's service works with
    pc,         \* pc[r]: "idle", "updating", between two settings, "stored"
    todo,       \* todo[r][k]: the value still to be set, or None
    current,    \* current[r]: the setting whose statement has been executed
    lone,       \* lone[r]: nobody else has stored current[r] since (history)
    settled,    \* settings the last update of which set both copies (history)
    failures    \* failed statements (history)

update == <<pc, todo, current, lone>>
vars   == <<stored, running, update, settled, failures>>

Value   == Number \cup {Text}
Nothing == [k \in Key |-> None]
Left(r) == {k \in Key : todo[r][k] # None}

(* What validateConfigs accepts: an integer between the bounds. *)
MutantValid(k, v) == v # Text
Valid(k, v) == v \in Lowest[k]..Highest[k]

(* Types; an update has a setting under way between statement and setter.  *)
TypeOK ==
    /\ stored \in [Key -> Value \cup {None}]
    /\ running \in [Key -> Int]
    /\ pc \in [Request -> {"idle", "updating", "stored"}]
    /\ todo \in [Request -> [Key -> Value \cup {None}]]
    /\ current \in [Request -> Key \cup {None}]
    /\ lone \in [Request -> BOOLEAN]
    /\ settled \subseteq Applied
    /\ failures \in 0..MaxFailures
    /\ \A r \in Request :
          /\ pc[r] = "idle" => todo[r] = Nothing
          /\ pc[r] = "stored" =>
                current[r] \in Key /\ todo[r][current[r]] # None

(* InitDefaults: INSERT OR IGNORE, in map order, ending at the first       *)
(* failure; main logs it and goes on.                                      *)
MutantInitDefaults(rows, done) ==
    [k \in Key |-> IF k \in done THEN Default[k] ELSE rows[k]]
InitDefaults(rows, done) ==
    [k \in Key |-> IF rows[k] = None /\ k \in done THEN Default[k] ELSE rows[k]]

Init ==
    /\ \E done \in SUBSET Key : stored = InitDefaults(Nothing, done)
    /\ running = Cfg
    /\ pc = [r \in Request |-> "idle"]
    /\ todo = [r \in Request |-> Nothing]
    /\ current = [r \in Request |-> None]
    /\ lone = [r \in Request |-> FALSE]
    /\ settled = {}
    /\ failures = 0

-----------------------------------------------------------------------------

(* Update, up to its loop: a request with a setting that is not allowed or *)
(* a value that is not valid changes nothing.                              *)
UpdateBegin(r, configs) ==
    /\ pc[r] = "idle"
    /\ \A k \in Key : configs[k] # None => Valid(k, configs[k])
    /\ pc' = [pc EXCEPT ![r] = "updating"]
    /\ todo' = [todo EXCEPT ![r] = configs]
    /\ UNCHANGED <<stored, running, current, lone, settled, failures>>

(* UPDATE ... WHERE config_key = ?; without a row it succeeds as well.     *)
Store(r, k) ==
    /\ pc[r] = "updating" /\ k \in Left(r)
    /\ stored' = IF stored[k] = None THEN stored
                 ELSE [stored EXCEPT ![k] = todo[r][k]]
    /\ pc' = [pc EXCEPT ![r] = "stored"]
    /\ current' = [current EXCEPT ![r] = k]
    /\ lone' = [q \in Request |->
                   IF q = r
                   THEN /\ stored[k] # None
                        /\ \A p \in Request \ {r} :
                              ~ (pc[p] = "stored" /\ current[p] = k)
                   ELSE lone[q] /\ current[q] # k]
    /\ settled' = settled \ {k}
    /\ UNCHANGED <<running, todo, failures>>

(* A statement that fails: the setting is skipped, the update goes on.     *)
MutantStoreFails(r, k) ==
    /\ pc[r] = "updating" /\ k \in Left(r)
    /\ failures < MaxFailures
    /\ failures' = failures + 1
    /\ pc' = [pc EXCEPT ![r] = "stored"]
    /\ current' = [current EXCEPT ![r] = k]
    /\ lone' = [lone EXCEPT ![r] = TRUE]
    /\ UNCHANGED <<stored, running, todo, settled>>
StoreFails(r, k) ==
    /\ pc[r] = "updating" /\ k \in Left(r)
    /\ failures < MaxFailures
    /\ failures' = failures + 1
    /\ todo' = [todo EXCEPT ![r][k] = None]
    /\ UNCHANGED <<stored, running, pc, current, lone, settled>>

(* applyRuntimeConfig: the setter of the setting, where there is one and   *)
(* the value is an integer.                                                *)
Apply(r) ==
    LET k == current[r]
    IN  /\ pc[r] = "stored"
        /\ running' = IF k \in Applied /\ todo[r][k] # Text
                      THEN [running EXCEPT ![k] = todo[r][k]] ELSE running
        /\ settled' = IF k \in Applied /\ lone[r] THEN settled \cup {k}
                      ELSE settled \ {k}
        /\ pc' = [pc EXCEPT ![r] = "updating"]
        /\ todo' = [todo EXCEPT ![r][k] = None]
        /\ UNCHANGED <<stored, current, lone, failures>>

(* The loop is through: the answer. *)
MutantUpdateEnds(r) ==
    /\ pc[r] = "updating"
    /\ pc' = [pc EXCEPT ![r] = "idle"]
    /\ current' = [current EXCEPT ![r] = None]
    /\ lone' = [lone EXCEPT ![r] = FALSE]
    /\ UNCHANGED <<stored, running, todo, settled, failures>>
UpdateEnds(r) ==
    /\ pc[r] = "updating" /\ Left(r) = {}
    /\ pc' = [pc EXCEPT ![r] = "idle"]
    /\ current' = [current EXCEPT ![r] = None]
    /\ lone' = [lone EXCEPT ![r] = FALSE]
    /\ UNCHANGED <<stored, running, todo, settled, failures>>

(* The end of the process at any instant, and the next start. *)
Restart(done) ==
    /\ stored' = InitDefaults(stored, done)
    /\ running' = Cfg
    /\ pc' = [r \in Request |-> "idle"]
    /\ todo' = [r \in Request |-> Nothing]
    /\ current' = [r \in Request |-> None]
    /\ lone' = [r \in Request |-> FALSE]
    /\ settled' = {}
    /\ UNCHANGED failures

Next ==
    \/ \E r \in Request :
          \/ \E configs \in [Key -> Value \cup {None}] : UpdateBegin(r, configs)
          \/ \E k \in Key : Store(r, k) \/ StoreFails(r, k)
          \/ Apply(r)
          \/ UpdateEnds(r)
    \/ \E done \in SUBSET Key : Restart(done)

Spec == Init /\ [][Next]_vars

-----------------------------------------------------------------------------

(* A setting whose last update had no other update of it between its       *)
(* statement and its setter has one value in both places, whatever updates *)
(* of other settings were doing meanwhile and whichever settings of the    *)
(* same update failed.  The loop of Update.                                *)
SettledAgrees == \A k \in settled : stored[k] = running[k]

(* Every service works with the value of the configuration or with one     *)
(* validateConfigs accepts; and so does the row, but for the default: no   *)
(* interleaving lets a value through that no validated request carried.    *)
OnlyValidValues ==
    \A k \in Key :
       /\ running[k] \in {Cfg[k]} \cup Lowest[k]..Highest[k]
       /\ stored[k] \in {None, Default[k]} \cup Lowest[k]..Highest[k]

(* A start never takes back a value an administrator stored: the defaults  *)
(* only fill rows that are missing (INSERT OR IGNORE), so a stored value   *)
(* changes to the one some update has under way.                           *)
StoredChangesByUpdate ==
    [][\A k \in Key : stored[k] # None /\ stored'[k] # stored[k] =>
          \E r \in Request : todo[r][k] # None /\ stored'[k] = todo[r][k]]_vars

(* The administration page lists the stored settings and calls them the    *)
(* system's running parameters: with no update under way, a service works  *)
(* with the stored value.  Violated: a start forgets it.                   *)
StoredIsRunning ==
    (\A r \in Request : pc[r] = "idle") =>
       \A k \in Applied : stored[k] # None => stored[k] = running[k]
=============================================================================
