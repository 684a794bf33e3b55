---------------------------- MODULE SignedLinks ----------------------------
(***************************************************************************)
(* The signed download links: SignedLinkService                            *)
(* (internal/service/signed_link.go), its table                            *)
(* (internal/store/signed_link_store.go) and the hourly CleanupService     *)
(* that deletes from the table behind the service's back.                  *)
(*                                                                         *)
(* A link lives twice: as a row of the table (durable) and as an entry of  *)
(* an in-memory map (volatile), each with its own count of the downloads   *)
(* that remain.  Validate and ValidateAndConsume run under the service's   *)
(* mutex; Generate, the service's own clean-up loop and the CleanupService *)
(* do not take it.  The table is used through a single connection          *)
(* (SetMaxOpenConns(1)), so a statement is one step; any statement may     *)
(* fail, and then has no effect.                                           *)
(***************************************************************************)
EXTENDS Integers, FiniteSets

CONSTANTS
    Token,              \* the tokens generateToken can return
    Worker,             \* the request goroutines
    None,               \* no row, no map entry, no owner
    CfgMaxDownloads,    \* download bound of the configuration file
    CfgMaxExpiration,   \* lifetime bound of the configuration file
    DownloadBounds,     \* values SetMaxDownloads is called with
    ExpirationBounds,   \* values SetMaxExpiration is called with
    MaxTime,            \* bound of the model: the clock stops here
    MaxRestarts         \* bound of the model: times the server goes down

ASSUME NoneAssumption ==
    /\ None \notin Int
    /\ None \notin Token \cup Worker

ASSUME BoundAssumption ==
    /\ CfgMaxDownloads \in Nat /\ CfgMaxExpiration \in Nat
    /\ DownloadBounds \subseteq Nat /\ ExpirationBounds \subseteq Nat
    /\ MaxTime \in Nat /\ MaxRestarts \in Nat

VARIABLES
    now,        \* the wall clock, in the unit link lifetimes are given in
    up,         \* is the server process running?
    restarts,   \* how often it has gone down
    maxDL,      \* s.maxDL
    maxExp,     \* s.maxExp
    limit,      \* limit[t]: DownloadLimit of the link, 0 before it exists
    expires,    \* expires[t]: ExpiresAt of the link
    db,         \* db[t]: remaining_downloads of the row, None without one
    cache,      \* cache[t]: RemainingDownloads of the entry, None without one
    mu,         \* s.mu: the worker that holds it, or None
    pc,         \* pc[w]: where the goroutine is in its call
    tok,        \* tok[w]: the token of the call
    seen,       \* seen[w]: RemainingDownloads of the link the call works on
    issued,     \* the tokens that were returned to a client
    granted,    \* granted[t]: successful ValidateAndConsume calls (history)
    cleaner,    \* where the service's clean-up loop is
    sweepNow,   \* the time its current pass compares with, 0 between passes
    toSweep     \* the entries Range has still to visit

proc   == <<up, restarts, maxDL, maxExp>>
link   == <<limit, expires>>
calls  == <<mu, pc, tok, seen>>
client == <<issued, granted>>
sweep  == <<cleaner, sweepNow, toSweep>>
vars   == <<now, proc, link, db, cache, calls, client, sweep>>

-----------------------------------------------------------------------------

(* Types: an entry of the map allows at least one download more, a call    *)
(* under way works on a link it has found good.                            *)
TypeOK ==
    /\ now \in 0..MaxTime
    /\ up \in BOOLEAN
    /\ restarts \in 0..MaxRestarts
    /\ maxDL \in Nat /\ maxExp \in Nat
    /\ limit \in [Token -> Nat]
    /\ expires \in [Token -> Nat]
    /\ db \in [Token -> Nat \cup {None}]
    /\ cache \in [Token -> (Nat \ {0}) \cup {None}]
    /\ mu \in Worker \cup {None}
    /\ pc \in [Worker -> {"idle", "created", "checked", "decremented"}]
    /\ tok \in [Worker -> Token \cup {None}]
    /\ \A w \in Worker : pc[w] # "idle" => tok[w] \in Token /\ seen[w] > 0
    /\ seen \in [Worker -> Nat]
    /\ issued \subseteq Token
    /\ granted \in [Token -> Nat]
    /\ cleaner \in {"waiting", "sweeping", "stopped"}
    /\ sweepNow \in 0..MaxTime
    /\ toSweep \subseteq Token

Init ==
    /\ now = 0
    /\ up = TRUE
    /\ restarts = 0
    /\ maxDL = CfgMaxDownloads
    /\ maxExp = CfgMaxExpiration
    /\ limit = [t \in Token |-> 0]
    /\ expires = [t \in Token |-> 0]
    /\ db = [t \in Token |-> None]
    /\ cache = [t \in Token |-> None]
    /\ mu = None
    /\ pc = [w \in Worker |-> "idle"]
    /\ tok = [w \in Worker |-> None]
    /\ seen = [w \in Worker |-> 0]
    /\ issued = {}
    /\ granted = [t \in Token |-> 0]
    /\ cleaner = "waiting"
    /\ sweepNow = 0
    /\ toSweep = {}

(* Goroutine w is in a call on link t of which it has read count n; it is not. *)
Call(w, at, t, n) ==
    /\ pc' = [pc EXCEPT ![w] = at]
    /\ tok' = [tok EXCEPT ![w] = t]
    /\ seen' = [seen EXCEPT ![w] = n]

Return(w) == Call(w, "idle", None, 0)

-----------------------------------------------------------------------------
(* Reading a link.                                                         *)

(* Lines 146-155: the map first, the table when the map has no entry.  The *)
(* other fields of the two copies never change and are the same.           *)
Lookup(t) == IF cache[t] # None THEN cache[t] ELSE db[t]

(* now.After(ExpiresAt): a link is still good at the instant it expires... *)
Expired(t, instant) == instant > expires[t]

(* ...but not for LoadActive and CleanExpired, which compare with > and <=. *)
MutantActive(t) == db[t] # None /\ expires[t] > now

Active(t) == db[t] # None /\ db[t] > 0 /\ expires[t] > now

(* Validate and ValidateAndConsume refuse the link (lines 100-110, 159-170) *)
MutantDead(t) == Expired(t, now)

Dead(t) == Expired(t, now) \/ Lookup(t) <= 0

(* CleanExpired: the rows one DELETE statement leaves. *)
MutantPurgedLive(rows) ==
    [t \in Token |-> IF rows[t] # None /\ (expires[t] >= now \/ rows[t] <= 0)
                     THEN None ELSE rows[t]]

MutantPurgedUsed(rows) ==
    [t \in Token |-> IF rows[t] # None /\ rows[t] <= 0 THEN None ELSE rows[t]]

Purged(rows) ==
    [t \in Token |-> IF rows[t] # None /\ (expires[t] <= now \/ rows[t] <= 0)
                     THEN None ELSE rows[t]]

-----------------------------------------------------------------------------
(* Generate.                                                               *)

(* The bounds, a token never used before, the row. *)
GenCreate(w, t, minutes, n) ==
    /\ up /\ pc[w] = "idle"
    /\ minutes > 0 /\ minutes <= maxExp
    /\ n > 0 /\ n <= maxDL
    /\ limit[t] = 0
    /\ limit' = [limit EXCEPT ![t] = n]
    /\ expires' = [expires EXCEPT ![t] = now + minutes]
    /\ db' = [db EXCEPT ![t] = n]
    /\ Call(w, "created", t, n)
    /\ UNCHANGED <<now, proc, cache, mu, client, sweep>>

(* The map entry; the token reaches the client only now. *)
GenStore(w) ==
    /\ pc[w] = "created"
    /\ cache' = [cache EXCEPT ![tok[w]] = seen[w]]
    /\ issued' = issued \cup {tok[w]}
    /\ Return(w)
    /\ UNCHANGED <<now, proc, link, db, mu, granted, sweep>>

-----------------------------------------------------------------------------
(* Validate and ValidateAndConsume.                                        *)

(* s.mu.Lock() returns. *)
MutantUnlocked == TRUE

Unlocked == mu = None

(* DecrementDownloads: the UPDATE has no effect on a row that is gone or   *)
(* at 0, and reports success all the same.                                 *)
MutantRowDecremented(t) == db

RowDecremented(t) ==
    IF db[t] # None /\ db[t] > 0 THEN [db EXCEPT ![t] = @ - 1] ELSE db

(* The copy of the link, with one download less, that goes into the map. *)
MutantUpdated(w) == seen[w]

Updated(w) == seen[w] - 1

(* Either call on a link that is over: the entry goes, and the row too     *)
(* unless the DELETE fails, which is ignored.  A Validate that succeeds    *)
(* changes nothing, nor does a call that finds no link.                    *)
Refuse(t) ==
    /\ up /\ Unlocked
    /\ t \in issued
    /\ Lookup(t) # None
    /\ Dead(t)
    /\ cache' = [cache EXCEPT ![t] = None]
    /\ db' \in {db, [db EXCEPT ![t] = None]}
    /\ UNCHANGED <<now, proc, link, calls, client, sweep>>

(* ValidateAndConsume takes the mutex, reads the link and finds it good. *)
BeginConsume(w, t) ==
    /\ up /\ pc[w] = "idle"
    /\ Unlocked
    /\ t \in issued
    /\ Lookup(t) # None
    /\ ~Dead(t)
    /\ mu' = w
    /\ Call(w, "checked", t, Lookup(t))
    /\ UNCHANGED <<now, proc, link, db, cache, client, sweep>>

(* The decrement reaches the table. *)
Decrement(w) ==
    /\ pc[w] = "checked"
    /\ db' = RowDecremented(tok[w])
    /\ pc' = [pc EXCEPT ![w] = "decremented"]
    /\ UNCHANGED <<now, proc, link, cache, mu, tok, seen, client, sweep>>

(* The UPDATE fails: the call returns an error and consumes nothing. *)
DecrementFails(w) ==
    /\ pc[w] = "checked"
    /\ mu' = None /\ Return(w)
    /\ UNCHANGED <<now, proc, link, db, cache, client, sweep>>

(* Lines 177-189: the map entry is written from the count read under the   *)
(* lock, or entry and row are removed after the last download (the DELETE  *)
(* may fail), and the download is granted.                                 *)
Finish(w) ==
    /\ pc[w] = "decremented"
    /\ \/ /\ Updated(w) > 0
          /\ cache' = [cache EXCEPT ![tok[w]] = Updated(w)]
          /\ UNCHANGED db
       \/ /\ Updated(w) <= 0
          /\ cache' = [cache EXCEPT ![tok[w]] = None]
          /\ db' \in {db, [db EXCEPT ![tok[w]] = None]}
    /\ granted' = [granted EXCEPT ![tok[w]] = @ + 1]
    /\ mu' = None /\ Return(w)
    /\ UNCHANGED <<now, proc, link, issued, sweep>>

-----------------------------------------------------------------------------
(* The two clean-ups.  Neither takes the mutex.                            *)

(* cleanupLoop's ticker fires: the pass reads the clock and starts Range. *)
CleanupBegin ==
    /\ cleaner = "waiting"
    /\ cleaner' = "sweeping"
    /\ sweepNow' = now
    /\ toSweep' = {t \in Token : cache[t] # None}
    /\ UNCHANGED <<now, proc, link, db, cache, calls, client>>

(* Range visits one entry; the entry may be gone, or newer, by then. *)
CleanupVisit(t) ==
    /\ cleaner = "sweeping"
    /\ t \in toSweep
    /\ toSweep' = toSweep \ {t}
    /\ cache' = IF cache[t] # None /\ (Expired(t, sweepNow) \/ cache[t] <= 0)
                THEN [cache EXCEPT ![t] = None] ELSE cache
    /\ UNCHANGED <<now, proc, link, db, calls, client, cleaner, sweepNow>>

(* CleanExpired at the end of the pass reads the clock anew; it may fail.  *)
(* The pass is over, and with it its own reading.                          *)
CleanupRows ==
    /\ cleaner = "sweeping"
    /\ toSweep = {}
    /\ db' \in {db, Purged(db)}
    /\ cleaner' = "waiting"
    /\ sweepNow' = 0
    /\ UNCHANGED <<now, proc, link, cache, calls, client, toSweep>>

(* CleanupService.run: the same DELETE, at its own hour. *)
PurgeExpired ==
    /\ up
    /\ db' = Purged(db)
    /\ UNCHANGED <<now, proc, link, cache, calls, client, sweep>>

-----------------------------------------------------------------------------
(* The process and its environment.                                        *)

(* The configuration handler changes a bound; restarts forget it. *)
SetMaxDownloads(n) ==
    /\ up
    /\ maxDL' = n
    /\ UNCHANGED <<now, up, restarts, maxExp, link, db, cache, calls, client, sweep>>

SetMaxExpiration(d) ==
    /\ up
    /\ maxExp' = d
    /\ UNCHANGED <<now, up, restarts, maxDL, link, db, cache, calls, client, sweep>>

Tick ==
    /\ now < MaxTime
    /\ now' = now + 1
    /\ UNCHANGED <<proc, link, db, cache, calls, client, sweep>>

(* Shutdown closes stopCh: the loop ends, requests may still be running. *)
Shutdown ==
    /\ restarts < MaxRestarts
    /\ cleaner = "waiting"
    /\ cleaner' = "stopped"
    /\ UNCHANGED <<now, proc, link, db, cache, calls, client, sweepNow, toSweep>>

(* The process ends, by a crash or after Shutdown: only the rows remain. *)
Exit ==
    /\ up
    /\ restarts < MaxRestarts
    /\ up' = FALSE
    /\ restarts' = restarts + 1
    /\ cache' = [t \in Token |-> None]
    /\ mu' = None
    /\ pc' = [w \in Worker |-> "idle"]
    /\ tok' = [w \in Worker |-> None]
    /\ seen' = [w \in Worker |-> 0]
    /\ cleaner' = "stopped"
    /\ sweepNow' = 0
    /\ toSweep' = {}
    /\ UNCHANGED <<now, maxDL, maxExp, link, db, client>>

(* NewSignedLinkService: bounds of the configuration file, loadFromDB (the *)
(* map stays empty when LoadActive fails), the clean-up loop.              *)
Start ==
    /\ ~up
    /\ up' = TRUE
    /\ maxDL' = CfgMaxDownloads
    /\ maxExp' = CfgMaxExpiration
    /\ \/ cache' = [t \in Token |-> IF Active(t) THEN db[t] ELSE None]
       \/ UNCHANGED cache
    /\ cleaner' = "waiting"
    /\ UNCHANGED <<now, restarts, link, db, calls, client, sweepNow, toSweep>>

-----------------------------------------------------------------------------

Step(w) ==
    \/ GenStore(w)
    \/ Decrement(w) \/ DecrementFails(w)
    \/ Finish(w)

Cleanup ==
    \/ CleanupBegin
    \/ \E t \in Token : CleanupVisit(t)
    \/ CleanupRows

Next ==
    \/ \E w \in Worker : Step(w)
    \/ \E w \in Worker, t \in Token :
          \/ BeginConsume(w, t)
          \/ \E minutes \in 1..maxExp, n \in 1..maxDL : GenCreate(w, t, minutes, n)
    \/ \E t \in Token : Refuse(t)
    \/ Cleanup
    \/ PurgeExpired
    \/ \E n \in DownloadBounds : SetMaxDownloads(n)
    \/ \E d \in ExpirationBounds : SetMaxExpiration(d)
    \/ Tick \/ Shutdown \/ Exit \/ Start

Spec == Init /\ [][Next]_vars

(* A goroutine that runs is scheduled again; the ticker keeps firing and   *)
(* Range ends; a server that is down is started again; and CleanExpired    *)
(* does not fail for ever.                                                 *)
Fairness ==
    /\ \A w \in Worker : WF_vars(Step(w))
    /\ WF_vars(Cleanup)
    /\ SF_vars(CleanupRows /\ db' = Purged(db))
    /\ WF_vars(Exit /\ cleaner = "stopped")
    /\ WF_vars(Start)

FairSpec == Spec /\ Fairness

-----------------------------------------------------------------------------
(* Properties.                                                             *)

(* The downloads link t still allows, as the next ValidateAndConsume or    *)
(* the one under way sees them.                                            *)
InCall(t) == \E w \in Worker : tok[w] = t

Left(t) ==
    IF InCall(t) THEN seen[CHOOSE w \in Worker : tok[w] = t]
    ELSE IF Lookup(t) = None THEN 0 ELSE Lookup(t)

(* A link never allows more downloads than it was issued for, whatever     *)
(* requests, clean-ups, failing statements and restarts come together.     *)
DownloadsWithinLimit == \A t \in Token : granted[t] <= limit[t]

(* The row never promises a download that was already given, so the        *)
(* process may end at any instant: a decrement that has reached the table  *)
(* and is not yet answered counts as given.                                *)
RowSurvivesExit ==
    \A t \in Token : db[t] # None =>
        granted[t] + db[t]
          + (IF \E w \in Worker : tok[w] = t /\ pc[w] = "decremented" THEN 1 ELSE 0)
        <= limit[t]

(* Whenever no call is working on a link, its entry agrees with its row,   *)
(* so it does not matter which one Lookup reads; the row may be missing    *)
(* only from the instant the link expires, which CleanExpired counts as    *)
(* expired and Lookup's caller does not.                                   *)
Agree(t, count) == db[t] = count \/ (db[t] = None /\ expires[t] <= now)

CopiesAgree ==
    \A t \in Token : cache[t] # None /\ ~InCall(t) => Agree(t, cache[t])

(* Of the links that have not expired, all together, at most one download  *)
(* is lost each time the process ends: the one whose decrement was in the  *)
(* table and whose answer was not sent.  No clean-up, failing statement or *)
(* failing reload takes a download from a link that is good.               *)
Lost(t) == limit[t] - granted[t] - Left(t)

LostDownloads == UNION {{t} \X (1..Lost(t)) : t \in {s \in Token : now < expires[s]}}

OneLostPerExit == Cardinality(LostDownloads) <= restarts

(* The same, step by step: a link that is good loses a download only when  *)
(* the process ends, one, and no other link then loses any.                *)
LossOnlyAtExit ==
    [][\A s \in Token : now' < expires'[s] /\ Lost(s)' > Lost(s) =>
          /\ Exit /\ Lost(s)' = Lost(s) + 1
          /\ \A t \in Token \ {s} : now < expires[t] => Lost(t)' = Lost(t)]_vars

(* What makes the above inductive: what each point of a call knows of the  *)
(* two copies of its link, and what is true of a link nobody has made yet. *)
CallOK(w) ==
    LET t == tok[w]
    IN  /\ pc[w] = "idle" => t = None
        /\ pc[w] # "idle" => up
        /\ pc[w] = "created" =>
              /\ t \notin issued
              /\ limit[t] = seen[w]
              /\ cache[t] = None /\ Agree(t, seen[w])
        /\ pc[w] \in {"checked", "decremented"} =>
              /\ mu = w /\ t \in issued
              /\ granted[t] + seen[w] <= limit[t]
              /\ cache[t] \in {seen[w], None}
        /\ pc[w] = "checked" => Agree(t, seen[w])
        /\ pc[w] = "decremented" =>
              Agree(t, seen[w] - 1) \/ (db[t] = None /\ seen[w] = 1)

LinkOK(t) ==
    /\ granted[t] <= limit[t]
    /\ db[t] # None => granted[t] + db[t] <= limit[t]
    /\ cache[t] # None => granted[t] + cache[t] <= limit[t]
    /\ cache[t] # None /\ ~InCall(t) => Agree(t, cache[t])
    /\ t \notin issued => granted[t] = 0
    /\ limit[t] = 0 =>
          t \notin issued /\ db[t] = None /\ cache[t] = None /\ ~InCall(t)

(* No two calls work on the same link, the mutex is held exactly by a      *)
(* ValidateAndConsume between its check and its answer, and both copies of *)
(* every link promise no more than what is left of its limit.              *)
Consistent ==
    /\ \A w \in Worker : CallOK(w)
    /\ \A v, w \in Worker : tok[v] = tok[w] /\ tok[v] # None => v = w
    /\ \A t \in Token : LinkOK(t)
    /\ mu # None => pc[mu] \in {"checked", "decremented"}
    /\ ~up => \A t \in Token : cache[t] = None

(* Entry and row of a link that has expired or was used up are gone in the *)
(* end and stay gone, although a call that outlives the clean-up puts the  *)
(* entry back and the DELETEs may fail.                                    *)
Over(t) == limit[t] > 0 /\ (Expired(t, now) \/ granted[t] = limit[t])

OverIsReaped ==
    \A t \in Token : Over(t) ~> [](cache[t] = None /\ db[t] = None)

(* The service implements the budget its clients are promised.             *)
Budget == INSTANCE DownloadBudget WITH left <- [t \in Token |-> Left(t)]

ImplementsBudget == Budget!Spec

=============================================================================
