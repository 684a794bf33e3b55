---------------------------- MODULE RateLimiter ----------------------------
(***************************************************************************)
(* One of the rate limiters in front of the API, the downloads and the     *)
(* logins (internal/middleware/rate_limit.go): a token bucket for each     *)
(* client address, made at its first request and forgotten by a sweep when *)
(* the address has been quiet for a while.                                 *)
(*                                                                         *)
(* Requests and the sweep share a sync.Map and nothing else: a request     *)
(* looks up its bucket, makes one when there is none, and takes a token,   *)
(* in separate steps; the sweep reads when a visitor was last seen and     *)
(* removes the address, in separate steps too.                             *)
(*                                                                         *)
(* Time passes in ticks.  A bucket holds Window units for each token, so   *)
(* that a tick adds Burst units.                                           *)
(***************************************************************************)
EXTENDS Integers

CONSTANTS
    Address, Request,
    Visitor,    \* the entries of the map: a bucket and its lastSeen
    None,       \* no address, no visitor
    Burst,      \* rl.burst: requests admitted per window, and at once
    Window,     \* ticks of a window
    Idle,       \* ticks without a request after which a visitor is forgotten
    MaxPause    \* most ticks a request or a sweep takes for its steps

ASSUME Assumptions ==
    /\ None \notin Address \cup Visitor
    /\ Burst \in Nat /\ Window \in Nat \ {0}
    /\ Idle \in Nat /\ MaxPause \in Nat

VARIABLES
    visitor,    \* visitor[a]: the entry of the map, None without one
    tokens,     \* tokens[v]: what is in the bucket
    quiet,      \* quiet[v]: ticks since lastSeen, exact up to MaxQuiet
    pc,         \* pc[r]: the last thing the request has done
    addr,       \* addr[r]: where it comes from
    mine,       \* mine[r]: the visitor it works with
    since,      \* since[r]: ticks since it looked up the map
    sweep,      \* the addresses Range has still to visit
    sweeping,   \* whether a sweep is under way
    elapsed,    \* ticks since it read the clock
    condemned,  \* the address it is about to delete
    running,    \* stopCh is open
    ideal,      \* ideal[a]: a bucket never forgotten that pays for everything
                \* the address is granted; -1 when it cannot (history)
    calm,       \* addresses without a request since the sweep began (history)
    raced       \* addresses of which a bucket was lost to a race (history)

buckets == <<visitor, tokens, quiet>>
call    == <<pc, addr, mine, since>>
cleaner == <<sweep, sweeping, elapsed, condemned, running>>
history == <<ideal, calm, raced>>
vars    == <<buckets, call, cleaner, history>>

Full == Burst * Window

(* Beyond MaxQuiet every sweep finds a visitor idle. *)
MaxQuiet == Idle + MaxPause + 1

TypeOK ==
    /\ visitor \in [Address -> Visitor \cup {None}]
    /\ tokens \in [Visitor -> 0..Full]
    /\ quiet \in [Visitor -> 0..MaxQuiet]
    /\ pc \in [Request -> {"idle", "hit", "missed", "ready"}]
    /\ addr \in [Request -> Address \cup {None}]
    /\ mine \in [Request -> Visitor \cup {None}]
    /\ since \in [Request -> 0..MaxPause]
    /\ \A r \in Request :
          /\ pc[r] = "idle" <=> addr[r] = None
          /\ pc[r] \in {"hit", "ready"} <=> mine[r] # None
    /\ sweep \subseteq Address /\ sweeping \in BOOLEAN
    /\ elapsed \in 0..MaxPause
    /\ condemned \in Address \cup {None}
    /\ ~sweeping => sweep = {} /\ condemned = None
    /\ running \in BOOLEAN
    /\ ideal \in [Address -> -1..Full]
    /\ calm \subseteq Address /\ raced \subseteq Address

Init ==
    /\ visitor = [a \in Address |-> None]
    /\ tokens = [v \in Visitor |-> Full]
    /\ quiet = [v \in Visitor |-> 0]
    /\ pc = [r \in Request |-> "idle"]
    /\ addr = [r \in Request |-> None]
    /\ mine = [r \in Request |-> None]
    /\ since = [r \in Request |-> 0]
    /\ sweep = {} /\ sweeping = FALSE /\ elapsed = 0 /\ condemned = None
    /\ running = TRUE
    /\ ideal = [a \in Address |-> Full]
    /\ calm = {} /\ raced = {}

-----------------------------------------------------------------------------
(* The bucket of golang.org/x/time/rate.                                   *)

Refilled(n) == IF n + Burst >= Full THEN Full ELSE n + Burst

HasToken(v) == tokens[v] >= Window

Paid(n) == IF n >= Window THEN n - Window ELSE -1

-----------------------------------------------------------------------------
(* Requests: Middleware and getLimiter.                                    *)

(* A visitor nobody refers to: a new one. *)
Unused == {v \in Visitor : (\A a \in Address : visitor[a] # v)
                         /\ (\A r \in Request : mine[r] # v)}

NewVisitor == CHOOSE v \in Unused : TRUE

(* Load finds a visitor of the address, or none. *)
Arrive(r, a) ==
    /\ running
    /\ pc[r] = "idle"
    /\ pc' = [pc EXCEPT ![r] = IF visitor[a] = None THEN "missed" ELSE "hit"]
    /\ mine' = [mine EXCEPT ![r] = visitor[a]]
    /\ addr' = [addr EXCEPT ![r] = a]
    /\ since' = [since EXCEPT ![r] = 0]
    /\ calm' = calm \ {a}
    /\ UNCHANGED <<buckets, cleaner, ideal, raced>>

(* lastSeen becomes an instant between Load and now: the clock is read     *)
(* before the value is stored.                                             *)
Touch(r) ==
    /\ pc[r] = "hit"
    /\ \E n \in 0..since[r] : quiet' = [quiet EXCEPT ![mine[r]] = n]
    /\ pc' = [pc EXCEPT ![r] = "ready"]
    /\ UNCHANGED <<visitor, tokens, addr, mine, since, cleaner, history>>

MutantNewBucket == Window

(* The bucket of a new limiter is full. *)
NewBucket == Full

(* A new bucket is stored for the address, over whatever is there by now. *)
Register(r) ==
    /\ pc[r] = "missed"
    /\ Unused # {}
    /\ visitor' = [visitor EXCEPT ![addr[r]] = NewVisitor]
    /\ tokens' = [tokens EXCEPT ![NewVisitor] = NewBucket]
    /\ \E n \in 0..since[r] : quiet' = [quiet EXCEPT ![NewVisitor] = n]
    /\ pc' = [pc EXCEPT ![r] = "ready"]
    /\ mine' = [mine EXCEPT ![r] = NewVisitor]
    /\ raced' = IF visitor[addr[r]] = None THEN raced ELSE raced \cup {addr[r]}
    /\ UNCHANGED <<addr, since, cleaner, ideal, calm>>

(* The limiter has nothing more to do with the request. *)
Leave(r) ==
    /\ pc' = [pc EXCEPT ![r] = "idle"]
    /\ addr' = [addr EXCEPT ![r] = None]
    /\ mine' = [mine EXCEPT ![r] = None]
    /\ since' = [since EXCEPT ![r] = 0]

MutantAllow(r) ==
    /\ pc[r] = "ready"
    /\ tokens' = [tokens EXCEPT ![mine[r]] = @ - Window]
    /\ ideal' = [ideal EXCEPT ![addr[r]] = Paid(@)]
    /\ Leave(r)
    /\ UNCHANGED <<visitor, quiet, cleaner, calm, raced>>

Allow(r) ==
    /\ pc[r] = "ready"
    /\ HasToken(mine[r])
    /\ tokens' = [tokens EXCEPT ![mine[r]] = @ - Window]
    /\ ideal' = [ideal EXCEPT ![addr[r]] = Paid(@)]
    /\ Leave(r)
    /\ UNCHANGED <<visitor, quiet, cleaner, calm, raced>>

(* 429. *)
Refuse(r) ==
    /\ pc[r] = "ready"
    /\ ~HasToken(mine[r])
    /\ Leave(r)
    /\ UNCHANGED <<buckets, cleaner, history>>

-----------------------------------------------------------------------------
(* The sweep: cleanupLoop.                                                 *)

Quiet(a) == \A r \in Request : addr[r] # a

(* The ticker fires; the clock is read once, for the whole sweep. *)
SweepBegin ==
    /\ running /\ ~sweeping
    /\ sweeping' = TRUE
    /\ sweep' = Address
    /\ elapsed' = 0
    /\ calm' = {a \in Address : Quiet(a)}
    /\ UNCHANGED <<buckets, call, condemned, running, ideal, raced>>

MutantTooQuietEarly(v) == quiet[v] - elapsed >= Idle

MutantTooQuietNever(v) == elapsed - quiet[v] > Idle

(* Not seen for more than Idle ticks before the sweep began. *)
TooQuiet(v) == quiet[v] - elapsed > Idle

Judge(a) ==
    /\ sweeping /\ condemned = None /\ a \in sweep
    /\ sweep' = sweep \ {a}
    /\ condemned' = IF visitor[a] # None /\ TooQuiet(visitor[a]) THEN a ELSE None
    /\ UNCHANGED <<buckets, call, sweeping, elapsed, running, history>>

(* Whatever stands for the address by now is removed. *)
Forget ==
    /\ condemned # None
    /\ visitor' = [visitor EXCEPT ![condemned] = None]
    /\ condemned' = None
    /\ raced' = IF condemned \in calm THEN raced ELSE raced \cup {condemned}
    /\ UNCHANGED <<tokens, quiet, call, sweep, sweeping, elapsed, running, ideal, calm>>

SweepEnds ==
    /\ sweeping /\ sweep = {} /\ condemned = None
    /\ sweeping' = FALSE
    /\ elapsed' = 0
    /\ calm' = {}
    /\ UNCHANGED <<buckets, call, sweep, condemned, running, ideal, raced>>

(* stopCh is closed: no request is taken in and no sweep begins any more. *)
Shutdown ==
    /\ running
    /\ running' = FALSE
    /\ UNCHANGED <<buckets, call, sweep, sweeping, elapsed, condemned, history>>

-----------------------------------------------------------------------------

Busy(r) == pc[r] # "idle"

(* A tick passes, unless a request or the sweep is overdue. *)
Tick ==
    /\ \A r \in Request : Busy(r) => since[r] < MaxPause
    /\ sweeping => elapsed < MaxPause
    /\ tokens' = [v \in Visitor |-> Refilled(tokens[v])]
    /\ ideal' = [a \in Address |-> Refilled(ideal[a])]
    /\ quiet' = [v \in Visitor |-> IF quiet[v] = MaxQuiet THEN MaxQuiet ELSE quiet[v] + 1]
    /\ since' = [r \in Request |-> IF Busy(r) THEN since[r] + 1 ELSE since[r]]
    /\ elapsed' = IF sweeping THEN elapsed + 1 ELSE elapsed
    /\ UNCHANGED <<visitor, pc, addr, mine, sweep, sweeping, condemned, running, calm, raced>>

RequestStep(r) == Touch(r) \/ Register(r) \/ Allow(r) \/ Refuse(r)

SweepStep == (\E a \in Address : Judge(a)) \/ Forget \/ SweepEnds

Next ==
    \/ \E r \in Request : RequestStep(r) \/ \E a \in Address : Arrive(r, a)
    \/ SweepBegin \/ SweepStep
    \/ Shutdown
    \/ Tick

Spec == Init /\ [][Next]_vars

(* Every goroutine goes on, the ticker fires, and time passes. *)
Fairness ==
    /\ \A r \in Request : WF_vars(RequestStep(r))
    /\ WF_vars(SweepBegin) /\ WF_vars(SweepStep)
    /\ WF_vars(Tick)

FairSpec == Spec /\ Fairness

-----------------------------------------------------------------------------
(* Properties.                                                             *)

(* An address is refused only when it has used up its rate: races and the  *)
(* sweep never cost it a request that one lasting bucket would have        *)
(* admitted.                                                               *)
RefusedFairly ==
    [][\A r \in Request : Refuse(r) => ideal[addr[r]] < Window]_vars

(* A sweep that no request of the address crosses forgives little: its     *)
(* bucket has been refilling for Idle + 1 ticks, but for the time the last *)
(* two requests may have taken.  Half of the burst of the login limiter,   *)
(* nothing for the others.                                                 *)
ForgivesLittle ==
    [][\A a \in calm : visitor[a] # None /\ visitor'[a] = None =>
          \/ tokens[visitor[a]] = Full
          \/ tokens[visitor[a]] >= Burst * (Idle + 1 - 2 * MaxPause)]_vars

(* When the window is over before a visitor is forgotten, an address that  *)
(* no race has given a second bucket is granted no more than its rate.     *)
UnracedWithinRate ==
    Window + 2 * MaxPause <= Idle + 1 => \A a \in Address \ raced : ideal[a] >= 0

(* The map does not grow for ever: an address from which no more requests  *)
(* come is forgotten in the end.                                           *)
QuietIsForgotten ==
    []running => \A a \in Address : <>[]Quiet(a) => <>[](visitor[a] = None)

=============================================================================
