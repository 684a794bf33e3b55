--------------------------- MODULE DownloadBudget ---------------------------
(***************************************************************************)
(* What the signed-link service promises, with no cache, database, clock   *)
(* or lock: a link is issued once with a limit, a download takes one unit  *)
(* of what is left of it, and units may be lost (expiry, clean-up, a       *)
(* crash) but never come back.                                             *)
(***************************************************************************)
EXTENDS Integers

CONSTANT Token      \* the link tokens

VARIABLES
    limit,          \* limit[t]: downloads the link was issued for, 0 before
    left,           \* left[t]: downloads it still allows
    granted         \* granted[t]: downloads it has allowed so far

vars == <<limit, left, granted>>

TypeOK == /\ limit \in [Token -> Nat]
          /\ left \in [Token -> Nat]
          /\ granted \in [Token -> Nat]

Init == /\ limit = [t \in Token |-> 0]
        /\ left = [t \in Token |-> 0]
        /\ granted = [t \in Token |-> 0]

(* A new link: every download it was issued for is left. *)
Issue(t, n) ==
    /\ n \in Nat \ {0}
    /\ limit[t] = 0
    /\ limit' = [limit EXCEPT ![t] = n]
    /\ left' = [left EXCEPT ![t] = n]
    /\ UNCHANGED granted

(* A download is allowed and paid for. *)
Grant(t) ==
    /\ left[t] > 0
    /\ left' = [left EXCEPT ![t] = @ - 1]
    /\ granted' = [granted EXCEPT ![t] = @ + 1]
    /\ UNCHANGED limit

(* Downloads that were left are lost, of one link or of several. *)
Lose ==
    /\ left' \in [Token -> Nat]
    /\ \A t \in Token : left'[t] <= left[t]
    /\ UNCHANGED <<limit, granted>>

Next == \/ \E t \in Token : Issue(t, limit'[t]) \/ Grant(t)
        \/ Lose

Spec == Init /\ [][Next]_vars

(* A link never allows more downloads than it was issued for, counting the *)
(* ones it could still allow.                                              *)
WithinLimit == \A t \in Token : granted[t] + left[t] <= limit[t]
=============================================================================
