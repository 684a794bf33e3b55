---------------------------- MODULE MCSettings ----------------------------
(* Settings on a small instance: one setting with a setter and one rate    *)
(* limit, which has none, both with the bounds 1..2.                       *)
EXTENDS Settings, TLC

CONSTANTS r1, r2, r3

MCRequest == {r1, r2, r3}
MCLowest  == [k \in Key |-> 1]
MCHighest == [k \in Key |-> 2]
MCCfg     == [k \in Key |-> 3]
MCDefault == [k \in Key |-> 2]
SameCfg   == [k \in Key |-> 2]

Symmetry == Permutations(MCRequest)
=============================================================================
