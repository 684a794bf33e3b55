----------------------------- MODULE MCApiKeys -----------------------------
(* ApiKeys on small instances.                                             *)
EXTENDS ApiKeys, TLC

CONSTANTS w1, w2, i1, i2, k1, k2, q1, here, away

MCWorker == {w1, w2}
MCId == {i1, i2}
MCKey == {k1, k2}

Symmetry == Permutations(MCWorker) \cup Permutations(MCId) \cup Permutations(MCKey)
=============================================================================
