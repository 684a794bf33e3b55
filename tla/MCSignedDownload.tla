-------------------------- MODULE MCSignedDownload --------------------------
(* SignedDownload on small instances.                                      *)
EXTENDS SignedDownload, TLC

CONSTANTS r1, r2, t1, f1

MCRequest == {r1, r2}

Symmetry == Permutations(MCRequest)
=============================================================================
