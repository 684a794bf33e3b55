-------------------------- MODULE MCAdminAccount --------------------------
(* AdminAccount on a small instance.                                       *)
EXTENDS AdminAccount, TLC

CONSTANTS r1, r2, s1, s2, c1, c2, c3

MCRequest == {r1, r2}
MCSecret  == {s1, s2}
MCCaptcha == {c1, c2, c3}

Symmetry == Permutations(MCRequest) \cup Permutations(MCSecret) \cup Permutations(MCCaptcha)
=============================================================================
