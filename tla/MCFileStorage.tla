--------------------------- MODULE MCFileStorage ---------------------------
(* FileStorage on small instances.                                         *)
EXTENDS FileStorage, TLC

CONSTANTS w1, w2, f1, i1, i2, i3, a, b

MCWorker == {w1, w2}
MCInode == {i1, i2, i3}

(* Nothing, what only the raised limit allows, what is too large for both. *)
MCContents == {<<>>, <<a>>, <<b, b>>}

Symmetry == Permutations(MCWorker) \cup Permutations(MCInode)
=============================================================================
