--------------------------- MODULE MCSignedLinks ---------------------------
(* SignedLinks on small instances.                                         *)
EXTENDS SignedLinks

CONSTANTS t1, t2, w1, w2

MCToken == {t1, t2}
MCWorker == {w1, w2}
=============================================================================
