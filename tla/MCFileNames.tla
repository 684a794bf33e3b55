---------------------------- MODULE MCFileNames ----------------------------
(* FileNames over all names of a few characters.                           *)
EXTENDS FileNames

MCLetter == {"n", "x"}

(* Short for the names of devices. *)
MCReserved == {<<"n">>}

MCUnnamed == <<"x", "x">>

MCAllowed == {<<".", "x">>}
=============================================================================
