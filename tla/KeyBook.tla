------------------------------ MODULE KeyBook ------------------------------
(***************************************************************************)
(* What the key cache promises: a book of keys that changes, and a copy of *)
(* it that requests are served from.  The copy may lag behind and may even *)
(* go back, but not behind the last time it caught up with the book, and   *)
(* it is always the book of one instant.  A start that cannot read the     *)
(* book serves nobody.                                                     *)
(***************************************************************************)
CONSTANTS Book,     \* the books there can be
          Nobody    \* the book without a key

VARIABLES book,     \* the keys as they are
          served,   \* the copy
          since     \* the books since the copy last caught up

vars == <<book, served, since>>

Init ==
    /\ book = Nobody /\ served = Nobody
    /\ since = {Nobody}

Alter ==
    /\ book' \in Book
    /\ since' = since \cup {book'}
    /\ UNCHANGED served

(* The copy becomes some book since it last caught up. *)
Lag ==
    /\ served' \in since
    /\ UNCHANGED <<book, since>>

CatchUp ==
    /\ served' = book
    /\ since' = {book}
    /\ UNCHANGED book

StartEmpty ==
    /\ served' = Nobody
    /\ since' = {book}
    /\ UNCHANGED book

Next == Alter \/ Lag \/ CatchUp \/ StartEmpty

Spec == Init /\ [][Next]_vars
=============================================================================
