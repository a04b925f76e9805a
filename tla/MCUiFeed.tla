------------------------------ MODULE MCUiFeed ------------------------------
(* An instance of UiFeed for TLC. *)
EXTENDS UiFeed

\* Listed but neither stored nor an alert, and all of these.
Scores == {20, 70}

\* One row: what is stored later outranks it.
EarlierRows == {<<20>>}
=============================================================================
