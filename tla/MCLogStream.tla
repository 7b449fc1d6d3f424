---------------------------- MODULE MCLogStream ----------------------------
(* LogStream on small instances, for TLC. *)
EXTENDS LogStream

\* The first and the third line of the response are blank.
OddLines == {1, 3}

\* The first line of the response is blank.
FirstLine == {1}
=============================================================================
