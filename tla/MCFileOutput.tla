---------------------------- MODULE MCFileOutput ----------------------------
(* Two events, and a clock that reaches the third day.                     *)
EXTENDS FileOutput

CONSTANTS e1, e2

MCEvent == {e1, e2}
=============================================================================
