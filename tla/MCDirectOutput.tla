--------------------------- MODULE MCDirectOutput ---------------------------
(* Three events: one ordinary, one without a type, one too long for a      *)
(* datagram.                                                               *)
EXTENDS DirectOutput

CONSTANTS e1, e2, e3

MCEvent == {e1, e2, e3}
MCUntyped == {e2}
MCOversized == {e3}
=============================================================================
