----------------------------- MODULE MCServiced -----------------------------
(* Instances of Serviced for TLC.                                          *)
EXTENDS Serviced

CONSTANTS r1, r2, p1, p2, p3, p4, p5, p6, p7
=============================================================================
