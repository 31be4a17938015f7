---------------------------- MODULE MCForwarder ----------------------------
(* Instances of Forwarder for TLC.                                         *)
EXTENDS Forwarder, TLC

CONSTANTS m1, m2, m4, e1, e2, e3, w1, w2

(* A message of two events, one of one, and one whose header is            *)
(* malformed.                                                              *)
MCEventsOf == [m \in Message |-> CASE m = m1 -> {e1, e2} [] m = m2 -> {e3} [] OTHER -> {}]

(* Input workers are interchangeable.                                      *)
Workers == Permutations(Worker)
=============================================================================
