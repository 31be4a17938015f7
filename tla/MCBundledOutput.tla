-------------------------- MODULE MCBundledOutput --------------------------
(* Instances of BundledOutput for TLC.                                     *)
EXTENDS BundledOutput, FiniteSetsExt

CONSTANTS e1, e2, e3, s1, s2, s3, s4, s5, s6, t1, t2, t3

(* With a bundle_size_max of 3, e1 and another event fill a bundle         *)
(* exactly, and the two others together overflow it.                       *)
MCEventLen == [e \in Event |-> IF e = e1 THEN 1 ELSE 2]
MCNone == {}

(* Bounds of the run. It has a -check run, or a file system call that      *)
(* fails and a bundle that is refused, not both; the third event comes in  *)
(* the first process, without such a failure; and beside a -check run or   *)
(* after the third event there is one upload at a time.                    *)
OneTrouble ==
    /\ checks = 0 \/ faults + refusals = 0
    /\ e3 \in accepted => starts = 1 /\ faults + refusals = 0
    /\ checks > 0 \/ e3 \in accepted => Room

MCBytes == [evs \in SUBSET Event |-> MapThenSumSet(LAMBDA e : EventLen[e], evs)]
=============================================================================
