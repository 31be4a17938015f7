---------------------------- MODULE OutputPromise ----------------------------
(***************************************************************************)
(* What the process around an output relies on (Forwarder models the       *)
(* output from this side): a goroutine that takes events until it leaves   *)
(* its loop, settles what it still holds, and only then broadcasts that it *)
(* has stopped, on which the process exits. An output whose own resources  *)
(* have failed may stop with events in hand, and the process may end       *)
(* without a broadcast.                                                    *)
(***************************************************************************)
CONSTANT Event

VARIABLES
    phase,   \* "down", "select", "cleanup", "stopped"
    held,    \* events the output holds in memory
    failed   \* one of the output's resources has failed since it was started

vars == <<phase, held, failed>>

\* Not yet started, or just started.
Init == phase \in {"down", "select"} /\ held = {} /\ failed = FALSE

Begin == phase # "cleanup" /\ phase' = "select" /\ held' = {} /\ failed' = FALSE

(* Events are taken in the loop, and nowhere else.                         *)
Work ==
    /\ phase = "select" /\ phase' \in {"select", "cleanup"}
    /\ held' \subseteq Event /\ failed' \in {failed, TRUE}

(* Afterwards it only lets go of them; a resource may fail even later.     *)
Settle ==
    /\ phase \in {"cleanup", "stopped"} /\ UNCHANGED phase
    /\ held' \subseteq held /\ failed' \in {failed, TRUE}

(* The broadcast comes last.                                               *)
Finish ==
    /\ phase = "cleanup" /\ phase' = "stopped"
    /\ held' = {} /\ (held = {} \/ failed) /\ UNCHANGED failed

(* The process ends without a broadcast, or has never begun.               *)
Die == phase' = "down" /\ held' = {} /\ failed' = FALSE

Next == Begin \/ Work \/ Settle \/ Finish \/ Die

Spec == Init /\ [][Next]_vars
=============================================================================
