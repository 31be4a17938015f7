---------------------------- MODULE EventCustody ----------------------------
(***************************************************************************)
(* What a store-and-forward output promises about each event it takes from *)
(* the channel: an event is first held in memory, then on disk, and from   *)
(* there it is delivered to the remote service or set aside in the debug   *)
(* store. Only memory may be lost. Once on disk an event is never lost,    *)
(* and once delivered it stays delivered, whatever fails and whenever the  *)
(* process restarts.                                                       *)
(***************************************************************************)
CONSTANT Event

VARIABLE status

Status == {"new", "memory", "disk", "delivered", "aside", "lost"}

(* The ways an event may change hands in one step.                         *)
Handover ==
    { <<"new", "memory">>, <<"memory", "disk">>, <<"memory", "lost">>,
      <<"disk", "delivered">>, <<"disk", "aside">>,
      \* a failed flush may leave an event in two bundles
      <<"aside", "delivered">> }

Init == status = [e \in Event |-> "new"]

Next ==
    /\ status' \in [Event -> Status]
    /\ \A e \in Event : status'[e] = status[e] \/ <<status[e], status'[e]>> \in Handover

Spec == Init /\ [][Next]_status
=============================================================================
