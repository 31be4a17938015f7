-------------------------- MODULE DashboardProofs --------------------------
(***************************************************************************)
(* Proofs about Dashboard, for any number of requests in flight, of        *)
(* failures and of changes of the server's state.                          *)
(***************************************************************************)
EXTENDS Dashboard, TLAPS

(* StrandedForGood: a page whose first question failed never recovers,     *)
(* for any server.                                                         *)
THEOREM Stranding == Spec => StrandedForGood
<1>1. [Next]_vars => [Stranded => UNCHANGED <<page, data, error, timers, flight>>]_vars
    <2> SUFFICES ASSUME Next, Stranded PROVE UNCHANGED <<page, data, error, timers, flight>>
        OBVIOUS
    <2>1. ServerChanges
        BY DEF Next, Stranded, Mount, TimerFires, Answer, Fail, Then, Catch
    <2> QED BY <2>1 DEF ServerChanges
<1> QED BY <1>1, PTL DEF Spec, StrandedForGood
=============================================================================
