------------------------------ MODULE Dashboard ------------------------------
(***************************************************************************)
(* The status page (static/js/bundle.js): StatusTable asks the debug       *)
(* server for /debug/vars and shows the answer. The first answer starts a  *)
(* timer that asks again every second, whether or not earlier questions    *)
(* have been answered; answers come in any order.                          *)
(*                                                                         *)
(* Of the bundle only the two modules of the repository are modelled; the  *)
(* libraries are external: axios answers a request or rejects it, and      *)
(* React renders after setState. An answer is the server's state at the    *)
(* time it answered, as a version number. What the page makes of the       *)
(* numbers (units, relative times) is left out.                            *)
(***************************************************************************)
EXTENDS Integers

CONSTANTS
    Slot,         \* bound: requests in flight
    MaxVersion,   \* bound: changes of the server's state
    MaxFailures   \* bound: requests that fail

ASSUME DashboardBounds == Slot # {} /\ {MaxVersion, MaxFailures} \subseteq Nat

None == 0          \* no data: {}
Version == 1 .. MaxVersion + 1

VARIABLES
    published,  \* answers have a connection_status
    version,    \* the server's state
    page,       \* "loading", "mounted"
    data,       \* state.data: the version of the last answer, or None
    error,      \* state.error is not empty
    timers,     \* timers set with setInterval
    flight,     \* flight[s]: <<"free">>, <<"sent">>, <<"failed">>, or <<"ok", version>>
    answered,   \* some request has been answered
    failures    \* what is spent of MaxFailures

vars == <<published, version, page, data, error, timers, flight, answered, failures>>

Init ==
    /\ published \in BOOLEAN /\ version = 1
    /\ page = "loading" /\ data = None /\ error = FALSE /\ timers = 0
    /\ flight = [s \in Slot |-> <<"free">>]
    /\ answered = FALSE /\ failures = 0

-----------------------------------------------------------------------------
(* The server and the network                                              *)

ServerChanges ==
    /\ version <= MaxVersion /\ version' = version + 1
    /\ UNCHANGED <<published, page, data, error, timers, flight, answered, failures>>

Answer(s) ==
    /\ flight[s] = <<"sent">>
    /\ flight' = [flight EXCEPT ![s] = <<"ok", version>>]
    /\ UNCHANGED <<published, version, page, data, error, timers, answered, failures>>

(* No connection, or a status that is no success.                          *)
Fail(s) ==
    /\ flight[s] = <<"sent">> /\ failures < MaxFailures /\ failures' = failures + 1
    /\ flight' = [flight EXCEPT ![s] = <<"failed">>]
    /\ UNCHANGED <<published, version, page, data, error, timers, answered>>

-----------------------------------------------------------------------------
(* The page                                                                *)

RefreshData == \E s \in Slot : flight[s] = <<"free">> /\ flight' = [flight EXCEPT ![s] = <<"sent">>]

ComponentDidMount == RefreshData

(* The page shows App, and App a StatusTable.                              *)
Mount ==
    /\ page = "loading" /\ page' = "mounted" /\ ComponentDidMount
    /\ UNCHANGED <<published, version, data, error, timers, answered, failures>>

TimerFires ==
    /\ timers > 0 /\ RefreshData
    /\ UNCHANGED <<published, version, page, data, error, timers, answered, failures>>

(* The answer is shown, whatever is shown already, and the timer started   *)
(* if there is none.                                                       *)
Then(s) ==
    /\ \E v \in Version : flight[s] = <<"ok", v>> /\ data' = v
    /\ error' = FALSE /\ timers' = IF timers = 0 THEN 1 ELSE timers
    /\ answered' = TRUE /\ flight' = [flight EXCEPT ![s] = <<"free">>]
    /\ UNCHANGED <<published, version, page, failures>>

\* Mutant: an error ends the polling.
CatchStops(s) ==
    /\ flight[s] = <<"failed">>
    /\ data' = None /\ error' = TRUE /\ timers' = 0
    /\ flight' = [flight EXCEPT ![s] = <<"free">>]
    /\ UNCHANGED <<published, version, page, answered, failures>>

(* The error is shown. No timer is started: a first request that fails is  *)
(* the last one.                                                           *)
Catch(s) ==
    /\ flight[s] = <<"failed">>
    /\ data' = None /\ error' = TRUE
    /\ flight' = [flight EXCEPT ![s] = <<"free">>]
    /\ UNCHANGED <<published, version, page, timers, answered, failures>>

(* What render makes of the state.                                         *)
Render ==
    CASE error -> "connection error"
      [] ~error /\ (data = None \/ ~published) -> "nothing"
      [] OTHER -> "summary"

Next ==
    \/ ServerChanges \/ Mount \/ TimerFires
    \/ \E s \in Slot : Answer(s) \/ Fail(s) \/ Then(s) \/ Catch(s)

Spec == Init /\ [][Next]_vars

(* Fairness: every request ends, the browser runs what is due, a timer     *)
(* fires.                                                                  *)
FairSpec ==
    /\ Spec
    /\ WF_vars(Mount) /\ WF_vars(TimerFires)
    /\ \A s \in Slot : WF_vars(Answer(s) \/ Fail(s)) /\ WF_vars(Then(s) \/ Catch(s))

-----------------------------------------------------------------------------
(* Properties                                                              *)

(* A first question that fails is the last: the page shows the error, and  *)
(* whatever the server does from then on, nothing is asked or shown again  *)
(* until the page is loaded anew. (The timer is started by an answer only.)*)
Stranded == page = "mounted" /\ timers = 0 /\ \A s \in Slot : flight[s] = <<"free">>
StrandedForGood == [][Stranded => UNCHANGED <<page, data, error, timers, flight>>]_vars

(* Once an answer has come, the page comes to show the server's state and  *)
(* stays with it when that changes no more: answers that arrive late, an   *)
(* old one over a newer one, and errors shown in between are repaired by   *)
(* the next questions.                                                     *)
EventuallyCurrent ==
    <>[](answered => data = version /\ Render = IF published THEN "summary" ELSE "nothing")
=============================================================================
