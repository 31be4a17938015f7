-------------------------- MODULE ForwarderProofs --------------------------
(***************************************************************************)
(* Proofs about Forwarder for any number of messages, events, workers,     *)
(* signals and lost connections, any channel size, and with PromptMain or  *)
(* without it.                                                             *)
(***************************************************************************)
EXTENDS Forwarder, FiniteSetTheorems, TLAPS

(* The steps that leave the pipeline alone: those of the AMQP loop between *)
(* two connections, of main, of the signal goroutine and of the output.    *)
ControlStep ==
    \/ NewConsumer \/ OpenChannel \/ ConnectFails \/ ReadError \/ LeaveServe \/ WorkersExited \/ Retry
    \/ OutputFails \/ TakeHup \/ TakeTerm \/ OutputStops
    \/ MainStep \/ (\E s \in {"HUP", "TERM"} : Signal(s)) \/ SignalStep \/ ShutdownPanics

LEMMA StepCases ==
    ASSUME [Next]_vars
    PROVE  \/ UNCHANGED vars
           \/ ControlStep
           \/ \E m \in Message : Deliver(m)
           \/ LoseConnection \/ CancelConsumer \/ Shutdown
           \/ Subscribe \/ Serve
           \/ \E w \in Worker, m \in Message : TakeDelivery(w, m)
           \/ \E w \in Worker, m \in Message : TakePoison(w, m)
           \/ \E w \in Worker, e \in Event : OutputMessage(w, e)
           \/ \E w \in Worker : WorkerExits(w)
           \/ \E e \in Event : TakeEvent(e)
BY DEF Next, ControlStep, AmqpStep, WorkerStep, CloserStep, TakeAnyEvent, Ended

LEMMA ControlKeepsPipeline == ControlStep => UNCHANGED eventVars
<1> USE DEF eventVars
<1>1. NewConsumer \/ OpenChannel \/ ConnectFails \/ ReadError \/ LeaveServe \/ WorkersExited \/ Retry => UNCHANGED eventVars
    BY DEF NewConsumer, OpenChannel, ConnectFails, ReadError, LeaveServe, WorkersExited, Retry
<1>2. OutputFails \/ TakeHup \/ TakeTerm \/ OutputStops => UNCHANGED eventVars
    BY DEF OutputFails, TakeHup, TakeTerm, OutputStops
<1>3. MainStep \/ (\E s \in {"HUP", "TERM"} : Signal(s)) => UNCHANGED eventVars
    BY DEF MainStep, HookSignals, SpawnSignalLoop, AwaitOutputDone, Signal
<1>4. SignalStep \/ ShutdownPanics => UNCHANGED eventVars
    BY DEF SignalStep, TakeSignal, ShutdownAwaited, WorkersAwaited, ShutdownPanics
<1> QED BY <1>1, <1>2, <1>3, <1>4 DEF ControlStep

-----------------------------------------------------------------------------
(* Types                                                                   *)

LEMMA TypeInit == Init => TypeOK
<1>1. Init => unheard \in BOOLEAN
    BY Zenon DEF Init
<1> QED BY <1>1, ForwarderSizes DEF Init, TypeOK

LEMMA TypeNext == TypeOK /\ [Next]_vars => TypeOK'
<1> SUFFICES ASSUME TypeOK, [Next]_vars PROVE TypeOK' OBVIOUS
<1> USE DEF TypeOK, amqpVars, eventVars, stopVars, bounds, End
<1>1. CASE UNCHANGED vars
    BY <1>1 DEF vars
<1>2. CASE ControlStep
    <2>1. CASE NewConsumer \/ OpenChannel \/ ConnectFails \/ ReadError \/ LeaveServe \/ WorkersExited \/ Retry
        BY <2>1 DEF NewConsumer, OpenChannel, ConnectFails, ReadError, LeaveServe, WorkersExited, Retry
    <2>2. CASE OutputFails \/ TakeHup \/ TakeTerm
        BY <2>2 DEF OutputFails, TakeHup, TakeTerm
    <2>3. CASE OutputStops
        BY <2>3 DEF OutputStops, Broadcast
    <2>4. CASE MainStep
        BY <2>4 DEF MainStep, HookSignals, SpawnSignalLoop, AwaitOutputDone
    <2>5. CASE \E s \in {"HUP", "TERM"} : Signal(s)
        <3>1. PICK s \in {"HUP", "TERM"} : Signal(s)
            BY <2>5
        <3>2. signals' \in Seq({"HUP", "TERM"}) /\ Len(signals') <= SignalSize
            BY <3>1, ForwarderSizes DEF Signal
        <3> QED BY <3>1, <3>2 DEF Signal
    <2>6. CASE SignalStep
        <3>1. CASE TakeSignal
            <4>1. signals' \in Seq({"HUP", "TERM"}) /\ Len(signals') <= SignalSize
                BY <3>1, ForwarderSizes DEF TakeSignal
            <4> QED BY <3>1, <4>1 DEF TakeSignal
        <3>2. CASE ShutdownAwaited \/ WorkersAwaited
            BY <3>2 DEF ShutdownAwaited, WorkersAwaited
        <3> QED BY <2>6, <3>1, <3>2 DEF SignalStep
    <2>7. CASE ShutdownPanics
        BY <2>7 DEF ShutdownPanics
    <2> QED BY <1>2, <2>1, <2>2, <2>3, <2>4, <2>5, <2>6, <2>7 DEF ControlStep
<1>3. ASSUME NEW m \in Message, Deliver(m) PROVE TypeOK'
    BY <1>3 DEF Deliver
<1>4. CASE LoseConnection \/ CancelConsumer
    BY <1>4 DEF LoseConnection, CancelConsumer, CloseDeliveries
<1>5. CASE Shutdown
    BY <1>5 DEF Shutdown, CloseDeliveries
<1>6. CASE Subscribe \/ Serve
    BY <1>6 DEF Subscribe, Serve
<1>7. ASSUME NEW w \in Worker, NEW m \in Message, TakeDelivery(w, m) PROVE TypeOK'
    <2>1. todo' \in [Worker -> SUBSET Event]
        BY <1>7, ForwarderMessages DEF TakeDelivery
    <2> QED BY <1>7, <2>1 DEF TakeDelivery
<1>8. ASSUME NEW w \in Worker, NEW m \in Message, TakePoison(w, m) PROVE TypeOK'
    BY <1>8 DEF TakePoison
<1>9. ASSUME NEW w \in Worker, NEW e \in Event, OutputMessage(w, e) PROVE TypeOK'
    <2>1. todo' \in [Worker -> SUBSET Event]
        BY <1>9 DEF OutputMessage
    <2> QED BY <1>9, <2>1 DEF OutputMessage
<1>10. ASSUME NEW w \in Worker, WorkerExits(w) PROVE TypeOK'
    BY <1>10 DEF WorkerExits
<1>11. ASSUME NEW e \in Event, TakeEvent(e) PROVE TypeOK'
    BY <1>11 DEF TakeEvent
<1> QED BY StepCases, <1>1, <1>2, <1>3, <1>4, <1>5, <1>6, <1>7, <1>8, <1>9, <1>10, <1>11

(* The forwarder's state always has its type.                              *)
THEOREM TypeCorrect == Spec => []TypeOK
<1> QED BY TypeInit, TypeNext, PTL DEF Spec

-----------------------------------------------------------------------------
(* The pipeline                                                            *)

(* The part of the invariant that is about messages and events.            *)
PipeInv == WorkersLeaveNothing /\ NothingInvented /\ NothingLostInPipeline /\ NothingTwice

LEMMA PipeInit == Init => PipeInv
BY ForwarderSizes, FS_EmptySet DEF Init, PipeInv, WorkersLeaveNothing, NothingInvented, NothingLostInPipeline,
      NothingTwice, InPipeline, Todo

(* What the workers leave behind.                                          *)
LEMMA WorkersNext == TypeOK /\ WorkersLeaveNothing /\ [Next]_vars => WorkersLeaveNothing'
<1> SUFFICES ASSUME TypeOK, WorkersLeaveNothing, [Next]_vars PROVE WorkersLeaveNothing' OBVIOUS
<1> USE DEF WorkersLeaveNothing, amqpVars, eventVars
<1>1. CASE UNCHANGED vars
    BY <1>1 DEF vars
<1>2. CASE ControlStep
    <2>1. UNCHANGED <<deliveries, workers, todo>>
        BY <1>2, ControlKeepsPipeline
    <2>2. /\ subscribed' = subscribed
          /\ amqp = "notify" => amqp' = "notify"
          /\ amqp' \in {"connect", "dial", "channel", "notify", "sleep"} => workers = {}
        <3>1. CASE NewConsumer \/ OpenChannel \/ ConnectFails \/ ReadError \/ LeaveServe \/ WorkersExited \/ Retry
            BY <3>1 DEF NewConsumer, OpenChannel, ConnectFails, ReadError, LeaveServe, WorkersExited, Retry
        <3>2. CASE OutputFails \/ TakeHup \/ TakeTerm \/ OutputStops
            BY <3>2 DEF OutputFails, TakeHup, TakeTerm, OutputStops
        <3>3. CASE MainStep \/ (\E s \in {"HUP", "TERM"} : Signal(s))
            BY <3>3 DEF MainStep, HookSignals, SpawnSignalLoop, AwaitOutputDone, Signal
        <3>4. CASE SignalStep \/ ShutdownPanics
            BY <3>4 DEF SignalStep, TakeSignal, ShutdownAwaited, WorkersAwaited, ShutdownPanics
        <3> QED BY <1>2, <3>1, <3>2, <3>3, <3>4 DEF ControlStep
    <2> QED BY <2>1, <2>2
<1>3. ASSUME NEW m \in Message, Deliver(m) PROVE WorkersLeaveNothing'
    BY <1>3 DEF Deliver
<1>4. CASE LoseConnection \/ CancelConsumer
    BY <1>4 DEF LoseConnection, CancelConsumer, CloseDeliveries
<1>5. CASE Shutdown
    BY <1>5 DEF Shutdown, CloseDeliveries
<1>6. CASE Subscribe \/ Serve
    BY <1>6 DEF Subscribe, Serve
<1>7. ASSUME NEW w \in Worker, NEW m \in Message, TakeDelivery(w, m) PROVE WorkersLeaveNothing'
    BY <1>7 DEF TakeDelivery, TypeOK
<1>8. ASSUME NEW w \in Worker, NEW m \in Message, TakePoison(w, m) PROVE WorkersLeaveNothing'
    BY <1>8 DEF TakePoison
<1>9. ASSUME NEW w \in Worker, NEW e \in Event, OutputMessage(w, e) PROVE WorkersLeaveNothing'
    BY <1>9 DEF OutputMessage, TypeOK
<1>10. ASSUME NEW w \in Worker, WorkerExits(w) PROVE WorkersLeaveNothing'
    BY <1>10 DEF WorkerExits
<1>11. ASSUME NEW e \in Event, TakeEvent(e) PROVE WorkersLeaveNothing'
    BY <1>11 DEF TakeEvent
<1> QED BY StepCases, <1>1, <1>2, <1>3, <1>4, <1>5, <1>6, <1>7, <1>8, <1>9, <1>10, <1>11

(* A channel grows by at most what is put on it.                           *)
LEMMA OneEvent ==
    ASSUME NEW S, IsFiniteSet(S), NEW e
    PROVE  /\ Cardinality(S) \in Nat
           /\ Cardinality(S \cup {e}) \in {Cardinality(S), Cardinality(S) + 1}
           /\ Cardinality(S \ {e}) \in {Cardinality(S), Cardinality(S) - 1}
<1>1. Cardinality(S) \in Nat
    BY FS_CardinalityType
<1>2. Cardinality(S \cup {e}) \in {Cardinality(S), Cardinality(S) + 1}
    BY FS_AddElement
<1>3. Cardinality(S \ {e}) \in {Cardinality(S), Cardinality(S) - 1}
    BY FS_RemoveElement
<1> QED BY <1>1, <1>2, <1>3

LEMMA PipeNext == TypeOK /\ PipeInv /\ [Next]_vars => PipeInv'
<1> SUFFICES ASSUME TypeOK, PipeInv, [Next]_vars
             PROVE  NothingInvented' /\ NothingLostInPipeline' /\ NothingTwice'
    BY WorkersNext DEF PipeInv
<1> DEFINE Rest == NothingInvented /\ NothingLostInPipeline /\ NothingTwice
<1> USE DEF PipeInv, NothingInvented, NothingLostInPipeline, NothingTwice, InPipeline, Todo
<1>quiet. ASSUME UNCHANGED <<deliveries, workers, todo, outputChan, delivered, dropped, written>>
          PROVE  Rest'
    BY <1>quiet
<1>room. IsFiniteSet(outputChan) /\ Cardinality(outputChan) \in Nat
    <2>1. outputChan \in SUBSET Event
        BY DEF TypeOK
    <2> QED BY <2>1, ForwarderSizes, FS_Subset, FS_CardinalityType
<1>1. CASE UNCHANGED vars
    BY <1>1, <1>quiet DEF vars, eventVars
<1>2. CASE ControlStep
    BY <1>2, <1>quiet, ControlKeepsPipeline DEF eventVars
<1>3. ASSUME NEW m \in Message, Deliver(m) PROVE Rest'
    BY <1>3 DEF Deliver
<1>4. ASSUME CloseDeliveries,
             UNCHANGED <<workers, todo, outputChan, delivered, written>>
      PROVE  Rest'
    <2>1. PICK kept \in SUBSET deliveries : deliveries' = kept /\ dropped' = dropped \cup (deliveries \ kept)
        BY <1>4 DEF CloseDeliveries
    <2> QED BY <1>4, <2>1
<1>5. CASE LoseConnection \/ CancelConsumer
    BY <1>4, <1>5 DEF LoseConnection, CancelConsumer
<1>6. CASE Shutdown
    <2>1. CASE conn = "open"
        BY <1>4, <1>6, <2>1 DEF Shutdown
    <2>2. CASE conn # "open"
        BY <1>6, <2>2, <1>quiet DEF Shutdown
    <2> QED BY <2>1, <2>2
<1>7. CASE Subscribe \/ Serve
    <2>1. CASE Subscribe
        <3>1. deliveries = {}
            BY <2>1, ForwarderSizes DEF Subscribe, WorkersLeaveNothing
        <3> QED BY <2>1, <3>1, <1>quiet DEF Subscribe
    <2>2. CASE Serve
        BY <2>2 DEF Serve
    <2> QED BY <1>7, <2>1, <2>2
<1>8. ASSUME NEW w \in Worker, NEW m \in Message, TakeDelivery(w, m) PROVE Rest'
    <2>1. /\ todo[w] = {} /\ m \in deliveries /\ deliveries' = deliveries \ {m}
          /\ UNCHANGED <<workers, outputChan, delivered, dropped, written>>
        BY <1>8 DEF TakeDelivery
    <2>2. todo'[w] = EventsOf[m] /\ \A v \in Worker \ {w} : todo'[v] = todo[v]
        BY <1>8 DEF TakeDelivery, TypeOK
    <2>3. Todo' = Todo \cup EventsOf[m] /\ Todo \cap EventsOf[m] = {}
        BY <2>1, <2>2
    <2>4. \A n \in Message \ {m} : EventsOf[n] \cap EventsOf[m] = {}
        BY ForwarderMessages
    <2>5. NothingInvented'
        BY <2>1, <2>3, <2>4
    <2>6. NothingLostInPipeline'
        BY <2>1, <2>3 DEF TypeOK
    <2>7. \A u, v \in Worker : u # v => todo'[u] \cap todo'[v] = {}
        BY <2>1, <2>2
    <2>8. NothingTwice'
        BY <2>1, <2>3, <2>4, <2>7 DEF TypeOK
    <2> QED BY <2>5, <2>6, <2>8
<1>9. ASSUME NEW w \in Worker, NEW m \in Message, TakePoison(w, m) PROVE Rest'
    <2>1. /\ m \in deliveries /\ deliveries' = deliveries \ {m} /\ EventsOf[m] = {}
          /\ UNCHANGED <<workers, todo, outputChan, delivered, dropped, written>>
        BY <1>9, ForwarderMessages DEF TakePoison
    <2> QED BY <2>1
<1>10. ASSUME NEW w \in Worker, NEW e \in Event, OutputMessage(w, e) PROVE Rest'
    <2>1. /\ e \in todo[w] /\ outputChan' = outputChan \cup {e}
          /\ UNCHANGED <<deliveries, workers, delivered, dropped, written>>
        BY <1>10 DEF OutputMessage
    <2>2. todo'[w] = todo[w] \ {e} /\ \A v \in Worker \ {w} : todo'[v] = todo[v]
        BY <1>10 DEF OutputMessage, TypeOK
    <2>3. e \in Todo /\ Todo' = Todo \ {e}
        BY <2>1, <2>2
    <2>4. InPipeline' = InPipeline
        BY <2>1, <2>3
    <2>5. \A u, v \in Worker : u # v => todo'[u] \cap todo'[v] = {}
        BY <2>2
    <2>6. NothingTwice'
        BY <2>1, <2>3, <2>4, <2>5
    <2>7. Cardinality(outputChan') <= ChanSize
        <3>1. Cardinality(outputChan) < ChanSize
            BY <1>10 DEF OutputMessage
        <3>2. Cardinality(outputChan') \in {Cardinality(outputChan), Cardinality(outputChan) + 1}
            BY <1>room, <2>1, OneEvent
        <3> QED BY <1>room, <3>1, <3>2, ForwarderSizes
    <2> QED BY <2>1, <2>4, <2>6, <2>7
<1>11. ASSUME NEW w \in Worker, WorkerExits(w) PROVE Rest'
    BY <1>11 DEF WorkerExits
<1>12. ASSUME NEW e \in Event, TakeEvent(e) PROVE Rest'
    <2>1. /\ e \in outputChan /\ outputChan' = outputChan \ {e} /\ written' = written \cup {e}
          /\ UNCHANGED <<deliveries, workers, todo, delivered, dropped>>
        BY <1>12 DEF TakeEvent
    <2>2. InPipeline' = InPipeline
        BY <2>1
    <2>3. Cardinality(outputChan') <= ChanSize
        <3>1. Cardinality(outputChan') \in {Cardinality(outputChan), Cardinality(outputChan) - 1}
            BY <1>room, <2>1, OneEvent
        <3> QED BY <1>room, <3>1, ForwarderSizes
    <2> QED BY <2>1, <2>2, <2>3
<1> QED BY StepCases, <1>1, <1>2, <1>3, <1>5, <1>6, <1>7, <1>8, <1>9, <1>10, <1>11, <1>12

(* Reconnecting, a full channel, a stop in progress and the end of the     *)
(* process itself leave every event of a message that was not dropped with *)
(* its connection accounted for, and outputChan within its size.           *)
THEOREM PipelineKeepsEvents == Spec => []NothingLostInPipeline
<1>1. Init => TypeOK /\ PipeInv
    BY TypeInit, PipeInit
<1>2. TypeOK /\ PipeInv /\ [Next]_vars => (TypeOK /\ PipeInv)'
    BY TypeNext, PipeNext
<1>3. PipeInv => NothingLostInPipeline
    BY DEF PipeInv
<1> QED BY <1>1, <1>2, <1>3, PTL DEF Spec

(* No event is held or handed to the output twice, by however many workers *)
(* and over however many connections.                                      *)
THEOREM PipelineDuplicatesNothing == Spec => []NothingTwice
<1>1. Init => TypeOK /\ PipeInv
    BY TypeInit, PipeInit
<1>2. TypeOK /\ PipeInv /\ [Next]_vars => (TypeOK /\ PipeInv)'
    BY TypeNext, PipeNext
<1>3. PipeInv => NothingTwice
    BY DEF PipeInv
<1> QED BY <1>1, <1>2, <1>3, PTL DEF Spec

-----------------------------------------------------------------------------
(* Status                                                                  *)

ControlInv == ClosedForAReason /\ HealthNotStale

LEMMA ControlNext == TypeOK /\ ControlInv /\ [Next]_vars => ControlInv'
<1> SUFFICES ASSUME TypeOK, ControlInv, [Next]_vars PROVE ControlInv' OBVIOUS
<1> USE DEF ControlInv, ClosedForAReason, HealthNotStale,
            amqpVars, stopVars, bounds, End, Running
<1>1. CASE UNCHANGED vars
    BY <1>1 DEF vars
<1>2. CASE ControlStep
    <2>1. CASE NewConsumer \/ OpenChannel \/ ConnectFails \/ ReadError \/ LeaveServe \/ WorkersExited \/ Retry
        BY <2>1 DEF NewConsumer, OpenChannel, ConnectFails, ReadError, LeaveServe, WorkersExited, Retry
    <2>2. CASE OutputFails \/ TakeHup \/ TakeTerm
        BY <2>2 DEF OutputFails, TakeHup, TakeTerm
    <2>3. CASE OutputStops
        BY <2>3 DEF OutputStops, Broadcast
    <2>4. CASE MainStep \/ (\E s \in {"HUP", "TERM"} : Signal(s))
        BY <2>4 DEF MainStep, HookSignals, SpawnSignalLoop, AwaitOutputDone, Signal
    <2>5. CASE SignalStep \/ ShutdownPanics
        BY <2>5 DEF SignalStep, TakeSignal, ShutdownAwaited, WorkersAwaited, ShutdownPanics
    <2> QED BY <1>2, <2>1, <2>2, <2>3, <2>4, <2>5 DEF ControlStep
<1>3. CASE \/ \E m \in Message : Deliver(m)
           \/ \E w \in Worker : WorkerExits(w)
           \/ \E e \in Event : TakeEvent(e)
           \/ \E w \in Worker, e \in Event : OutputMessage(w, e)
    BY <1>3 DEF Deliver, WorkerExits, TakeEvent, OutputMessage
<1>4. CASE \E w \in Worker, m \in Message : TakeDelivery(w, m) \/ TakePoison(w, m)
    BY <1>4 DEF TakeDelivery, TakePoison
<1>5. CASE LoseConnection \/ CancelConsumer
    BY <1>5 DEF LoseConnection, CancelConsumer
<1>6. CASE Shutdown
    BY <1>6 DEF Shutdown
<1>7. CASE Subscribe \/ Serve
    <2>1. CASE Subscribe
        BY <2>1 DEF Subscribe
    <2>2. CASE Serve
        <3>1. conn = "open" \/ unheard'
            BY <2>2 DEF Serve
        <3> QED BY <2>2, <3>1 DEF Serve
    <2> QED BY <1>7, <2>1, <2>2
<1> QED BY StepCases, <1>1, <1>2, <1>3, <1>4, <1>5, <1>6, <1>7

LEMMA ControlInvariant == Spec => []ControlInv
<1>1. Init => TypeOK /\ ControlInv
    BY TypeInit DEF Init, ControlInv, ClosedForAReason, HealthNotStale
<1>2. TypeOK /\ ControlInv /\ [Next]_vars => (TypeOK /\ ControlInv)'
    BY TypeNext, ControlNext
<1> QED BY <1>1, <1>2, PTL DEF Spec

(* Over any number of losses, failed attempts and reconnections the health *)
(* check says "connected" only while the loop has a connection or its      *)
(* error still to read, unless the process is being stopped or the         *)
(* connection was lost before the loop listened for errors.                *)
THEOREM HealthReported == Spec => []HealthNotStale
<1>1. ControlInv => HealthNotStale
    BY DEF ControlInv
<1> QED BY <1>1, ControlInvariant, PTL
=============================================================================
