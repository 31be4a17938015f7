------------------------------ MODULE Forwarder ------------------------------
(***************************************************************************)
(* The process around an output: the AMQP loop, the input workers, the     *)
(* channel to the output goroutine, the signal goroutine and main          *)
(* (pkg/forwarder, pkg/rabbitmq/amqp.go, cmd/cb-event-forwarder/main.go).  *)
(*                                                                         *)
(* The output is seen from outside (pkg/outputs/output_handler.go and the  *)
(* Go methods of the outputs): a goroutine that takes events and signals,  *)
(* returns on SIGTERM or on an error of its own, runs its deferred         *)
(* clean-up and then broadcasts on a condition variable.                   *)
(*                                                                         *)
(* Abstractions: a message stands for the events it is converted to, and   *)
(* channels are sets, because several workers take from one channel and no *)
(* property is about order; a timeout may fire at any time. The counters   *)
(* of metrics are left out.                                                *)
(***************************************************************************)
EXTENDS Integers, Sequences, FiniteSets

CONSTANTS
    Message,            \* messages the broker delivers, each once
    Event,
    EventsOf,           \* EventsOf[m]: the events m is converted to, {} if it is rejected or filtered
    Poison,             \* protobuf messages with a malformed header
    Worker,             \* input workers: NumProcessors
    ChanSize,           \* OUTPUTCHANNELSIZE
    SignalSize,         \* capacity of main's signal channel
    AutomaticAcking,    \* rabbit_mq_automatic_acking
    PromptMain,         \* main waits for the output before the output can have stopped
    MaxSignals,         \* bound: signals sent to the process
    MaxLosses,          \* bound: lost connections
    MaxCancels          \* bound: consumers cancelled by the broker

ASSUME ForwarderMessages ==
    /\ EventsOf \in [Message -> SUBSET Event]
    /\ \A m, n \in Message : m # n => EventsOf[m] \cap EventsOf[n] = {}
    /\ Poison \subseteq {m \in Message : EventsOf[m] = {}}
ASSUME ForwarderSizes == ChanSize \in Nat \ {0} /\ SignalSize \in Nat /\ IsFiniteSet(Event) /\ Worker # {}
ASSUME ForwarderConfig == {AutomaticAcking, PromptMain} \subseteq BOOLEAN
ASSUME ForwarderBounds == {MaxSignals, MaxLosses, MaxCancels} \subseteq Nat

VARIABLES
    main,        \* main goroutine: "starting", "hooked", "spawned", "waiting", "exited"
    how,         \* how the process ended: "running", "clean", "panic", "killed"
    amqp,        \* AMQP loop: "connect", "dial", "channel", "notify", "serve", "wait", "sleep"
    consumer,    \* forwarder.consumer: "nil", "nochannel", "channel"
    conn,        \* "none", "open", "lost" (its error is not yet read), "closed"
    subscribed,  \* the deliveries channel: "open" or "closed"
    deliveries,  \* messages in it
    connected,   \* IsConnected: "yes" or "no"
    unheard,     \* the connection of this loop had ended before NotifyClose was called
    workers,     \* input workers that run: the wait group
    todo,        \* todo[w]: events worker w has yet to put on outputChan
    outputChan,
    output,      \* output goroutine: "select", "cleanup", "stopped"
    signals,     \* main's signal channel
    sig,         \* signal goroutine
    closer,      \* the goroutine that runs Shutdown: "idle", "running", "done"
    delivered,   \* messages the broker has handed over (and forgotten)
    dropped,     \* messages the client library dropped with a connection
    written,     \* events the output has taken
    sent, losses, cancels   \* what is spent of the bounds

amqpVars == <<amqp, consumer, conn, subscribed, connected, unheard>>
eventVars == <<deliveries, workers, todo, outputChan, delivered, dropped, written>>
stopVars == <<signals, sig, closer>>
bounds == <<sent, losses, cancels>>
vars == <<main, how, amqpVars, eventVars, output, stopVars, bounds>>

Running == main # "exited"

Init ==
    /\ main = "starting" /\ how = "running"
    /\ amqp = "connect" /\ consumer = "nil" /\ conn = "none" /\ subscribed = "closed"
    /\ connected = "no" /\ unheard = FALSE
    /\ deliveries = {} /\ workers = {} /\ todo = [w \in Worker |-> {}] /\ outputChan = {}
    /\ output = "select"
    /\ signals = <<>> /\ sig = "off" /\ closer = "idle"
    /\ delivered = {} /\ dropped = {} /\ written = {}
    /\ sent = 0 /\ losses = 0 /\ cancels = 0

\* The process ends: nothing it runs takes another step.
End(reason) == main' = "exited" /\ how' = reason

-----------------------------------------------------------------------------
(* The broker and the client library                                       *)

(* A message is handed over, and settled at once: Consume passes true for  *)
(* automatic acknowledgement whatever the configuration says.              *)
Deliver(m) ==
    /\ Running /\ subscribed = "open" /\ m \notin delivered
    /\ delivered' = delivered \cup {m} /\ deliveries' = deliveries \cup {m}
    /\ UNCHANGED <<main, how, amqpVars, workers, todo, outputChan, dropped, written,
                   output, stopVars, bounds>>

(* The deliveries channel ends; messages in it may be dropped with it.     *)
CloseDeliveries ==
    /\ subscribed' = "closed"
    /\ \E kept \in SUBSET deliveries :
          deliveries' = kept /\ dropped' = dropped \cup (deliveries \ kept)

LoseConnection ==
    /\ Running /\ conn = "open" /\ losses < MaxLosses /\ losses' = losses + 1
    /\ conn' = "lost" /\ CloseDeliveries
    /\ UNCHANGED <<main, how, amqp, consumer, connected, unheard, workers, todo, outputChan, delivered,
                   written, output, stopVars, sent, cancels>>

\* The broker ends the subscription (its queue is deleted) on an open connection.
CancelConsumer ==
    /\ Running /\ conn = "open" /\ subscribed = "open"
    /\ cancels < MaxCancels /\ cancels' = cancels + 1
    /\ CloseDeliveries
    /\ UNCHANGED <<main, how, amqp, consumer, conn, connected, unheard, workers, todo, outputChan,
                   delivered, written, output, stopVars, sent, losses>>

-----------------------------------------------------------------------------
(* The AMQP loop: MessageProcessingLoop, again and again                   *)

NewConsumer ==
    /\ Running /\ amqp = "connect"
    /\ amqp' = "dial" /\ consumer' = "nochannel"
    /\ UNCHANGED <<main, how, conn, subscribed, connected, unheard, eventVars, output, stopVars, bounds>>

(* Connect reaches the broker and opens a channel.                         *)
OpenChannel ==
    /\ Running /\ amqp = "dial"
    /\ amqp' = "channel" /\ consumer' = "channel" /\ conn' = "open"
    /\ UNCHANGED <<main, how, subscribed, connected, unheard, eventVars, output, stopVars, bounds>>

(* Connect declares its queue, binds it and consumes from it.              *)
Subscribe ==
    /\ Running /\ amqp = "channel" /\ conn = "open"
    /\ amqp' = "notify" /\ subscribed' = "open" /\ deliveries' = {}
    /\ UNCHANGED <<main, how, consumer, conn, connected, unheard, workers, todo, outputChan,
                   delivered, dropped, written, output, stopVars, bounds>>

\* Mutant: a failed connect ends the loop.
ConnectFailsForGood ==
    /\ Running /\ amqp \in {"dial", "channel"}
    /\ conn' = IF amqp = "dial" THEN conn ELSE "none"
    /\ amqp' = "ended"
    /\ UNCHANGED <<main, how, consumer, subscribed, connected, unheard, eventVars, output, stopVars, bounds>>

(* Connect fails: at the dial or its first channel, or at a later call,    *)
(* when the connection is left to itself. IsConnected is left as it is.    *)
ConnectFails ==
    /\ Running /\ amqp \in {"dial", "channel"}
    /\ conn' = IF amqp = "dial" THEN conn ELSE "none"
    /\ amqp' = "sleep"
    /\ UNCHANGED <<main, how, consumer, subscribed, connected, unheard, eventVars, output, stopVars, bounds>>

(* Connect ends with NotifyClose, IsConnected is set and the workers are   *)
(* started. If the connection has gone since it was opened, NotifyClose    *)
(* closes ConnectionErrors at once, and no error will come.                *)
Serve ==
    /\ Running /\ amqp = "notify"
    /\ amqp' = "serve" /\ connected' = "yes" /\ workers' = Worker
    /\ unheard' = (conn # "open")
    /\ conn' = IF conn = "lost" THEN "closed" ELSE conn
    /\ UNCHANGED <<main, how, consumer, subscribed, deliveries, todo, outputChan, delivered,
                   dropped, written, output, stopVars, bounds>>

\* Mutant: the error is only logged.
ReadErrorLogs ==
    /\ Running /\ amqp = "serve" /\ conn = "lost"
    /\ conn' = "closed"
    /\ UNCHANGED <<main, how, amqp, consumer, subscribed, connected, unheard, eventVars, output, stopVars, bounds>>

(* An error arrives on ConnectionErrors ...                                *)
ReadError ==
    /\ Running /\ amqp = "serve" /\ conn = "lost"
    /\ conn' = "closed" /\ connected' = "no"
    /\ UNCHANGED <<main, how, amqp, consumer, subscribed, unheard, eventVars, output, stopVars, bounds>>

(* ... the channel is closed ...                                           *)
LeaveServe ==
    /\ Running /\ amqp = "serve" /\ conn = "closed"
    /\ amqp' = "wait"
    /\ UNCHANGED <<main, how, consumer, conn, subscribed, connected, unheard, eventVars, output, stopVars, bounds>>

(* ... and all workers have exited.                                        *)
WorkersExited ==
    /\ Running /\ amqp = "wait" /\ workers = {}
    /\ amqp' = "sleep"
    /\ UNCHANGED <<main, how, consumer, conn, subscribed, connected, unheard, eventVars, output, stopVars, bounds>>

Retry ==
    /\ Running /\ amqp = "sleep"
    /\ amqp' = "connect"
    /\ UNCHANGED <<main, how, consumer, conn, subscribed, connected, unheard, eventVars, output, stopVars, bounds>>

-----------------------------------------------------------------------------
(* The input workers                                                       *)

(* consume takes a delivery and processMessage converts it; a rejected     *)
(* message gives no events.                                                *)
TakeDelivery(w, m) ==
    /\ Running /\ w \in workers /\ todo[w] = {} /\ m \in deliveries \ Poison
    /\ deliveries' = deliveries \ {m}
    /\ todo' = [todo EXCEPT ![w] = EventsOf[m]]
    /\ UNCHANGED <<main, how, amqpVars, workers, outputChan, delivered, dropped, written,
                   output, stopVars, bounds>>

(* reportBundleDetails of a message whose header is malformed uses the nil *)
(* environment CreateEnvMessage returned with its error.                   *)
TakePoison(w, m) ==
    /\ Running /\ w \in workers /\ todo[w] = {} /\ m \in deliveries \cap Poison
    /\ deliveries' = deliveries \ {m}
    /\ End("panic")
    /\ UNCHANGED <<amqpVars, workers, todo, outputChan, delivered, dropped, written,
                   output, stopVars, bounds>>

\* Mutant: a full channel makes the worker drop the event.
OutputMessageDrops(w, e) ==
    /\ Running /\ e \in todo[w]
    /\ outputChan' = IF Cardinality(outputChan) < ChanSize THEN outputChan \cup {e} ELSE outputChan
    /\ todo' = [todo EXCEPT ![w] = @ \ {e}]
    /\ UNCHANGED <<main, how, amqpVars, deliveries, workers, delivered, dropped, written,
                   output, stopVars, bounds>>

\* Mutant: the event is sent again.
OutputMessageRepeats(w, e) ==
    /\ Running /\ e \in todo[w] /\ Cardinality(outputChan) < ChanSize
    /\ outputChan' = outputChan \cup {e}
    /\ UNCHANGED <<main, how, amqpVars, deliveries, workers, todo, delivered, dropped, written,
                   output, stopVars, bounds>>

OutputMessage(w, e) ==
    /\ Running /\ e \in todo[w] /\ Cardinality(outputChan) < ChanSize
    /\ outputChan' = outputChan \cup {e}
    /\ todo' = [todo EXCEPT ![w] = @ \ {e}]
    /\ UNCHANGED <<main, how, amqpVars, deliveries, workers, delivered, dropped, written,
                   output, stopVars, bounds>>

\* Mutant: a worker leaves when the connection goes, not when the channel is drained.
WorkerExitsAtOnce(w) ==
    /\ Running /\ w \in workers /\ subscribed = "closed"
    /\ workers' = workers \ {w}
    /\ UNCHANGED <<main, how, amqpVars, deliveries, todo, outputChan, delivered, dropped, written,
                   output, stopVars, bounds>>

WorkerExits(w) ==
    /\ Running /\ w \in workers /\ todo[w] = {} /\ deliveries = {} /\ subscribed = "closed"
    /\ workers' = workers \ {w}
    /\ UNCHANGED <<main, how, amqpVars, deliveries, todo, outputChan, delivered, dropped, written,
                   output, stopVars, bounds>>

-----------------------------------------------------------------------------
(* The output goroutine                                                    *)

TakeEvent(e) ==
    /\ Running /\ output = "select" /\ e \in outputChan
    /\ outputChan' = outputChan \ {e} /\ written' = written \cup {e}
    /\ UNCHANGED <<main, how, amqpVars, deliveries, workers, todo, delivered, dropped,
                   output, stopVars, bounds>>

\* The output returns with an error (of the file system, for instance).
OutputFails ==
    /\ Running /\ output = "select"
    /\ output' = "cleanup"
    /\ UNCHANGED <<main, how, amqpVars, eventVars, stopVars, bounds>>

(* SIGHUP is handled and the loop goes on.                                 *)
TakeHup ==
    /\ Running /\ output = "select" /\ sig = "hup"
    /\ sig' = "select"
    /\ UNCHANGED <<main, how, amqpVars, eventVars, output, signals, closer, bounds>>

\* Broadcast wakes main if it is waiting; otherwise it has no effect.
Broadcast == IF main = "waiting" THEN End("clean") ELSE UNCHANGED <<main, how>>

TakeTerm ==
    /\ Running /\ output = "select" /\ sig = "send"
    /\ sig' = "await" /\ output' = "cleanup"
    /\ UNCHANGED <<main, how, amqpVars, eventVars, signals, closer, bounds>>

(* The deferred calls: flush and close, then SignalExitCond. Nothing in    *)
(* the code makes them wait for main (PromptMain = FALSE).                 *)
OutputStops ==
    /\ Running /\ output = "cleanup"
    /\ PromptMain => main = "waiting"
    /\ output' = "stopped" /\ Broadcast
    /\ UNCHANGED <<amqpVars, eventVars, stopVars, bounds>>

-----------------------------------------------------------------------------
(* main and the signal goroutine                                           *)

HookSignals ==
    /\ main = "starting" /\ main' = "hooked"
    /\ UNCHANGED <<how, amqpVars, eventVars, output, stopVars, bounds>>

(* RunUntilExit starts the signal goroutine, then awaitOutputDone.         *)
SpawnSignalLoop ==
    /\ main = "hooked" /\ main' = "spawned" /\ sig' = "select"
    /\ UNCHANGED <<how, amqpVars, eventVars, output, signals, closer, bounds>>

AwaitOutputDone ==
    /\ main = "spawned" /\ main' = "waiting"
    /\ UNCHANGED <<how, amqpVars, eventVars, output, stopVars, bounds>>

\* Mutant: the size of the channel is compared wrongly.
SignalOverfull(s) ==
    /\ Running /\ sent < MaxSignals /\ sent' = sent + 1
    /\ IF main = "starting" THEN End("killed") /\ UNCHANGED signals
       ELSE /\ signals' = IF Len(signals) <= SignalSize THEN Append(signals, s) ELSE signals
            /\ UNCHANGED <<main, how>>
    /\ UNCHANGED <<amqpVars, eventVars, output, sig, closer, losses, cancels>>

(* A signal is sent to the process. Before signal.Notify it has its        *)
(* default effect; later it is dropped if the channel is full.             *)
Signal(s) ==
    /\ Running /\ sent < MaxSignals /\ sent' = sent + 1
    /\ IF main = "starting" THEN End("killed") /\ UNCHANGED signals
       ELSE /\ signals' = IF Len(signals) < SignalSize THEN Append(signals, s) ELSE signals
            /\ UNCHANGED <<main, how>>
    /\ UNCHANGED <<amqpVars, eventVars, output, sig, closer, losses, cancels>>

(* The signal goroutine takes a signal: handleExit for SIGTERM (SIGINT is  *)
(* the same), anything else goes to the output.                            *)
TakeSignal ==
    /\ Running /\ sig = "select" /\ signals # <<>>
    /\ signals' = Tail(signals)
    /\ IF Head(signals) = "TERM" THEN sig' = "shutdown" /\ closer' = "running"
                                 ELSE sig' = "hup" /\ UNCHANGED closer
    /\ UNCHANGED <<main, how, amqpVars, eventVars, output, bounds>>

(* consumer.Shutdown, in a goroutine of its own. Without a consumer, or    *)
(* without its channel, it is a nil dereference.                           *)
ShutdownPanics ==
    /\ Running /\ closer = "running" /\ consumer # "channel"
    /\ End("panic")
    /\ UNCHANGED <<amqpVars, eventVars, output, stopVars, bounds>>

Shutdown ==
    /\ Running /\ closer = "running" /\ consumer = "channel"
    /\ closer' = "done"
    /\ IF conn = "open" THEN conn' = "closed" /\ CloseDeliveries
                        ELSE UNCHANGED <<conn, subscribed, deliveries, dropped>>
    /\ UNCHANGED <<main, how, amqp, consumer, connected, unheard, workers, todo, outputChan, delivered,
                   written, output, signals, sig, bounds>>

(* withTimeout(closeConsumer, 5s), withTimeout(workerWaitGroup.Wait, ...): *)
(* each ends when the call returns or when its time is up.                 *)
ShutdownAwaited ==
    /\ Running /\ sig = "shutdown" /\ sig' = "workers"
    /\ UNCHANGED <<main, how, amqpVars, eventVars, output, signals, closer, bounds>>

\* Mutant: the wait for the workers has no timeout.
WorkersAwaitedForEver ==
    /\ Running /\ sig = "workers" /\ workers = {} /\ sig' = "send"
    /\ UNCHANGED <<main, how, amqpVars, eventVars, output, signals, closer, bounds>>

WorkersAwaited ==
    /\ Running /\ sig = "workers" /\ sig' = "send"
    /\ UNCHANGED <<main, how, amqpVars, eventVars, output, signals, closer, bounds>>

-----------------------------------------------------------------------------
AmqpStep ==
    \/ NewConsumer \/ OpenChannel \/ Subscribe \/ ConnectFails \/ Serve
    \/ ReadError \/ LeaveServe \/ WorkersExited \/ Retry
WorkerStep(w) ==
    \/ \E m \in Message : TakeDelivery(w, m) \/ TakePoison(w, m)
    \/ \E e \in Event : OutputMessage(w, e)
    \/ WorkerExits(w)
MainStep == HookSignals \/ SpawnSignalLoop \/ AwaitOutputDone
SignalStep == TakeSignal \/ ShutdownAwaited \/ WorkersAwaited
CloserStep == Shutdown \/ ShutdownPanics
TakeAnyEvent == \E e \in Event : TakeEvent(e)

\* The process has ended; nothing is left to happen.
Ended == main = "exited" /\ UNCHANGED vars

Next ==
    \/ \E m \in Message : Deliver(m)
    \/ LoseConnection \/ CancelConsumer
    \/ AmqpStep
    \/ \E w \in Worker : WorkerStep(w)
    \/ TakeAnyEvent \/ OutputFails \/ TakeHup \/ TakeTerm \/ OutputStops
    \/ MainStep
    \/ \E s \in {"HUP", "TERM"} : Signal(s)
    \/ SignalStep \/ CloserStep
    \/ Ended

Spec == Init /\ [][Next]_vars

(* Goroutines are scheduled fairly, a ready case of the output's select is *)
(* taken in the end, and a broker that is tried again and again answers.   *)
Fairness ==
    /\ WF_vars(MainStep) /\ WF_vars(AmqpStep) /\ SF_vars(OpenChannel) /\ SF_vars(Subscribe)
    /\ WF_vars(SignalStep) /\ WF_vars(CloserStep)
    /\ \A w \in Worker : WF_vars(WorkerStep(w))
    /\ SF_vars(TakeAnyEvent) /\ SF_vars(TakeHup) /\ SF_vars(TakeTerm) /\ WF_vars(OutputStops)

FairSpec == Spec /\ Fairness

-----------------------------------------------------------------------------
(* Properties                                                              *)

(* The type invariant.                                                     *)
TypeOK ==
    /\ main \in {"starting", "hooked", "spawned", "waiting", "exited"}
    /\ how \in {"running", "clean", "panic", "killed"}
    /\ amqp \in {"connect", "dial", "channel", "notify", "serve", "wait", "sleep"}
    /\ consumer \in {"nil", "nochannel", "channel"}
    /\ conn \in {"none", "open", "lost", "closed"}
    /\ subscribed \in {"open", "closed"} /\ connected \in {"yes", "no"}
    /\ unheard \in BOOLEAN
    /\ deliveries \subseteq Message /\ delivered \subseteq Message /\ dropped \subseteq Message
    /\ workers \subseteq Worker /\ todo \in [Worker -> SUBSET Event]
    /\ outputChan \subseteq Event /\ written \subseteq Event
    /\ output \in {"select", "cleanup", "stopped"}
    /\ signals \in Seq({"HUP", "TERM"}) /\ Len(signals) <= SignalSize
    /\ sig \in {"off", "select", "hup", "shutdown", "workers", "send", "await"}
    /\ closer \in {"idle", "running", "done"}
    /\ sent \in Nat /\ losses \in Nat /\ cancels \in Nat

Todo == UNION {todo[w] : w \in Worker}
InPipeline == Todo \cup outputChan \cup written

(* Every event of a message the broker handed over is accounted for, also  *)
(* at the end of the process: the message waits for a worker, or each of   *)
(* its events is with a worker, on outputChan (which never holds more than *)
(* its size) or with the output, or the library dropped the message with   *)
(* its connection. Reconnecting, a full outputChan and a stop in progress  *)
(* lose nothing; what SIGTERM leaves undrained is in these places.         *)
NothingLostInPipeline ==
    /\ \A m \in delivered \ (deliveries \cup dropped) : EventsOf[m] \subseteq InPipeline
    /\ Cardinality(outputChan) <= ChanSize

(* No event is handed to the output twice, or held twice: not by two       *)
(* workers, and not by a worker of an earlier connection.                  *)
NothingTwice ==
    /\ \A v, w \in Worker : v # w => todo[v] \cap todo[w] = {}
    /\ Todo \cap outputChan = {} /\ Todo \cap written = {} /\ outputChan \cap written = {}
    /\ \A m \in deliveries : EventsOf[m] \cap InPipeline = {}

(* What /debug/healthcheck reports: "connected" only while the loop has a  *)
(* connection, or the error of one still to read, unless the stop of the   *)
(* process closed it, or it was lost before the loop listened for errors:  *)
(* no other order of losses, failed attempts and reconnections leaves the  *)
(* flag behind.                                                            *)
HealthNotStale ==
    connected = "yes" /\ closer = "idle" =>
        unheard \/ (amqp = "serve" /\ conn \in {"open", "lost"})

(* SIGTERM, once it is on the signal channel, ends the process.            *)
StopEnds == (\E i \in 1..Len(signals) : signals[i] = "TERM") ~> main = "exited"

(* A lost connection is replaced by a new one.                             *)
Reconnects == conn = "lost" ~> (subscribed = "open" \/ main = "exited")

(* Every event handed over reaches the output, unless the process ends or  *)
(* the message is dropped with a connection.                               *)
EventsReachOutput ==
    \A m \in Message : m \in delivered ~>
        (EventsOf[m] \subseteq written \/ m \in dropped \/ main = "exited")

(* A stop is graceful: it does not end in a panic, but with the output's   *)
(* clean-up.                                                               *)
StopIsGraceful == closer # "idle" => how # "panic"

(* The health check says "connected" only while there is a connection.     *)
HealthTruthful == amqp # "serve" /\ closer = "idle" => connected = "no"

(* With manual acknowledgement the broker forgets a message only when its  *)
(* events are with the output.                                             *)
SettledWhenReceived ==
    ~AutomaticAcking => \A m \in delivered : EventsOf[m] \subseteq written

-----------------------------------------------------------------------------
(* The inductive invariant behind the safety properties (ForwarderProofs)  *)

(* A worker leaves only when there is nothing left for it, so between two  *)
(* connections the workers hold nothing; a new subscription waits for its  *)
(* workers.                                                                *)
WorkersLeaveNothing ==
    /\ \A w \in Worker \ workers : todo[w] = {}
    /\ workers # Worker /\ amqp # "notify" => deliveries = {} /\ subscribed = "closed"
    /\ amqp \in {"connect", "dial", "channel", "notify", "sleep"} => workers = {}

(* Only what the broker handed over is in the pipeline.                    *)
NothingInvented ==
    /\ deliveries \subseteq delivered /\ dropped \subseteq delivered \ deliveries
    /\ \A m \in Message \ delivered : EventsOf[m] \cap InPipeline = {}

(* A connection is closed without an error only by Shutdown, or before the *)
(* loop listened.                                                          *)
ClosedForAReason ==
    /\ conn = "closed" /\ closer = "idle" => connected = "no" \/ unheard
    /\ amqp = "wait" => conn = "closed"
    /\ amqp \in {"notify", "serve"} => conn \in {"open", "lost", "closed"}

IInv ==
    /\ TypeOK /\ WorkersLeaveNothing /\ NothingInvented /\ ClosedForAReason
    /\ NothingLostInPipeline /\ NothingTwice /\ HealthNotStale
=============================================================================
