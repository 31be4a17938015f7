----------------------------- MODULE DirectOutput -----------------------------
(***************************************************************************)
(* The outputs that keep nothing on disk: net over TCP or UDP              *)
(* (net_output.go), syslog (syslog_output.go) and Kafka (kafka_output.go). *)
(* Each is one goroutine that takes events, ticks and signals. Net and     *)
(* syslog are two copies of one program with small differences, and write  *)
(* to a connection that they replace when a write has failed. Kafka hands  *)
(* events to the producer of a library, which answers each one later on    *)
(* one of two channels.                                                    *)
(*                                                                         *)
(* Abstractions: what became of an event is its fate. The peer goes away   *)
(* and returns; what is written to a TCP connection whose peer has gone    *)
(* may fail, or vanish in the kernel's buffers; a peer that stalls keeps   *)
(* its connections and reads nothing. Logging, the statistics page and the *)
(* conversion to a topic's name are left out.                              *)
(***************************************************************************)
EXTENDS Integers, FiniteSets

CONSTANTS
    Event,
    Untyped,     \* events without a "type" that is a string
    Oversized,   \* events longer than a datagram
    Room,        \* events the Kafka producer has in work before it blocks
    MaxOutages   \* bound: how often the peer goes away or stalls

ASSUME DirectEvents == IsFiniteSet(Event) /\ Untyped \subseteq Event /\ Oversized \subseteq Event
ASSUME DirectSizes == Room \in Nat \ {0} /\ MaxOutages \in Nat

VARIABLES
    kind,        \* the output's type: "tcp" and "udp" (net), "syslog" and "syslog udp", "kafka"
    topic,       \* Kafka: "fixed", or "by type" when kafka_topic is empty
    configured,  \* the address of the configuration
    loop,        \* the goroutine: see Loop
    peer,        \* the remote service: "up", "stalled" or "down"
    socket,      \* outputSocket: "nil", "open", "broken" (its peer has gone), "closed"
    connected,
    early,       \* reconnectTime lies ahead
    address,     \* netConn, or protocol:hostnamePort
    droppedEventCount, eventSentCount,
    closeErrors, \* Kafka: errors Close has collected
    fate,        \* fate[e]: see Fate
    connects,    \* connections made
    term,        \* SIGTERM: "none", "sent", "taken"
    outages      \* what is spent of MaxOutages

connection == <<peer, socket, connected, early, address, connects>>
counters == <<droppedEventCount, eventSentCount, closeErrors>>
setting == <<kind, topic, configured>>
vars == <<setting, loop, connection, counters, fate, term, outages>>

Stream == kind # "kafka"
Syslog == kind \in {"syslog", "syslog udp"}
Datagram == kind \in {"udp", "syslog udp"}

Loop == { "initialize", "dial",      \* Initialize: before the dial, and in it
          "select", "busy",          \* in the loop; in Write, or in a send to the producer
          "redial",                  \* Initialize again, on a tick
          "cleanup", "stopped",      \* the deferred calls; after the broadcast
          "exited", "panicked" }     \* the process has ended with an error

(* Addresses: none yet, and those of the configuration, with syslog's port. *)
Address == {"unset", "host", "host:port", "host:514"}

Fate == { "queued", "held", "written",
          "vanished",   \* written to a connection whose peer had gone
          "failed",     \* its Write returned an error
          "dropped",    \* there was no connection
          "skipped",    \* Kafka found no topic for it
          "producing", "acked", "refused" }

With(f) == {e \in Event : fate[e] \in f}

(* What the events of a connection meet: a datagram arrives when the peer  *)
(* is there, whenever it was dialled.                                      *)
Reaches == IF Datagram THEN peer = "up" ELSE socket = "open"

Init ==
    /\ kind \in {"tcp", "udp", "syslog", "syslog udp", "kafka"}
    /\ topic \in IF kind = "kafka" THEN {"fixed", "by type"} ELSE {"fixed"}
    /\ configured \in IF Syslog THEN {"host", "host:port"} ELSE {"host:port"}
    /\ loop = "initialize"
    /\ peer \in {"up", "down"} /\ socket = "nil" /\ connected = FALSE /\ early = FALSE
    /\ address = "unset" /\ connects = 0
    /\ droppedEventCount = 0 /\ eventSentCount = 0 /\ closeErrors = FALSE
    /\ fate = [e \in Event |-> "queued"]
    /\ term = "none" /\ outages = 0

-----------------------------------------------------------------------------
(* The remote service, and the signal goroutine of the process             *)

PeerGoes ==
    /\ peer # "down" /\ outages < MaxOutages /\ outages' = outages + 1
    /\ peer' = "down"
    /\ socket' = IF socket = "open" THEN "broken" ELSE socket
    /\ UNCHANGED <<setting, loop, connected, early, address, connects, counters, fate, term>>

PeerReturns ==
    /\ peer = "down" /\ peer' = "up"
    /\ UNCHANGED <<setting, loop, socket, connected, early, address, connects, counters, fate, term, outages>>

(* The peer of a stream keeps the connection and stops reading; it may go  *)
(* on at any time, or never.                                               *)
PeerStalls ==
    /\ peer = "up" /\ Stream /\ ~Datagram /\ outages < MaxOutages /\ outages' = outages + 1
    /\ peer' = "stalled"
    /\ UNCHANGED <<setting, loop, socket, connected, early, address, connects, counters, fate, term>>

PeerResumes ==
    /\ peer = "stalled" /\ peer' = "up"
    /\ UNCHANGED <<setting, loop, socket, connected, early, address, connects, counters, fate, term, outages>>

SendTerm ==
    /\ term = "none" /\ term' = "sent"
    /\ UNCHANGED <<setting, loop, connection, counters, fate, outages>>

-----------------------------------------------------------------------------
(* Initialize of net and syslog                                            *)

(* The address syslog dials; String gives it back to the next Initialize.  *)
WithPort(a) == IF Syslog /\ a = "host" THEN "host:514" ELSE a

(* Initialize up to the dial. Both close a connection that is there; net   *)
(* leaves connected as it is.                                              *)
BeginDial(a) ==
    /\ socket' = IF connected THEN "closed" ELSE socket
    /\ connected' = IF Syslog THEN FALSE ELSE connected
    /\ address' = WithPort(a)
    /\ UNCHANGED <<setting, peer, early, connects, counters, fate, term, outages>>

(* The parameters of the configuration, when the process starts.           *)
Initialize == loop = "initialize" /\ Stream /\ loop' = "dial" /\ BeginDial(configured)

\* Mutant: the tick does not ask whether there is a connection.
ReinitializeAnyway == loop = "select" /\ Stream /\ ~early /\ loop' = "redial" /\ BeginDial(address)

\* Mutant: a socket that is nil is not opened again.
ReinitializeOpened ==
    /\ loop = "select" /\ Stream /\ ~connected /\ ~early /\ socket # "nil"
    /\ loop' = "redial" /\ BeginDial(address)

(* The address of the last time, on a tick, five seconds after the loss.   *)
Reinitialize ==
    /\ loop = "select" /\ Stream /\ ~connected /\ ~early
    /\ loop' = "redial" /\ BeginDial(address)

ReconnectTimePasses ==
    /\ early /\ early' = FALSE
    /\ UNCHANGED <<setting, loop, peer, socket, connected, address, connects, counters, fate, term, outages>>

(* markConnected. A datagram socket needs no peer, and the kernel of one   *)
(* that stalls accepts connections.                                        *)
DialOk ==
    /\ loop \in {"dial", "redial"} /\ (Datagram \/ peer # "down")
    /\ socket' = "open" /\ connected' = TRUE /\ connects' = connects + 1
    /\ loop' = "select"
    /\ UNCHANGED <<setting, peer, early, address, counters, fate, term, outages>>

(* closeAndScheduleReconnection: Close of a socket that is nil panics.     *)
CloseAndScheduleReconnection(s, next) ==
    /\ loop' = IF connected /\ s = "nil" THEN "panicked" ELSE next
    /\ socket' = IF connected THEN "closed" ELSE s
    /\ connected' = FALSE /\ early' = TRUE
    /\ UNCHANGED <<peer, address, connects>>

(* A dial that fails when the process starts ends it.                      *)
FirstDialFails ==
    /\ loop = "dial" /\ socket' = "nil"
    /\ loop' = "exited"
    /\ UNCHANGED <<setting, peer, connected, early, address, connects, counters, fate, term, outages>>

RedialFails ==
    /\ loop = "redial"
    /\ CloseAndScheduleReconnection("nil", "select")
    /\ UNCHANGED <<setting, counters, fate, term, outages>>

-----------------------------------------------------------------------------
(* The loop of net and syslog                                              *)

(* An event that finds no connection is dropped, and counted.              *)
DropMessage(e) ==
    /\ loop = "select" /\ Stream /\ ~connected /\ fate[e] = "queued"
    /\ fate' = [fate EXCEPT ![e] = "dropped"] /\ droppedEventCount' = droppedEventCount + 1
    /\ UNCHANGED <<setting, loop, connection, eventSentCount, closeErrors, term, outages>>

BeginWrite(e) ==
    /\ loop = "select" /\ Stream /\ connected /\ fate[e] = "queued"
    /\ fate' = [fate EXCEPT ![e] = "held"] /\ loop' = "busy"
    /\ UNCHANGED <<setting, connection, counters, term, outages>>

(* Write returns without an error, which need not mean that it arrives.    *)
WriteOk(e) ==
    /\ loop = "busy" /\ Stream /\ fate[e] = "held" /\ ~(Datagram /\ e \in Oversized)
    /\ fate' = [fate EXCEPT ![e] = IF Reaches THEN "written" ELSE "vanished"]
    /\ loop' = "select"
    /\ UNCHANGED <<setting, connection, counters, term, outages>>

(* The syslog library opens the connection again by itself and repeats; a  *)
(* datagram it repeats is one that WriteOk sends.                          *)
LibraryReconnects(e) ==
    /\ loop = "busy" /\ kind = "syslog" /\ fate[e] = "held" /\ socket = "broken" /\ peer # "down"
    /\ socket' = "open"
    /\ fate' = [fate EXCEPT ![e] = "written"] /\ loop' = "select"
    /\ UNCHANGED <<setting, peer, connected, early, address, connects, counters, term, outages>>

\* Mutant: the connection is kept when a write has failed.
WriteFailsKeeps(e) ==
    /\ loop = "busy" /\ Stream /\ fate[e] = "held"
    /\ ~Reaches \/ (Datagram /\ e \in Oversized)
    /\ fate' = [fate EXCEPT ![e] = "failed"] /\ loop' = "select"
    /\ UNCHANGED <<setting, connection, counters, term, outages>>

(* The event of a failed write is counted by syslog, not by net.           *)
WriteFails(e) ==
    /\ loop = "busy" /\ Stream /\ fate[e] = "held"
    /\ ~Reaches \/ (Datagram /\ e \in Oversized)
    /\ CloseAndScheduleReconnection(socket, "select")
    /\ fate' = [fate EXCEPT ![e] = "failed"]
    /\ droppedEventCount' = droppedEventCount + IF Syslog THEN 1 ELSE 0
    /\ UNCHANGED <<setting, eventSentCount, closeErrors, term, outages>>

-----------------------------------------------------------------------------
(* Kafka                                                                   *)

(* NewAsyncProducer asks a broker for its metadata.                        *)
InitializeProducer ==
    /\ loop = "initialize" /\ kind = "kafka"
    /\ loop' = IF peer = "up" THEN "select" ELSE "exited"
    /\ UNCHANGED <<setting, connection, counters, fate, term, outages>>

(* The loop waits until the producer takes the event.                      *)
BeginSend(e) ==
    /\ loop = "select" /\ kind = "kafka" /\ fate[e] = "queued"
    /\ topic = "fixed" \/ e \notin Untyped
    /\ fate' = [fate EXCEPT ![e] = "held"] /\ loop' = "busy"
    /\ UNCHANGED <<setting, connection, counters, term, outages>>

SkipMessage(e) ==
    /\ loop = "select" /\ kind = "kafka" /\ fate[e] = "queued"
    /\ topic = "by type" /\ e \in Untyped
    /\ fate' = [fate EXCEPT ![e] = "skipped"]
    /\ UNCHANGED <<setting, loop, connection, counters, term, outages>>

ProducerTakes(e) ==
    /\ loop = "busy" /\ kind = "kafka" /\ fate[e] = "held"
    /\ Cardinality(With({"producing"})) < Room
    /\ fate' = [fate EXCEPT ![e] = "producing"] /\ loop' = "select"
    /\ UNCHANGED <<setting, connection, counters, term, outages>>

(* The goroutines that read Successes and Errors ...                       *)
CountSuccess(e) ==
    /\ fate[e] = "producing" /\ peer = "up"
    /\ fate' = [fate EXCEPT ![e] = "acked"] /\ eventSentCount' = eventSentCount + 1
    /\ UNCHANGED <<setting, loop, connection, droppedEventCount, closeErrors, term, outages>>

CountError(e) ==
    /\ fate[e] = "producing"
    /\ fate' = [fate EXCEPT ![e] = "refused"] /\ droppedEventCount' = droppedEventCount + 1
    /\ UNCHANGED <<setting, loop, connection, eventSentCount, closeErrors, term, outages>>

(* ... compete with Close, which reads both channels as well.              *)
CloseTakesSuccess(e) ==
    /\ loop = "cleanup" /\ fate[e] = "producing" /\ peer = "up"
    /\ fate' = [fate EXCEPT ![e] = "acked"]
    /\ UNCHANGED <<setting, loop, connection, counters, term, outages>>

CloseTakesError(e) ==
    /\ loop = "cleanup" /\ fate[e] = "producing"
    /\ fate' = [fate EXCEPT ![e] = "refused"] /\ closeErrors' = TRUE
    /\ UNCHANGED <<setting, loop, connection, droppedEventCount, eventSentCount, term, outages>>

-----------------------------------------------------------------------------
(* The end                                                                 *)

\* Mutant: SIGTERM is taken and ignored as the other signals are.
TakeTermIgnores ==
    /\ loop = "select" /\ term = "sent" /\ term' = "taken"
    /\ UNCHANGED <<setting, loop, connection, counters, fate, outages>>

TakeTerm ==
    /\ loop = "select" /\ term = "sent"
    /\ term' = "taken" /\ loop' = "cleanup"
    /\ UNCHANGED <<setting, connection, counters, fate, outages>>

\* Mutant: the producer is told to close, and nobody waits for it.
StopAsync ==
    /\ loop = "cleanup"
    /\ loop' = "stopped"
    /\ UNCHANGED <<setting, connection, counters, fate, term, outages>>

(* The deferred calls. Kafka's Close returns when every event is answered; *)
(* if it has collected errors, log.Fatalln ends the process, and there is  *)
(* no broadcast.                                                           *)
Stop ==
    /\ loop = "cleanup" /\ With({"producing"}) = {}
    /\ loop' = IF closeErrors THEN "exited" ELSE "stopped"
    /\ UNCHANGED <<setting, connection, counters, fate, term, outages>>

(* A tick with nothing to do, or a signal that is ignored.                 *)
Idle == loop = "select" /\ UNCHANGED vars

Ended == loop \in {"stopped", "exited", "panicked"}

Next ==
    \/ /\ ~Ended
       /\ \/ PeerGoes \/ PeerReturns \/ PeerStalls \/ PeerResumes \/ SendTerm
          \/ Initialize \/ Reinitialize \/ ReconnectTimePasses
          \/ DialOk \/ FirstDialFails \/ RedialFails
          \/ InitializeProducer \/ TakeTerm \/ Stop \/ Idle
          \/ \E e \in Event :
                \/ DropMessage(e) \/ BeginWrite(e) \/ WriteOk(e) \/ WriteFails(e)
                \/ LibraryReconnects(e)
                \/ BeginSend(e) \/ SkipMessage(e) \/ ProducerTakes(e)
                \/ CountSuccess(e) \/ CountError(e) \/ CloseTakesSuccess(e) \/ CloseTakesError(e)
    \/ Ended /\ UNCHANGED vars

Spec == Init /\ [][Next]_vars

(* A write to a peer that has stalled: net.Conn's Write has no deadline.   *)
Blocked == Stream /\ ~Datagram /\ loop = "busy" /\ peer = "stalled" /\ socket = "open"

(* Fairness. The goroutine goes on, and its select takes what is ready     *)
(* again and again; Dial returns in the end, and so does a Write unless    *)
(* its peer has stalled, of which nothing is assumed; the producer answers *)
(* every event; a peer that is away returns, and a dial repeated for ever  *)
(* succeeds in the end.                                                    *)
FairSpec ==
    /\ Spec
    /\ WF_vars(Initialize \/ InitializeProducer \/ ReconnectTimePasses)
    /\ WF_vars(DialOk \/ FirstDialFails \/ RedialFails) /\ SF_vars(DialOk)
    /\ SF_vars(Reinitialize) /\ SF_vars(TakeTerm) /\ WF_vars(Stop)
    /\ SF_vars(\E e \in Event : DropMessage(e) \/ BeginWrite(e) \/ BeginSend(e) \/ SkipMessage(e))
    /\ WF_vars(~Blocked /\ \E e \in Event : WriteOk(e) \/ WriteFails(e))
    /\ WF_vars(\E e \in Event : ProducerTakes(e))
    /\ WF_vars(\E e \in Event : CountSuccess(e) \/ CountError(e))
    /\ WF_vars(PeerReturns)

-----------------------------------------------------------------------------
(* Properties                                                              *)

(* Types; only while the goroutine is busy does it hold an event, and then *)
(* exactly one.                                                            *)
TypeOK ==
    /\ kind \in {"tcp", "udp", "syslog", "syslog udp", "kafka"} /\ topic \in {"fixed", "by type"}
    /\ configured \in {"host", "host:port"}
    /\ loop \in Loop /\ fate \in [Event -> Fate]
    /\ peer \in {"up", "stalled", "down"} /\ socket \in {"nil", "open", "broken", "closed"}
    /\ connected \in BOOLEAN /\ early \in BOOLEAN /\ closeErrors \in BOOLEAN
    /\ address \in Address
    /\ droppedEventCount \in Nat /\ eventSentCount \in Nat /\ connects \in Nat /\ outages \in Nat
    /\ term \in {"none", "sent", "taken"}
    /\ \A e, f \in With({"held"}) : loop = "busy" /\ e = f

(* What connected stands for: a socket that can be written to, to the peer *)
(* of the first connection. Write and Close never meet a nil or closed     *)
(* socket, although net's Initialize closes one without clearing connected *)
(* and a dial that fails leaves nil; and every reconnection dials the same *)
(* address, although syslog's Initialize adds a port to what String gives. *)
ConnectedMeansOpen ==
    /\ loop # "panicked"
    /\ connected => /\ socket \in {"open", "broken"}
                    /\ address = IF configured = "host" THEN "host:514" ELSE configured

Lost == With({"dropped", "failed", "refused", "skipped"})
Skipped == With({"skipped"})
Uncounted == Cardinality(Lost) - droppedEventCount

(* The dropped event count against every loss the output can see. Syslog   *)
(* counts them all. Net leaves out the event of a failed write, one for    *)
(* each connection that was lost and no more. Kafka leaves out the events  *)
(* without a type when the topic is to be their type, and what Close       *)
(* collects, but then there is no orderly stop.                            *)
LossesReported ==
    /\ Syslog => Uncounted = 0
    /\ kind \in {"tcp", "udp"} => Uncounted + (IF connected THEN 1 ELSE 0) = connects
    /\ kind = "kafka" => /\ Uncounted >= Cardinality(Skipped)
                         /\ Uncounted > Cardinality(Skipped) => closeErrors /\ loop # "stopped"
                         /\ topic = "fixed" => Skipped = {}

(* The output keeps the promise the process relies on: no event is taken   *)
(* once the loop is left, and the exit is broadcast only when no event is  *)
(* held, in the goroutine or in the producer.                              *)
Phase ==
    CASE loop \in {"select", "busy", "redial"} -> "select"
      [] loop \in {"cleanup", "stopped"} -> loop
      [] OTHER -> "down"
InHand == IF Ended THEN {} ELSE With({"held", "producing"})
Promise == INSTANCE OutputPromise WITH phase <- Phase, held <- InHand, failed <- FALSE
KeepsPromise == Promise!Spec

(* SIGTERM ends the output, whatever the connection or the producer does,  *)
(* unless a peer that never reads again holds it in a Write.               *)
StopEnds == (term = "sent") ~> (Ended \/ []Blocked)

(* A lost connection is replaced.                                          *)
Reconnects == (loop = "select" /\ Stream /\ ~connected) ~> (connected \/ term # "none")

-----------------------------------------------------------------------------
(* The inductive invariant behind the safety properties                    *)
(* (DirectOutputProofs)                                                    *)

(* The connection and the place in the code agree.                         *)
ConnectionAgrees ==
    /\ ~Syslog => configured = "host:port"
    /\ Stream /\ loop # "initialize" =>
          address = IF configured = "host" THEN "host:514" ELSE configured
    /\ connected => Stream /\ loop \notin {"initialize", "dial", "redial"}
    /\ Stream /\ loop = "busy" => connected
    /\ loop \in {"dial", "redial"} => Stream

(* What is with the producer, and what Close has collected.                *)
ProducerAgrees ==
    /\ loop \in {"initialize", "dial"} => \A e \in Event : fate[e] = "queued"
    /\ With({"producing"}) # {} => kind = "kafka"
    /\ closeErrors => loop \in {"cleanup", "exited"}

IInv == TypeOK /\ ConnectedMeansOpen /\ LossesReported /\ ConnectionAgrees /\ ProducerAgrees
=============================================================================
