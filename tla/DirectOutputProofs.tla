------------------------- MODULE DirectOutputProofs -------------------------
(***************************************************************************)
(* Proofs about DirectOutput for any number of events and outages, and any *)
(* room in the Kafka producer.                                             *)
(***************************************************************************)
EXTENDS DirectOutput, FiniteSetTheorems, TLAPS

-----------------------------------------------------------------------------
(* Types                                                                   *)

LEMMA TypeInit == Init => TypeOK
<1> SUFFICES ASSUME Init PROVE TypeOK OBVIOUS
<1>1. connected \in BOOLEAN /\ early \in BOOLEAN /\ closeErrors \in BOOLEAN
    BY Zenon DEF Init
<1>2. With({"held"}) = {}
    BY DEF Init, With
<1>3. kind \in {"tcp", "udp", "syslog", "syslog udp", "kafka"} /\ topic \in {"fixed", "by type"}
    BY DEF Init
<1>4. configured \in {"host", "host:port"} /\ address \in Address
    BY DEF Init, Address
<1>5. /\ fate \in [Event -> Fate] /\ loop \in Loop /\ peer \in {"up", "stalled", "down"}
      /\ socket \in {"nil", "open", "broken", "closed"} /\ term \in {"none", "sent", "taken"}
      /\ droppedEventCount \in Nat /\ eventSentCount \in Nat /\ connects \in Nat /\ outages \in Nat
    BY DEF Init, Loop, Fate
<1> QED BY <1>1, <1>2, <1>3, <1>4, <1>5 DEF TypeOK

(* A step that moves one event to another fate.                            *)
LEMMA FateType ==
    ASSUME TypeOK, NEW e \in Event, NEW x \in Fate, fate' = [fate EXCEPT ![e] = x]
    PROVE  /\ fate' \in [Event -> Fate]
           /\ With({"held"})' = IF x = "held" THEN With({"held"}) \cup {e} ELSE With({"held"}) \ {e}
BY DEF TypeOK, With, Fate

(* A step in which the goroutine neither takes nor settles an event.       *)
LEMMA HeldAlone ==
    ASSUME TypeOK, With({"held"})' \subseteq With({"held"}), loop' = loop \/ loop # "busy"
    PROVE  \A e, f \in With({"held"})' : loop' = "busy" /\ e = f
BY DEF TypeOK

LEMMA PortType ==
    ASSUME NEW a \in Address
    PROVE  WithPort(a) \in Address
BY DEF WithPort, Address

LEMMA TypeNext == TypeOK /\ [Next]_vars => TypeOK'
<1> SUFFICES ASSUME TypeOK, [Next]_vars PROVE TypeOK' OBVIOUS
<1> USE DEF setting, counters
<1>n. droppedEventCount \in Nat /\ eventSentCount \in Nat /\ connects \in Nat /\ outages \in Nat
    BY DEF TypeOK
\* Steps that leave the events alone, by what they change.
<1>q. ASSUME UNCHANGED <<setting, fate>>, loop' \in Loop, loop' = loop \/ loop # "busy",
             peer' \in {"up", "stalled", "down"}, socket' \in {"nil", "open", "broken", "closed"},
             connected' \in BOOLEAN, early' \in BOOLEAN, closeErrors' = closeErrors,
             address' \in Address, UNCHANGED <<droppedEventCount, eventSentCount>>,
             connects' \in Nat, outages' \in Nat, term' \in {"none", "sent", "taken"}
      PROVE  TypeOK'
    <2>1. With({"held"})' = With({"held"})
        BY <1>q DEF With
    <2>2. \A e, f \in With({"held"})' : loop' = "busy" /\ e = f
        BY <1>q, <2>1, HeldAlone
    <2> QED BY <1>q, <2>2 DEF TypeOK
\* Steps that move one event.
<1>e. ASSUME NEW e \in Event, NEW x \in Fate, fate' = [fate EXCEPT ![e] = x],
             UNCHANGED <<setting, peer, address, connects, term, outages>>, loop' \in Loop,
             connected' \in BOOLEAN, early' \in BOOLEAN, closeErrors' \in BOOLEAN,
             socket' \in {"nil", "open", "broken", "closed"},
             droppedEventCount' \in Nat, eventSentCount' \in Nat,
             \/ x = "held" /\ loop # "busy" /\ loop' = "busy"
             \/ x # "held" /\ fate[e] = "held"
             \/ x # "held" /\ loop' = loop
      PROVE  TypeOK'
    <2>1. fate' \in [Event -> Fate]
        BY <1>e, FateType
    <2>2. \A f, g \in With({"held"})' : loop' = "busy" /\ f = g
        <3>1. CASE x = "held" /\ loop # "busy" /\ loop' = "busy"
            <4>1. With({"held"}) = {}
                BY <3>1 DEF TypeOK
            <4>2. With({"held"})' = {e}
                BY <1>e, <3>1, <4>1, FateType
            <4> QED BY <3>1, <4>2
        <3>2. CASE x # "held" /\ fate[e] = "held"
            <4>1. With({"held"}) \subseteq {e}
                BY <1>e, <3>2 DEF TypeOK, With
            <4>2. With({"held"})' = {}
                BY <1>e, <3>2, <4>1, FateType
            <4> QED BY <4>2
        <3>3. CASE x # "held" /\ loop' = loop
            BY <1>e, <3>3, FateType, HeldAlone
        <3> QED BY <1>e, <3>1, <3>2, <3>3
    <2> QED BY <1>e, <2>1, <2>2 DEF TypeOK
<1>c. ASSUME NEW s \in {"nil", "open", "broken", "closed"}, NEW n \in Loop,
             CloseAndScheduleReconnection(s, n)
      PROVE  /\ loop' \in Loop /\ socket' \in {"nil", "open", "broken", "closed"}
             /\ connected' \in BOOLEAN /\ early' \in BOOLEAN /\ UNCHANGED <<peer, address, connects>>
    <2>1. connected' \in BOOLEAN /\ early' \in BOOLEAN
        BY <1>c, Zenon DEF CloseAndScheduleReconnection
    <2> QED BY <1>c, <2>1 DEF CloseAndScheduleReconnection, Loop
<1>d. ASSUME NEW a \in Address, BeginDial(a)
      PROVE  /\ socket' \in {"nil", "open", "broken", "closed"} /\ connected' \in BOOLEAN
             /\ address' \in Address /\ UNCHANGED <<setting, peer, early, connects, counters, fate, term, outages>>
    <2>1. connected' \in BOOLEAN
        BY <1>d, Zenon DEF BeginDial, TypeOK
    <2>2. address' \in Address
        BY <1>d, PortType DEF BeginDial
    <2> QED BY <1>d, <2>1, <2>2 DEF BeginDial, TypeOK
<1>1. CASE PeerGoes
    <2>1. outages' \in Nat
        BY <1>1, <1>n DEF PeerGoes
    <2> QED BY <1>1, <2>1, <1>q DEF PeerGoes, TypeOK
<1>17. CASE PeerReturns \/ PeerResumes
    BY <1>17, <1>q DEF PeerReturns, PeerResumes, TypeOK
<1>23. CASE PeerStalls
    <2>1. outages' \in Nat
        BY <1>23, <1>n DEF PeerStalls
    <2> QED BY <1>23, <2>1, <1>q DEF PeerStalls, TypeOK
<1>18. CASE SendTerm
    BY <1>18, <1>q DEF SendTerm, TypeOK, connection
<1>2. CASE Initialize
    <2>1. configured \in Address
        BY DEF TypeOK, Address
    <2> QED BY <1>2, <1>d, <1>q, <2>1 DEF Initialize, TypeOK, Loop
<1>3. CASE Reinitialize
    BY <1>3, <1>d, <1>q DEF Reinitialize, TypeOK, Loop
<1>4. CASE ReconnectTimePasses
    <2>1. early' \in BOOLEAN
        BY <1>4, Zenon DEF ReconnectTimePasses
    <2> QED BY <1>4, <2>1, <1>q DEF ReconnectTimePasses, TypeOK
<1>5. CASE DialOk
    <2>1. connected' \in BOOLEAN
        BY <1>5, Zenon DEF DialOk
    <2>2. connects' \in Nat
        BY <1>5, <1>n DEF DialOk
    <2> QED BY <1>5, <2>1, <2>2, <1>q DEF DialOk, TypeOK, Loop
<1>6. CASE FirstDialFails
    BY <1>6, <1>q DEF FirstDialFails, TypeOK, Loop
<1>7. CASE RedialFails
    <2>1. "nil" \in {"nil", "open", "broken", "closed"} /\ "select" \in Loop
        BY DEF Loop
    <2> QED BY <1>7, <2>1, <1>c, <1>q DEF RedialFails, TypeOK
<1>8. CASE InitializeProducer \/ TakeTerm \/ Stop
    BY <1>8, <1>q DEF InitializeProducer, TakeTerm, Stop, TypeOK, Loop, connection
<1>9. ASSUME NEW e \in Event, DropMessage(e) PROVE TypeOK'
    <2>1. droppedEventCount' \in Nat /\ "dropped" \in Fate
        BY <1>9, <1>n DEF DropMessage, Fate
    <2> QED BY <1>9, <2>1, <1>e DEF DropMessage, TypeOK, connection
<1>19. ASSUME NEW e \in Event, SkipMessage(e) PROVE TypeOK'
    <2>1. "skipped" \in Fate
        BY DEF Fate
    <2> QED BY <1>19, <2>1, <1>e DEF SkipMessage, TypeOK, connection
<1>10. ASSUME NEW e \in Event, BeginWrite(e) \/ BeginSend(e) PROVE TypeOK'
    BY <1>10, <1>e DEF BeginWrite, BeginSend, TypeOK, Fate, Loop, connection
<1>11. ASSUME NEW e \in Event, WriteOk(e) PROVE TypeOK'
    <2>1. PICK x \in {"written", "vanished"} : fate' = [fate EXCEPT ![e] = x]
        BY <1>11 DEF WriteOk
    <2>2. x \in Fate /\ x # "held" /\ "select" \in Loop
        BY DEF Fate, Loop
    <2> QED BY <1>11, <2>1, <2>2, <1>e DEF WriteOk, TypeOK, connection
<1>20. ASSUME NEW e \in Event, ProducerTakes(e) PROVE TypeOK'
    <2>1. "producing" \in Fate /\ "select" \in Loop
        BY DEF Fate, Loop
    <2> QED BY <1>20, <2>1, <1>e DEF ProducerTakes, TypeOK, connection
<1>12. ASSUME NEW e \in Event, LibraryReconnects(e) PROVE TypeOK'
    BY <1>12, <1>e DEF LibraryReconnects, TypeOK, Fate, Loop
<1>13. ASSUME NEW e \in Event, WriteFails(e) PROVE TypeOK'
    <2>1. "select" \in Loop /\ socket \in {"nil", "open", "broken", "closed"}
        BY DEF Loop, TypeOK
    <2>2. droppedEventCount' \in Nat /\ "failed" \in Fate
        BY <1>13, <1>n DEF WriteFails, Fate
    <2>3. /\ loop' \in Loop /\ socket' \in {"nil", "open", "broken", "closed"}
          /\ connected' \in BOOLEAN /\ early' \in BOOLEAN /\ UNCHANGED <<peer, address, connects>>
        BY <1>13, <2>1, <1>c DEF WriteFails
    <2> QED BY <1>13, <2>2, <2>3, <1>e DEF WriteFails, TypeOK
<1>14. ASSUME NEW e \in Event, CountSuccess(e) PROVE TypeOK'
    <2>1. eventSentCount' \in Nat /\ "acked" \in Fate
        BY <1>14, <1>n DEF CountSuccess, Fate
    <2> QED BY <1>14, <2>1, <1>e DEF CountSuccess, TypeOK, connection
<1>21. ASSUME NEW e \in Event, CountError(e) PROVE TypeOK'
    <2>1. droppedEventCount' \in Nat /\ "refused" \in Fate
        BY <1>21, <1>n DEF CountError, Fate
    <2> QED BY <1>21, <2>1, <1>e DEF CountError, TypeOK, connection
<1>22. ASSUME NEW e \in Event, CloseTakesSuccess(e) PROVE TypeOK'
    <2>1. "acked" \in Fate
        BY DEF Fate
    <2> QED BY <1>22, <2>1, <1>e DEF CloseTakesSuccess, TypeOK, connection
<1>15. ASSUME NEW e \in Event, CloseTakesError(e) PROVE TypeOK'
    <2>1. closeErrors' \in BOOLEAN
        BY <1>15, Zenon DEF CloseTakesError
    <2> QED BY <1>15, <2>1, <1>e DEF CloseTakesError, TypeOK, Fate, connection
<1>16. CASE Idle \/ UNCHANGED vars
    BY <1>16, <1>q DEF Idle, vars, TypeOK, connection
<1> QED BY <1>1, <1>2, <1>3, <1>4, <1>5, <1>6, <1>7, <1>8, <1>9, <1>10, <1>11, <1>12, <1>13,
           <1>14, <1>15, <1>16, <1>17, <1>18, <1>19, <1>20, <1>21, <1>22, <1>23 DEF Next

(* TypeOK: the state of the four outputs is well typed, and the goroutine  *)
(* holds one event, and only while it writes or sends it.                  *)
THEOREM TypeCorrect == Spec => []TypeOK
BY TypeInit, TypeNext, PTL DEF Spec

-----------------------------------------------------------------------------
(* The connection                                                          *)

ConnInv == ConnectedMeansOpen /\ ConnectionAgrees

LEMMA ConnInit == Init => ConnInv
<1> SUFFICES ASSUME Init PROVE ConnInv OBVIOUS
<1>1. ~connected
    BY Zenon DEF Init
<1> QED BY <1>1 DEF Init, ConnInv, ConnectedMeansOpen, ConnectionAgrees, Stream, Syslog

(* A step that leaves the connection alone and stays clear of a dial.      *)
LEMMA ConnKept ==
    ASSUME ConnInv, UNCHANGED <<kind, configured, socket, connected, address>>,
           loop' = loop \/ loop' \in {"select", "cleanup", "stopped", "exited"} \/ (loop' = "busy" /\ (Stream => connected)),
           loop = "initialize" => loop' = loop \/ ~Stream
    PROVE  ConnInv'
BY DEF ConnInv, ConnectedMeansOpen, ConnectionAgrees, Stream, Syslog

LEMMA ConnNext ==
    ASSUME TypeOK, ConnInv, [Next]_vars
    PROVE  ConnInv'
<1> USE DEF setting, connection
<1>1. CASE PeerGoes
    BY <1>1 DEF PeerGoes, ConnInv, ConnectedMeansOpen, ConnectionAgrees, Stream, Syslog
<1>2. CASE PeerReturns \/ PeerStalls \/ PeerResumes \/ SendTerm
    BY <1>2, ConnKept DEF PeerReturns, PeerStalls, PeerResumes, SendTerm
<1>3. CASE Initialize
    <2>1. ~connected /\ ~connected'
        BY <1>3 DEF Initialize, BeginDial, ConnInv, ConnectionAgrees
    <2> QED BY <1>3, <2>1 DEF Initialize, BeginDial, WithPort, ConnInv, ConnectedMeansOpen, ConnectionAgrees,
                              Stream, Syslog, TypeOK
<1>4. CASE Reinitialize
    <2>1. ~connected /\ ~connected'
        BY <1>4 DEF Reinitialize, BeginDial
    <2> QED BY <1>4, <2>1 DEF Reinitialize, BeginDial, WithPort, ConnInv, ConnectedMeansOpen, ConnectionAgrees,
                              Stream, Syslog, TypeOK
<1>5. CASE ReconnectTimePasses
    BY <1>5, ConnKept DEF ReconnectTimePasses
<1>6. CASE DialOk
    <2>1. Stream
        BY <1>6 DEF DialOk, ConnInv, ConnectionAgrees
    <2> QED BY <1>6, <2>1 DEF DialOk, ConnInv, ConnectedMeansOpen, ConnectionAgrees, Stream, Syslog
<1>7. CASE FirstDialFails
    BY <1>7 DEF FirstDialFails, ConnInv, ConnectedMeansOpen, ConnectionAgrees, Stream, Syslog
<1>8. CASE RedialFails
    <2>1. ~connected
        BY <1>8 DEF RedialFails, ConnInv, ConnectionAgrees
    <2>2. ~connected' /\ loop' = "select" /\ UNCHANGED <<kind, configured, address>>
        BY <1>8, <2>1, Zenon DEF RedialFails, CloseAndScheduleReconnection
    <2> QED BY <1>8, <2>2 DEF RedialFails, ConnInv, ConnectedMeansOpen, ConnectionAgrees, Stream, Syslog
<1>9. CASE InitializeProducer
    BY <1>9, ConnKept DEF InitializeProducer, Stream
<1>10. CASE TakeTerm \/ Stop
    BY <1>10, ConnKept DEF TakeTerm, Stop
<1>11. ASSUME NEW e \in Event,
              DropMessage(e) \/ BeginWrite(e) \/ WriteOk(e) \/ BeginSend(e) \/ SkipMessage(e) \/ ProducerTakes(e)
       PROVE  ConnInv'
    BY <1>11, ConnKept DEF DropMessage, BeginWrite, WriteOk, BeginSend, SkipMessage, ProducerTakes, Stream
<1>12. ASSUME NEW e \in Event, LibraryReconnects(e) PROVE ConnInv'
    BY <1>12 DEF LibraryReconnects, ConnInv, ConnectedMeansOpen, ConnectionAgrees, Stream, Syslog
<1>13. ASSUME NEW e \in Event, WriteFails(e) PROVE ConnInv'
    <2>1. connected /\ socket # "nil" /\ loop = "busy" /\ Stream
        BY <1>13 DEF WriteFails, ConnInv, ConnectedMeansOpen, ConnectionAgrees
    <2>2. ~connected' /\ loop' = "select" /\ UNCHANGED <<kind, configured, address>>
        BY <1>13, <2>1, Zenon DEF WriteFails, CloseAndScheduleReconnection
    <2> QED BY <2>1, <2>2 DEF ConnInv, ConnectedMeansOpen, ConnectionAgrees, Stream, Syslog
<1>14. ASSUME NEW e \in Event,
              CountSuccess(e) \/ CountError(e) \/ CloseTakesSuccess(e) \/ CloseTakesError(e)
       PROVE  ConnInv'
    BY <1>14, ConnKept DEF CountSuccess, CountError, CloseTakesSuccess, CloseTakesError
<1>15. CASE Idle \/ UNCHANGED vars
    BY <1>15, ConnKept DEF Idle, vars
<1> QED BY <1>1, <1>2, <1>3, <1>4, <1>5, <1>6, <1>7, <1>8, <1>9, <1>10, <1>11, <1>12, <1>13,
           <1>14, <1>15 DEF Next

(* ConnectedMeansOpen: a write or a Close never meets a socket that is nil *)
(* or closed, and every reconnection dials the configured address.         *)
THEOREM ConnectionSound == Spec => []ConnectedMeansOpen
<1>1. TypeOK /\ ConnInv /\ [Next]_vars => ConnInv'
    BY ConnNext
<1>2. ConnInv => ConnectedMeansOpen
    BY DEF ConnInv
<1> QED BY <1>1, <1>2, ConnInit, TypeCorrect, PTL DEF Spec

-----------------------------------------------------------------------------
(* The producer                                                            *)

LEMMA ProducerInit == Init => ProducerAgrees
<1> SUFFICES ASSUME Init PROVE ProducerAgrees OBVIOUS
<1>1. ~closeErrors
    BY Zenon DEF Init
<1>2. With({"producing"}) = {}
    BY DEF Init, With
<1> QED BY <1>1, <1>2 DEF Init, ProducerAgrees

(* An event that moves while the loop is past its start.                   *)
LEMMA ProducerMoves ==
    ASSUME TypeOK, ProducerAgrees, NEW e \in Event, NEW x \in Fate, fate' = [fate EXCEPT ![e] = x],
           kind' = kind, x = "producing" => kind = "kafka",
           loop' \notin {"initialize", "dial"},
           closeErrors' => (closeErrors /\ loop' = loop) \/ loop' = "cleanup"
    PROVE  ProducerAgrees'
<1>1. With({"producing"})' \subseteq IF x = "producing" THEN With({"producing"}) \cup {e} ELSE With({"producing"})
    BY DEF With, TypeOK
<1> QED BY <1>1 DEF ProducerAgrees

LEMMA ProducerStays ==
    ASSUME ProducerAgrees, UNCHANGED <<fate, kind>>, closeErrors' <=> closeErrors,
           loop' \in {"initialize", "dial"} => loop \in {"initialize", "dial"},
           loop' = loop \/ loop' = "exited" \/ loop # "cleanup" \/ ~closeErrors, loop # "exited" \/ loop' = loop
    PROVE  ProducerAgrees'
<1>1. With({"producing"})' = With({"producing"})
    BY DEF With
<1> QED BY <1>1 DEF ProducerAgrees

LEMMA ProducerNext ==
    ASSUME TypeOK, ConnInv, ProducerAgrees, [Next]_vars
    PROVE  ProducerAgrees'
<1> USE DEF setting, connection, counters
<1>f. Fate = { "queued", "held", "written", "vanished", "failed", "dropped", "skipped", "producing", "acked", "refused" }
    BY DEF Fate
<1>1. CASE PeerGoes \/ PeerReturns \/ PeerStalls \/ PeerResumes \/ SendTerm \/ ReconnectTimePasses
    BY <1>1, ProducerStays DEF PeerGoes, PeerReturns, PeerStalls, PeerResumes, SendTerm, ReconnectTimePasses
<1>2. CASE Initialize
    BY <1>2, ProducerStays DEF Initialize, BeginDial
<1>3. CASE Reinitialize
    BY <1>3, ProducerStays DEF Reinitialize, BeginDial
<1>4. CASE DialOk \/ FirstDialFails
    BY <1>4, ProducerStays DEF DialOk, FirstDialFails
<1>5. CASE RedialFails
    BY <1>5, ProducerStays DEF RedialFails, CloseAndScheduleReconnection
<1>6. CASE InitializeProducer \/ TakeTerm
    BY <1>6, ProducerStays DEF InitializeProducer, TakeTerm
<1>7. CASE Stop
    BY <1>7, ProducerStays DEF Stop
<1>8. ASSUME NEW e \in Event, DropMessage(e) \/ SkipMessage(e) PROVE ProducerAgrees'
    <2>1. loop = "select" /\ loop' = loop /\ closeErrors' = closeErrors /\ kind' = kind
        BY <1>8 DEF DropMessage, SkipMessage
    <2>2. PICK x \in {"dropped", "skipped"} : fate' = [fate EXCEPT ![e] = x]
        BY <1>8 DEF DropMessage, SkipMessage
    <2> QED BY <1>f, <2>1, <2>2, ProducerMoves
<1>9. ASSUME NEW e \in Event, BeginWrite(e) \/ BeginSend(e) PROVE ProducerAgrees'
    <2>1. ~closeErrors /\ (closeErrors' <=> closeErrors)
        BY <1>9 DEF BeginWrite, BeginSend, ProducerAgrees
    <2> QED BY <1>9, <1>f, <2>1, ProducerMoves DEF BeginWrite, BeginSend
<1>10. ASSUME NEW e \in Event, WriteOk(e) \/ LibraryReconnects(e) \/ WriteFails(e) \/ ProducerTakes(e)
       PROVE ProducerAgrees'
    <2>1. loop = "busy" /\ (closeErrors' <=> closeErrors) /\ kind' = kind
        BY <1>10 DEF WriteOk, LibraryReconnects, WriteFails, ProducerTakes
    <2>2. ~closeErrors
        BY <2>1 DEF ProducerAgrees
    <2>3. loop' \in {"select", "panicked"}
        BY <1>10 DEF WriteOk, LibraryReconnects, WriteFails, ProducerTakes, CloseAndScheduleReconnection
    <2>4. PICK x \in {"written", "vanished", "failed", "producing"} :
              fate' = [fate EXCEPT ![e] = x] /\ (x = "producing" => kind = "kafka")
        BY <1>10 DEF WriteOk, LibraryReconnects, WriteFails, ProducerTakes
    <2> QED BY <1>f, <2>1, <2>2, <2>3, <2>4, ProducerMoves
<1>11. ASSUME NEW e \in Event, CountSuccess(e) \/ CountError(e) \/ CloseTakesSuccess(e) PROVE ProducerAgrees'
    <2>1. loop' = loop /\ (closeErrors' <=> closeErrors) /\ kind' = kind /\ fate[e] = "producing"
        BY <1>11 DEF CountSuccess, CountError, CloseTakesSuccess
    <2>2. loop \notin {"initialize", "dial"}
        BY <2>1 DEF ProducerAgrees
    <2>3. PICK x \in {"acked", "refused"} : fate' = [fate EXCEPT ![e] = x]
        BY <1>11 DEF CountSuccess, CountError, CloseTakesSuccess
    <2> QED BY <1>f, <2>1, <2>2, <2>3, ProducerMoves
<1>12. ASSUME NEW e \in Event, CloseTakesError(e) PROVE ProducerAgrees'
    BY <1>12, <1>f, ProducerMoves DEF CloseTakesError
<1>13. CASE Idle \/ UNCHANGED vars
    BY <1>13, ProducerStays DEF Idle, vars
<1> QED BY <1>1, <1>2, <1>3, <1>4, <1>5, <1>6, <1>7, <1>8, <1>9, <1>10, <1>11, <1>12, <1>13 DEF Next

-----------------------------------------------------------------------------
(* Losses                                                                  *)

LEMMA LostFinite ==
    /\ IsFiniteSet(Lost) /\ Cardinality(Lost) \in Nat
    /\ IsFiniteSet(Skipped) /\ Cardinality(Skipped) \in Nat
<1>1. Lost \subseteq Event /\ Skipped \subseteq Event
    BY DEF Lost, Skipped, With
<1> QED BY <1>1, DirectEvents, FS_Subset, FS_CardinalityType

LEMMA OneLost ==
    ASSUME TypeOK, NEW e \in Event, fate[e] \in {"queued", "held", "producing"},
           NEW x \in {"dropped", "failed", "refused"}, fate' = [fate EXCEPT ![e] = x]
    PROVE  Cardinality(Lost') = Cardinality(Lost) + 1 /\ Skipped' = Skipped
<1>1. Lost' = Lost \cup {e} /\ e \notin Lost
    BY DEF Lost, With, TypeOK
<1>2. Skipped' = Skipped
    BY DEF Skipped, With, TypeOK
<1> QED BY <1>1, <1>2, LostFinite, FS_AddElement

LEMMA OneSkipped ==
    ASSUME TypeOK, NEW e \in Event, fate[e] = "queued", fate' = [fate EXCEPT ![e] = "skipped"]
    PROVE  /\ Cardinality(Lost') = Cardinality(Lost) + 1
           /\ Cardinality(Skipped') = Cardinality(Skipped) + 1
<1>1. Lost' = Lost \cup {e} /\ e \notin Lost
    BY DEF Lost, With, TypeOK
<1>2. Skipped' = Skipped \cup {e} /\ e \notin Skipped
    BY DEF Skipped, With, TypeOK
<1>3. Cardinality(Lost') = Cardinality(Lost) + 1
    BY <1>1, LostFinite, FS_AddElement
<1>4. Cardinality(Skipped') = Cardinality(Skipped) + 1
    BY <1>2, LostFinite, FS_AddElement
<1> QED BY <1>3, <1>4

LEMMA LostStays ==
    ASSUME TypeOK, NEW e \in Event, fate[e] \in {"queued", "held", "producing"},
           NEW x, x \notin {"dropped", "failed", "refused", "skipped"}, fate' = [fate EXCEPT ![e] = x]
    PROVE  Lost' = Lost /\ Skipped' = Skipped
BY DEF Lost, Skipped, With, TypeOK

LEMMA LossInit == Init => LossesReported
<1> SUFFICES ASSUME Init PROVE LossesReported OBVIOUS
<1>1. Lost = {} /\ Skipped = {}
    BY DEF Init, Lost, Skipped, With
<1>2. Cardinality(Lost) = 0 /\ Cardinality(Skipped) = 0
    BY <1>1, FS_EmptySet
<1>3. ~connected
    BY Zenon DEF Init
<1>4. droppedEventCount = 0 /\ connects = 0
    BY DEF Init
<1> QED BY <1>1, <1>2, <1>3, <1>4 DEF LossesReported, Uncounted

(* A step that loses nothing, connects nothing and disconnects nothing.    *)
LEMMA LossKept ==
    ASSUME LossesReported, ProducerAgrees, Lost' = Lost, Skipped' = Skipped,
           UNCHANGED <<kind, topic, droppedEventCount, connects>>,
           connected' <=> connected, closeErrors => closeErrors',
           loop' = "stopped" => loop = "stopped" \/ ~closeErrors
    PROVE  LossesReported'
<1>1. Uncounted' = Uncounted /\ (Syslog' <=> Syslog)
    BY DEF Uncounted, Syslog
<1>2. Cardinality(Skipped') = Cardinality(Skipped)
    OBVIOUS
<1> QED BY <1>1, <1>2 DEF LossesReported, ProducerAgrees

LEMMA LossNext ==
    ASSUME TypeOK, ConnInv, ProducerAgrees, LossesReported, [Next]_vars
    PROVE  LossesReported'
<1> USE DEF setting, connection, counters
<1>n. /\ droppedEventCount \in Nat /\ connects \in Nat
      /\ Cardinality(Lost) \in Nat /\ Cardinality(Skipped) \in Nat
    BY LostFinite DEF TypeOK
<1>i. Uncounted \in Int
    BY <1>n DEF Uncounted
<1>k. kind' = kind => (Syslog' <=> Syslog)
    BY DEF Syslog
<1>u. UNCHANGED fate => Lost' = Lost /\ Skipped' = Skipped
    BY DEF Lost, Skipped, With
<1>1. CASE PeerGoes \/ PeerReturns \/ PeerStalls \/ PeerResumes \/ SendTerm \/ ReconnectTimePasses
    BY <1>1, <1>u, LossKept DEF PeerGoes, PeerReturns, PeerStalls, PeerResumes, SendTerm, ReconnectTimePasses
<1>2. CASE Initialize \/ Reinitialize
    <2>1. ~connected /\ ~connected'
        BY <1>2 DEF Initialize, Reinitialize, BeginDial, ConnInv, ConnectionAgrees
    <2>2. UNCHANGED <<fate, kind, topic, droppedEventCount, connects, closeErrors>> /\ loop' \in {"dial", "redial"}
        BY <1>2 DEF Initialize, Reinitialize, BeginDial
    <2> QED BY <2>1, <2>2, <1>u, LossKept
<1>3. CASE DialOk
    <2>1. ~connected /\ kind # "kafka"
        BY <1>3 DEF DialOk, ConnInv, ConnectionAgrees, Stream
    <2>2. connected'
        BY <1>3, Zenon DEF DialOk
    <2>3. connects' = connects + 1 /\ UNCHANGED <<kind, topic, droppedEventCount, fate>>
        BY <1>3 DEF DialOk
    <2>4. Cardinality(Lost') = Cardinality(Lost) /\ Skipped' = Skipped
        BY <2>3, <1>u
    <2>5. Uncounted' = Uncounted
        BY <2>3, <2>4 DEF Uncounted
    <2> QED BY <1>i, <1>n, <1>k, <2>1, <2>2, <2>3, <2>5 DEF LossesReported
<1>4. CASE FirstDialFails
    BY <1>4, <1>u, LossKept DEF FirstDialFails
<1>5. CASE RedialFails
    <2>1. ~connected /\ ~connected'
        BY <1>5, Zenon DEF RedialFails, CloseAndScheduleReconnection, ConnInv, ConnectionAgrees
    <2>2. UNCHANGED <<fate, kind, topic, droppedEventCount, connects, closeErrors>> /\ loop' # "stopped"
        BY <1>5 DEF RedialFails, CloseAndScheduleReconnection
    <2> QED BY <2>1, <2>2, <1>u, LossKept
<1>6. CASE InitializeProducer \/ TakeTerm
    BY <1>6, <1>u, LossKept DEF InitializeProducer, TakeTerm
<1>7. CASE Stop
    BY <1>7, <1>u, LossKept DEF Stop
<1>8. ASSUME NEW e \in Event, DropMessage(e) PROVE LossesReported'
    <2>1. Cardinality(Lost') = Cardinality(Lost) + 1 /\ Skipped' = Skipped
        BY <1>8, OneLost DEF DropMessage
    <2>2. /\ droppedEventCount' = droppedEventCount + 1 /\ UNCHANGED <<kind, topic, connects>>
          /\ (connected' <=> connected) /\ kind # "kafka"
        BY <1>8 DEF DropMessage, Stream
    <2>3. Uncounted' = Uncounted
        BY <1>n, <2>1, <2>2 DEF Uncounted
    <2> QED BY <1>i, <1>n, <1>k, <2>2, <2>3 DEF LossesReported
<1>9. ASSUME NEW e \in Event,
             \/ BeginWrite(e) \/ WriteOk(e) \/ BeginSend(e) \/ ProducerTakes(e)
             \/ LibraryReconnects(e) \/ CountSuccess(e) \/ CloseTakesSuccess(e)
      PROVE  LossesReported'
    <2>1. PICK x \in {"held", "written", "vanished", "producing", "acked"} :
              fate' = [fate EXCEPT ![e] = x]
        BY <1>9 DEF BeginWrite, WriteOk, BeginSend, ProducerTakes, LibraryReconnects,
                    CountSuccess, CloseTakesSuccess
    <2>2. fate[e] \in {"queued", "held", "producing"}
        BY <1>9 DEF BeginWrite, WriteOk, BeginSend, ProducerTakes, LibraryReconnects,
                    CountSuccess, CloseTakesSuccess
    <2>3. Lost' = Lost /\ Skipped' = Skipped
        BY <2>1, <2>2, LostStays
    <2>4. /\ UNCHANGED <<kind, topic, droppedEventCount, connects, closeErrors, connected>>
          /\ loop' = loop \/ loop' # "stopped"
        BY <1>9 DEF BeginWrite, WriteOk, BeginSend, ProducerTakes, LibraryReconnects,
                    CountSuccess, CloseTakesSuccess
    <2> QED BY <2>3, <2>4, LossKept
<1>10. ASSUME NEW e \in Event, WriteFails(e) PROVE LossesReported'
    <2>1. Cardinality(Lost') = Cardinality(Lost) + 1 /\ Skipped' = Skipped
        BY <1>10, OneLost DEF WriteFails
    <2>2. connected /\ kind # "kafka"
        BY <1>10 DEF WriteFails, Stream, ConnInv, ConnectionAgrees
    <2>3. ~connected'
        BY <1>10, Zenon DEF WriteFails, CloseAndScheduleReconnection
    <2>4. /\ droppedEventCount' = droppedEventCount + IF Syslog THEN 1 ELSE 0
          /\ UNCHANGED <<kind, topic, connects>>
        BY <1>10 DEF WriteFails, CloseAndScheduleReconnection
    <2>5. CASE Syslog
        <3>1. Uncounted' = Uncounted
            BY <1>n, <2>1, <2>4, <2>5 DEF Uncounted
        <3>2. kind' \notin {"tcp", "udp", "kafka"}
            BY <2>4, <2>5 DEF Syslog
        <3> QED BY <1>k, <2>4, <2>5, <3>1, <3>2 DEF LossesReported
    <2>6. CASE ~Syslog
        <3>1. Uncounted' = Uncounted + 1
            BY <1>n, <2>1, <2>4, <2>6 DEF Uncounted
        <3> QED BY <1>i, <1>n, <1>k, <2>2, <2>3, <2>4, <2>6, <3>1 DEF LossesReported
    <2> QED BY <2>5, <2>6
<1>11. ASSUME NEW e \in Event, CountError(e) PROVE LossesReported'
    <2>1. Cardinality(Lost') = Cardinality(Lost) + 1 /\ Skipped' = Skipped
        BY <1>11, OneLost DEF CountError
    <2>2. kind = "kafka"
        BY <1>11 DEF CountError, ProducerAgrees, With
    <2>3. droppedEventCount' = droppedEventCount + 1 /\ UNCHANGED <<kind, topic, loop>> /\ (closeErrors' <=> closeErrors)
        BY <1>11 DEF CountError
    <2>4. Uncounted' = Uncounted
        BY <1>n, <2>1, <2>3 DEF Uncounted
    <2> QED BY <1>i, <1>n, <1>k, <2>1, <2>2, <2>3, <2>4 DEF LossesReported, Syslog
<1>12. ASSUME NEW e \in Event, CloseTakesError(e) PROVE LossesReported'
    <2>1. Cardinality(Lost') = Cardinality(Lost) + 1 /\ Skipped' = Skipped
        BY <1>12, OneLost DEF CloseTakesError
    <2>2. kind = "kafka"
        BY <1>12 DEF CloseTakesError, ProducerAgrees, With
    <2>3. closeErrors'
        BY <1>12, Zenon DEF CloseTakesError
    <2>4. UNCHANGED <<kind, topic, droppedEventCount>> /\ loop' = "cleanup"
        BY <1>12 DEF CloseTakesError
    <2>5. Uncounted' = Uncounted + 1
        BY <1>n, <2>1, <2>4 DEF Uncounted
    <2> QED BY <1>i, <1>n, <2>1, <2>2, <2>3, <2>4, <2>5 DEF LossesReported, Syslog
<1>13. ASSUME NEW e \in Event, SkipMessage(e) PROVE LossesReported'
    <2>1. /\ Cardinality(Lost') = Cardinality(Lost) + 1
          /\ Cardinality(Skipped') = Cardinality(Skipped) + 1
        BY <1>13, OneSkipped DEF SkipMessage
    <2>2. kind = "kafka" /\ topic # "fixed" /\ loop' # "stopped"
        BY <1>13 DEF SkipMessage
    <2>3. UNCHANGED <<kind, topic, loop, droppedEventCount>> /\ (closeErrors' <=> closeErrors)
        BY <1>13 DEF SkipMessage
    <2>4. Uncounted' = Uncounted + 1
        BY <1>n, <2>1, <2>3 DEF Uncounted
    <2> QED BY <1>i, <1>n, <2>1, <2>2, <2>3, <2>4 DEF LossesReported, Syslog
<1>14. CASE Idle \/ UNCHANGED vars
    BY <1>14, <1>u, LossKept DEF Idle, vars
<1> QED BY <1>1, <1>2, <1>3, <1>4, <1>5, <1>6, <1>7, <1>8, <1>9, <1>10, <1>11, <1>12, <1>13, <1>14 DEF Next

(* The inductive invariant.                                                *)
THEOREM Invariance == Spec => []IInv
<1>1. Init => IInv
    BY TypeInit, ConnInit, ProducerInit, LossInit DEF IInv, ConnInv
<1>2. IInv /\ [Next]_vars => IInv'
    BY TypeNext, ConnNext, ProducerNext, LossNext DEF IInv, ConnInv
<1> QED BY <1>1, <1>2, PTL DEF Spec

(* LossesReported: for any number of events and outages, syslog counts     *)
(* every loss it can see, net all but one for each lost connection, and    *)
(* Kafka, when it stops in order, all but the events it finds no topic     *)
(* for, of which there are none when the topic is fixed.                   *)
THEOREM LossesCounted == Spec => []LossesReported
<1>1. IInv => LossesReported
    BY DEF IInv
<1> QED BY <1>1, Invariance, PTL

-----------------------------------------------------------------------------
(* Refinement                                                              *)

LEMMA PromiseStep ==
    ASSUME IInv, IInv', [Next]_vars
    PROVE  [Promise!Next]_(<<Phase, InHand, FALSE>>)
<1> DEFINE Goal == [Promise!Next]_(<<Phase, InHand, FALSE>>)
<1> USE DEF setting, connection, counters
<1>t. InHand' \subseteq Event
    BY DEF InHand, With
<1>d. loop \in {"initialize", "dial"} => InHand = {}
    BY DEF InHand, With, IInv, ProducerAgrees
<1>c. loop = "cleanup" => InHand = With({"producing"})
    BY DEF InHand, With, Ended, IInv, TypeOK
<1>s. ASSUME UNCHANGED <<loop, fate>> PROVE Goal
    BY <1>s DEF Phase, InHand, Ended, With
<1>w. ASSUME Phase = "select", Phase' \in {"select", "cleanup"} PROVE Goal
    BY <1>w, <1>t DEF Promise!Next, Promise!Work
<1>b. ASSUME Phase = "down", Phase' = "select", InHand' = {} PROVE Goal
    BY <1>b DEF Promise!Next, Promise!Begin
<1>x. ASSUME Phase' = "down", InHand' = {} PROVE Goal
    BY <1>x DEF Promise!Next, Promise!Die
<1>1. CASE PeerGoes \/ PeerReturns \/ PeerStalls \/ PeerResumes \/ SendTerm \/ ReconnectTimePasses \/ Idle \/ UNCHANGED vars
    BY <1>1, <1>s DEF PeerGoes, PeerReturns, PeerStalls, PeerResumes, SendTerm, ReconnectTimePasses, Idle, vars
<1>2. CASE Initialize
    <2>1. Phase' = "down" /\ loop' = "dial"
        BY <1>2 DEF Initialize, Phase
    <2>2. InHand' = {}
        BY <2>1 DEF InHand, With, IInv, ProducerAgrees
    <2> QED BY <2>1, <2>2, <1>x
<1>3. CASE Reinitialize
    BY <1>3, <1>w DEF Reinitialize, Phase
<1>4. CASE DialOk
    <2>1. CASE loop = "redial"
        BY <1>4, <2>1, <1>w DEF DialOk, Phase
    <2>2. CASE loop = "dial"
        <3>1. Phase = "down" /\ Phase' = "select"
            BY <1>4, <2>2 DEF DialOk, Phase
        <3>2. InHand' = {}
            BY <1>4, <2>2 DEF DialOk, InHand, With, IInv, ProducerAgrees
        <3> QED BY <3>1, <3>2, <1>b
    <2> QED BY <1>4, <2>1, <2>2 DEF DialOk
<1>5. CASE FirstDialFails
    BY <1>5, <1>x DEF FirstDialFails, Phase, InHand, Ended
<1>6. CASE RedialFails
    <2>1. loop' = "select"
        BY <1>6 DEF RedialFails, CloseAndScheduleReconnection, IInv, ConnectedMeansOpen
    <2> QED BY <1>6, <2>1, <1>w DEF RedialFails, Phase
<1>7. CASE InitializeProducer
    <2>1. CASE peer = "up"
        <3>1. Phase = "down" /\ Phase' = "select"
            BY <1>7, <2>1 DEF InitializeProducer, Phase
        <3>2. InHand' = {}
            BY <1>7 DEF InitializeProducer, InHand, With, IInv, ProducerAgrees
        <3> QED BY <3>1, <3>2, <1>b
    <2>2. CASE peer # "up"
        BY <1>7, <2>2, <1>x DEF InitializeProducer, Phase, InHand, Ended
    <2> QED BY <2>1, <2>2
<1>8. CASE TakeTerm
    BY <1>8, <1>w DEF TakeTerm, Phase
<1>9. CASE Stop
    <2>1. CASE loop' = "exited"
        BY <2>1, <1>x DEF Phase, InHand, Ended
    <2>2. CASE loop' = "stopped"
        <3>1. InHand = {} /\ InHand' = {} /\ Phase = "cleanup" /\ Phase' = "stopped"
            BY <1>9, <2>2, <1>c DEF Stop, InHand, Ended, Phase
        <3> QED BY <3>1 DEF Promise!Next, Promise!Finish
    <2> QED BY <1>9, <2>1, <2>2 DEF Stop
<1>10. ASSUME NEW e \in Event,
              \/ DropMessage(e) \/ BeginWrite(e) \/ WriteOk(e) \/ LibraryReconnects(e)
              \/ BeginSend(e) \/ SkipMessage(e) \/ ProducerTakes(e)
       PROVE  Goal
    <2>1. loop \in {"select", "busy"} /\ loop' \in {"select", "busy"}
        BY <1>10 DEF DropMessage, BeginWrite, WriteOk, LibraryReconnects, BeginSend, SkipMessage, ProducerTakes
    <2> QED BY <2>1, <1>w DEF Phase
<1>11. ASSUME NEW e \in Event, WriteFails(e) PROVE Goal
    <2>1. loop = "busy" /\ loop' = "select"
        BY <1>11 DEF WriteFails, CloseAndScheduleReconnection, IInv, ConnectedMeansOpen
    <2> QED BY <2>1, <1>w DEF Phase
<1>12. ASSUME ~Ended, NEW e \in Event,
              CountSuccess(e) \/ CountError(e) \/ CloseTakesSuccess(e) \/ CloseTakesError(e)
       PROVE  Goal
    <2>1. loop' = loop /\ fate[e] = "producing"
        BY <1>12 DEF CountSuccess, CountError, CloseTakesSuccess, CloseTakesError
    <2>2. PICK x \in {"acked", "refused"} : fate' = [fate EXCEPT ![e] = x]
        BY <1>12 DEF CountSuccess, CountError, CloseTakesSuccess, CloseTakesError
    <2>3. InHand' \subseteq InHand
        BY <1>12, <2>1, <2>2 DEF InHand, With, Ended, IInv, TypeOK
    <2>4. loop \in {"select", "busy", "redial", "cleanup"}
        BY <1>12, <2>1 DEF Ended, Loop, IInv, TypeOK, ProducerAgrees
    <2>5. CASE loop = "cleanup"
        <3>1. Phase = "cleanup" /\ Phase' = "cleanup"
            BY <2>1, <2>5 DEF Phase
        <3> QED BY <2>3, <3>1 DEF Promise!Next, Promise!Settle
    <2>6. CASE loop # "cleanup"
        BY <2>1, <2>4, <2>6, <1>w DEF Phase
    <2> QED BY <2>5, <2>6
<1> QED BY <1>1, <1>2, <1>3, <1>4, <1>5, <1>6, <1>7, <1>8, <1>9, <1>10, <1>11, <1>12 DEF Next

(* KeepsPromise: net, syslog and Kafka implement what the process relies   *)
(* on: nothing is taken after the loop is left, and the exit is broadcast  *)
(* only when neither the goroutine nor the producer holds an event.        *)
THEOREM PromiseKept == Spec => KeepsPromise
<1>1. Init => Promise!Init
    <2> SUFFICES ASSUME Init PROVE Promise!Init OBVIOUS
    <2>1. Phase = "down" /\ InHand = {}
        BY DEF Init, Phase, InHand, With
    <2> QED BY <2>1 DEF Promise!Init
<1>2. IInv /\ IInv' /\ [Next]_vars => [Promise!Next]_(<<Phase, InHand, FALSE>>)
    BY PromiseStep
<1> QED BY <1>1, <1>2, Invariance, PTL DEF Spec, KeepsPromise, Promise!Spec, Promise!vars
=============================================================================
