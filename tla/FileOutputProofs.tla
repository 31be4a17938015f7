-------------------------- MODULE FileOutputProofs --------------------------
(***************************************************************************)
(* Proofs about FileOutput for any number of events, days, rollovers,      *)
(* restarts, crashes, failing calls and -check runs.                       *)
(***************************************************************************)
EXTENDS FileOutput, TLAPS

-----------------------------------------------------------------------------
(* Days                                                                    *)

LEMMA DayInTime ==
    ASSUME NEW t \in Time
    PROVE  Day(t) \in Time /\ Day(t) <= t
BY FileSizes DEF Day, Time

LEMMA DayIsMonotone ==
    ASSUME NEW s \in Time, NEW t \in Time, s <= t
    PROVE  Day(s) <= Day(t)
BY FileSizes DEF Day, Time

LEMMA StampIsName ==
    ASSUME NEW f \in {"daily", "hup", "restart"}, NEW t \in Time
    PROVE  Stamp(f, t) \in Name
BY DayInTime DEF Stamp, Name

LEMMA StampIsNew ==
    ASSUME NEW f \in {"daily", "hup", "restart"}, NEW t \in Time
    PROVE  Stamp(f, t) \notin {Live, NoFile, NoName}
BY DEF Stamp, Live, NoFile, NoName

-----------------------------------------------------------------------------
(* Types                                                                   *)

TypeInv == TypeOK /\ (loop = "rename" => why # "start")

LEMMA TypeInit == Init => TypeInv
<1> SUFFICES ASSUME Init PROVE TypeInv OBVIOUS
<1>1. failed \in BOOLEAN /\ clean \in BOOLEAN
    BY Zenon DEF Init
<1> QED BY <1>1, FileSizes DEF Init, TypeInv, TypeOK, Time, Name, NoFile

(* What the operations on the directory leave well typed.                  *)
LEMMA RenameType ==
    ASSUME TypeOK, NEW new \in Name, new \notin {NoFile, NoName}, Rename(new)
    PROVE  /\ exists' \subseteq Name /\ data' \in [Name -> SUBSET Event]
           /\ fd' \in Name \cup {NoFile, NoName}
           /\ fd = NoFile => fd' = NoFile
<1>1. Live \in Name /\ Live # NoFile
    BY DEF Name, Live, NoFile
<1> QED BY <1>1 DEF TypeOK, Rename

LEMMA FlushType ==
    ASSUME TypeOK, FlushOk(buffer) \/ FlushFails(buffer)
    PROVE  /\ exists' \subseteq Name /\ data' \in [Name -> SUBSET Event]
           /\ buffer' \subseteq Event
<1>1. CASE FlushOk(buffer)
    BY <1>1 DEF TypeOK, FlushOk, Write, disk
<1>2. CASE FlushFails(buffer)
    BY <1>2 DEF TypeOK, FlushFails, Write, disk
<1> QED BY <1>1, <1>2

LEMMA FaultType ==
    ASSUME TypeOK, Fault \/ NoFault
    PROVE  failed' \in BOOLEAN /\ clean' \in BOOLEAN /\ starts' \in Nat /\ hups' \in Nat /\ troubles' \in Nat
<1>1. failed' \in BOOLEAN /\ clean' \in BOOLEAN
    BY Zenon DEF TypeOK, Fault, NoFault
<1>2. starts' \in Nat /\ hups' \in Nat /\ troubles' \in Nat
    BY DEF TypeOK, Fault, NoFault, bounds
<1> QED BY <1>1, <1>2

LEMMA CloseType ==
    ASSUME TypeOK, CloseFile
    PROVE  /\ exists' \subseteq Name /\ data' \in [Name -> SUBSET Event]
           /\ buffer' \subseteq Event /\ fd' = NoFile
           /\ failed' \in BOOLEAN /\ clean' \in BOOLEAN /\ troubles' \in Nat
<1>1. FlushOk(buffer) \/ FlushFails(buffer)
    BY DEF CloseFile
<1>2. failed' \in BOOLEAN /\ clean' \in BOOLEAN
    BY Zenon DEF CloseFile, TypeOK
<1>3. troubles' \in Nat /\ fd' = NoFile
    BY DEF CloseFile, TypeOK
<1> QED BY <1>1, <1>2, <1>3, FlushType

LEMMA TypeNext == TypeInv /\ [Next]_vars => TypeInv'
<1> SUFFICES ASSUME TypeInv, [Next]_vars PROVE TypeInv' OBVIOUS
<1> USE DEF TypeInv
<1>n. now \in Time /\ Stamp("restart", now) \in Name /\ Stamp("restart", now) \notin {NoFile, NoName}
    BY StampIsName, StampIsNew DEF TypeOK
<1>1. CASE Advance
    BY <1>1 DEF Advance, TypeOK, disk, mine, bounds
<1>2. CASE Start
    <2>1. failed' \in BOOLEAN
        BY <1>2, Zenon DEF Start
    <2> QED BY <1>2, <2>1 DEF Start, TypeOK, disk, Running
<1>3. CASE Create
    BY <1>3 DEF Create, TypeOK, NoFault, bounds, Name
<1>4. CASE RenameOld
    BY <1>4, <1>n, RenameType DEF RenameOld, TypeOK, NoFault, bounds
<1>5. CASE InitializeFails
    <2>1. Fault \/ NoFault
        BY <1>5 DEF InitializeFails
    <2> QED BY <1>5, <2>1, FaultType DEF InitializeFails, TypeOK, disk
<1>6. CASE CheckRenames
    <2>1. /\ exists' \subseteq Name /\ data' \in [Name -> SUBSET Event]
          /\ fd' \in Name \cup {NoFile, NoName} /\ (fd = NoFile => fd' = NoFile)
        BY <1>6, <1>n, RenameType DEF CheckRenames, TypeOK, disk
    <2> QED BY <1>6, <2>1 DEF CheckRenames, TypeOK
<1>7. CASE CheckCreates
    BY <1>7 DEF CheckCreates, TypeOK, mine, bounds, Name
<1>8. ASSUME NEW e \in Event, TakeMessage(e) PROVE TypeInv'
    BY <1>8 DEF TakeMessage, TypeOK, disk, NoFault, bounds
<1>9. CASE OutputNotDue
    BY <1>9 DEF OutputNotDue, TypeOK, disk, NoFault, bounds
<1>10. CASE OutputFlushes
    BY <1>10, FlushType DEF OutputFlushes, TypeOK, NoFault, bounds
<1>11. CASE OutputFails
    BY <1>11, FlushType, FaultType DEF OutputFails, TypeOK
<1>12. CASE Tick
    BY <1>12, FlushType DEF Tick, TypeOK, NoFault, bounds
<1>13. CASE TickFails
    BY <1>13, FlushType, FaultType DEF TickFails, TypeOK
<1>14. CASE RollDaily
    BY <1>14, CloseType DEF RollDaily, TypeOK
<1>15. CASE RollHup
    BY <1>15, CloseType DEF RollHup, TypeOK
<1>16. CASE RenameLive
    <2>1. Stamp(why, lastRolledOver) \in Name /\ Stamp(why, lastRolledOver) \notin {NoFile, NoName}
        BY <1>16, StampIsName, StampIsNew DEF RenameLive, TypeOK
    <2> QED BY <1>16, <2>1, RenameType DEF RenameLive, TypeOK, NoFault, bounds
<1>17. CASE RenameFails
    <2>1. Fault \/ NoFault
        BY <1>17 DEF RenameFails
    <2> QED BY <1>17, <2>1, FaultType DEF RenameFails, TypeOK, disk
<1>18. CASE Term
    BY <1>18 DEF Term, TypeOK, disk, NoFault, bounds
<1>19. CASE ExitFlush
    <2>1. (FlushOk(buffer) \/ FlushFails(buffer)) /\ (Fault \/ NoFault)
        BY <1>19 DEF ExitFlush
    <2> QED BY <1>19, <2>1, FlushType, FaultType DEF ExitFlush, TypeOK
<1>20. CASE ExitClose
    BY <1>20, CloseType DEF ExitClose, TypeOK
<1>21. CASE Broadcast
    BY <1>21 DEF Broadcast, TypeOK, disk, NoFault, bounds
<1>22. CASE Crash
    BY <1>22 DEF Crash, TypeOK, disk, bounds
<1>23. CASE Over \/ UNCHANGED vars
    BY <1>23 DEF Over, TypeOK, vars, disk, mine, bounds
<1> QED BY <1>1, <1>2, <1>3, <1>4, <1>5, <1>6, <1>7, <1>8, <1>9, <1>10, <1>11, <1>12, <1>13,
           <1>14, <1>15, <1>16, <1>17, <1>18, <1>19, <1>20, <1>21, <1>22, <1>23 DEF Next

(* TypeOK: the directory, the buffer and the goroutine are well typed, and *)
(* no file is open while the live file is renamed or created, for any      *)
(* number of everything.                                                   *)
THEOREM TypeCorrect == Spec => []TypeOK
<1>1. TypeInv => TypeOK
    BY DEF TypeInv
<1> QED BY <1>1, TypeInit, TypeNext, PTL DEF Spec

-----------------------------------------------------------------------------
(* What the operations do to the events on disk                            *)

LEMMA RenameKeeps ==
    ASSUME TypeOK, FilesHaveNames, Live \in exists,
           NEW new \in Name, new \notin exists, new \notin {NoFile, NoName}, Rename(new)
    PROVE  OnDisk' = OnDisk /\ FilesHaveNames'
<1>1. new # Live /\ Live \in Name /\ Live # NoFile
    BY DEF Live, NoFile, Name
<1>2. /\ exists' = (exists \ {Live}) \cup {new}
      /\ data'[new] = data[Live] /\ data'[Live] = {}
      /\ \A n \in exists \ {Live} : data'[n] = data[n]
    BY <1>1 DEF Rename, TypeOK
<1>3. OnDisk' = OnDisk
    BY <1>1, <1>2 DEF OnDisk
<1>4. fd' # NoFile => fd' \in exists'
    BY <1>1, <1>2 DEF Rename, FilesHaveNames
<1> QED BY <1>2, <1>3, <1>4 DEF FilesHaveNames

LEMMA WriteAdds ==
    ASSUME TypeOK, fd \in exists, NEW b \in SUBSET Event, Write(b)
    PROVE  OnDisk' = OnDisk \cup b /\ \A n \in Name : n # fd => data'[n] = data[n]
<1>1. data'[fd] = data[fd] \cup b /\ exists' = exists /\ \A n \in Name : n # fd => data'[n] = data[n]
    BY DEF Write, TypeOK
<1> QED BY <1>1 DEF OnDisk, TypeOK

LEMMA FlushKeeps ==
    ASSUME TypeOK, FilesHaveNames, FlushOk(buffer)
    PROVE  /\ exists' = exists /\ (Live \notin exists => data'[Live] = {})
           /\ fd # NoFile => OnDisk' = OnDisk \cup buffer /\ buffer' = {}
           /\ fd = NoFile => OnDisk' = OnDisk /\ buffer' = buffer
<1>1. NoFile \notin exists /\ Live \in Name
    BY DEF TypeOK, Name, NoFile, Live
<1>2. CASE fd = NoFile
    BY <1>1, <1>2 DEF FlushOk, disk, OnDisk, FilesHaveNames
<1>3. CASE fd # NoFile
    <2>1. fd \in exists /\ Write(buffer) /\ buffer' = {}
        BY <1>3 DEF FlushOk, FilesHaveNames
    <2>2. exists' = exists
        BY <2>1 DEF Write
    <2> QED BY <1>1, <1>3, <2>1, <2>2, WriteAdds DEF FilesHaveNames, TypeOK
<1> QED BY <1>2, <1>3

LEMMA FailedFlushKeeps ==
    ASSUME TypeOK, FilesHaveNames, FlushFails(buffer)
    PROVE  /\ exists' = exists /\ (Live \notin exists => data'[Live] = {})
           /\ OnDisk \subseteq OnDisk' /\ OnDisk' \subseteq OnDisk \cup buffer
           /\ buffer' = buffer /\ fd # NoFile
<1>1. fd # NoFile /\ fd \in exists /\ buffer' = buffer /\ Live \in Name
    BY DEF FlushFails, FilesHaveNames, Name
<1>2. PICK part \in SUBSET buffer : Write(part)
    BY <1>1 DEF FlushFails
<1>3. part \in SUBSET Event /\ exists' = exists
    BY <1>2 DEF TypeOK, Write
<1> QED BY <1>1, <1>2, <1>3, WriteAdds DEF FilesHaveNames

LEMMA FaultMeans == Fault => failed' /\ ~clean'
BY Zenon DEF Fault

LEMMA NoFaultMeans == NoFault => (failed' <=> failed) /\ (clean' <=> clean)
<1> SUFFICES ASSUME NoFault PROVE (failed' <=> failed) /\ (clean' <=> clean) OBVIOUS
<1>1. failed' = failed /\ clean' = clean
    BY DEF NoFault
<1> QED BY <1>1, Zenon

LEMMA CloseKeeps ==
    ASSUME TypeOK, FilesHaveNames, BufferAccounted, CloseFile
    PROVE  /\ exists' = exists /\ (Live \notin exists => data'[Live] = {})
           /\ OnDisk \subseteq OnDisk' /\ OnDisk' \subseteq OnDisk \cup buffer
           /\ buffer' \subseteq buffer
           /\ clean' => clean /\ buffer \subseteq OnDisk'
           /\ failed => failed'
           /\ fd' = NoFile /\ (buffer' = {} \/ failed')
           /\ clean' => ~failed'
<1>1. CASE FlushOk(buffer) /\ UNCHANGED <<failed, clean, troubles>>
    <2>1. (failed' <=> failed) /\ (clean' <=> clean) /\ fd' = NoFile
        BY <1>1, Zenon DEF CloseFile
    <2> QED BY <1>1, <2>1, FlushKeeps DEF BufferAccounted
<1>2. CASE FlushFails(buffer) /\ failed' = TRUE /\ clean' = FALSE
    <2>1. failed' /\ ~clean' /\ fd' = NoFile
        BY <1>2, Zenon DEF CloseFile
    <2> QED BY <1>2, <2>1, FailedFlushKeeps
<1> QED BY <1>1, <1>2, Zenon DEF CloseFile

-----------------------------------------------------------------------------
(* Every step keeps the invariant                                          *)

(* What a step may do to an event: disk is for ever, the buffer goes to    *)
(* disk, and what is taken is buffered.                                    *)
StepFacts ==
    /\ OnDisk \subseteq OnDisk' /\ OnDisk' \subseteq OnDisk \cup buffer
    /\ taken \subseteq taken' /\ taken' \ taken \subseteq buffer'
    /\ buffer' \subseteq buffer \cup (taken' \ taken)

LEMMA IInvInit == Init => IInv
<1> SUFFICES ASSUME Init PROVE IInv OBVIOUS
<1>1. TypeInv
    BY TypeInit
<1>2. OnDisk = {}
    BY DEF Init, OnDisk
<1>3. ~failed
    BY Zenon DEF Init
<1>4. DaysArePast
    BY DEF Init, DaysArePast
<1>5. FilesHaveNames
    BY DEF Init, FilesHaveNames, Name
<1>6. BufferAccounted
    BY <1>3 DEF Init, BufferAccounted, Running
<1> QED BY <1>1, <1>2, <1>4, <1>5, <1>6 DEF Init, IInv, TypeInv, NothingInvented, CleanStopLosesNothing

(* A step that leaves the clock, the names of files and lastRolledOver     *)
(* alone, and begins nothing, says nothing new about days.                 *)
LEMMA DaysKept ==
    ASSUME DaysArePast, exists' = exists, now' = now, lastRolledOver' = lastRolledOver,
           loop' = "rename" => loop = "rename" /\ why' = why,
           loop' \in {"select", "output"} => loop \in {"select", "output"}
    PROVE  DaysArePast'
BY DEF DaysArePast, Day, Stamp

LEMMA StepDays ==
    ASSUME Monotonic, FreshStamps, IInv, [Next]_vars
    PROVE  DaysArePast'
<1> USE DEF IInv
<1>n. /\ now \in Time /\ lastRolledOver \in Time
      /\ Day(now) \in Time /\ Day(lastRolledOver) \in Time
      /\ Day(lastRolledOver) <= Day(now)
    BY DayInTime, DayIsMonotone DEF TypeOK, DaysArePast
<1>t. Time \subseteq Int
    BY DEF Time
<1>i. Day(now) \in Int /\ Day(lastRolledOver) \in Int
    BY <1>n, <1>t
<1>1. CASE Advance
    <2>1. now' \in Time /\ now < now'
        BY <1>1, <1>n, <1>t DEF Advance, TypeOK
    <2>2. Day(now') \in Int /\ Day(now) <= Day(now')
        <3>1. now <= now'
            BY <1>n, <1>t, <2>1
        <3>2. Day(now) <= Day(now')
            BY <3>1, <2>1, <1>n, DayIsMonotone
        <3>3. Day(now') \in Time
            BY <2>1, DayInTime
        <3> QED BY <1>t, <3>2, <3>3
    <2>3. Day(now)' = Day(now') /\ Day(lastRolledOver)' = Day(lastRolledOver)
        BY <1>1 DEF Advance, mine, Day
    <2>4. /\ exists' = exists /\ lastRolledOver' = lastRolledOver /\ loop' = loop /\ why' = why
          /\ Stamp("hup", lastRolledOver)' = Stamp("hup", lastRolledOver)
        BY <1>1 DEF Advance, disk, mine, Stamp
    <2>5. lastRolledOver' <= now'
        BY <1>n, <1>t, <2>1, <2>4 DEF DaysArePast
    <2>6. ASSUME NEW d \in Time, <<"daily", d>> \in exists
          PROVE  /\ d < Day(now)'
                 /\ loop \in {"select", "output", "rename"} => d < Day(lastRolledOver)'
        BY <1>i, <1>t, <2>2, <2>3, <2>6 DEF DaysArePast
    <2>7. loop = "rename" /\ why = "daily" => Day(lastRolledOver)' < Day(now)'
        BY <1>i, <2>2, <2>3 DEF DaysArePast
    <2> QED BY <2>4, <2>5, <2>6, <2>7 DEF DaysArePast
<1>2. CASE Start
    BY <1>2, DaysKept DEF Start, disk
<1>3. CASE Create
    BY <1>3, <1>n, <1>t DEF Create, DaysArePast, Live, Day
<1>4. CASE RenameOld
    BY <1>4, <1>n, <1>t DEF RenameOld, Rename, DaysArePast, Stamp, Day, Live
<1>5. CASE InitializeFails
    BY <1>5, <1>n, <1>t DEF InitializeFails, DaysArePast, disk, Day
<1>6. CASE CheckRenames
    <2>1. /\ now' = now /\ lastRolledOver' = lastRolledOver /\ loop' = loop /\ why' = why
          /\ exists' \subseteq exists \cup {<<"restart", now>>}
        BY <1>6 DEF CheckRenames, Rename, disk, Stamp
    <2> QED BY <2>1 DEF DaysArePast, Day, Stamp
<1>7. CASE CheckCreates
    BY <1>7 DEF CheckCreates, DaysArePast, mine, Live, Day, Stamp
<1>8. ASSUME NEW e \in Event, TakeMessage(e) PROVE DaysArePast'
    BY <1>8, DaysKept DEF TakeMessage, disk
<1>9. CASE OutputNotDue
    BY <1>9, DaysKept DEF OutputNotDue, disk
<1>10. CASE OutputFlushes \/ OutputFails \/ Tick \/ TickFails
    <2>1. exists' = exists
        BY <1>10, FlushKeeps, FailedFlushKeeps DEF OutputFlushes, OutputFails, Tick, TickFails
    <2> QED BY <1>10, <2>1, DaysKept DEF OutputFlushes, OutputFails, Tick, TickFails
<1>11. CASE RollDaily
    <2>1. exists' = exists
        BY <1>11, CloseKeeps DEF RollDaily
    <2>2. Day(lastRolledOver) < Day(now)
        BY <1>11, <1>n, <1>i DEF RollDaily, SameDay
    <2> QED BY <1>11, <2>1, <2>2 DEF RollDaily, DaysArePast, Day
<1>12. CASE RollHup
    <2>1. exists' = exists
        BY <1>12, CloseKeeps DEF RollHup
    <2> QED BY <1>12, <2>1 DEF RollHup, DaysArePast, Day, Stamp
<1>13. CASE RenameLive
    <2>1. why \in {"daily", "hup"}
        BY <1>13 DEF RenameLive, TypeOK
    <2>2. CASE why = "daily"
        BY <1>13, <2>2, <1>n, <1>t DEF RenameLive, Rename, DaysArePast, Stamp, Day, Live
    <2>3. CASE why = "hup"
        BY <1>13, <2>3, <1>n, <1>t DEF RenameLive, Rename, DaysArePast, Stamp, Day, Live
    <2> QED BY <2>1, <2>2, <2>3
<1>14. CASE RenameFails \/ Term \/ Broadcast \/ Crash
    BY <1>14, DaysKept DEF RenameFails, Term, Broadcast, Crash, disk
<1>15. CASE ExitFlush
    <2>1. exists' = exists
        BY <1>15, FlushKeeps, FailedFlushKeeps DEF ExitFlush
    <2> QED BY <1>15, <2>1, DaysKept DEF ExitFlush
<1>16. CASE ExitClose
    <2>1. exists' = exists
        BY <1>16, CloseKeeps DEF ExitClose
    <2> QED BY <1>16, <2>1, DaysKept DEF ExitClose
<1>17. CASE Over \/ UNCHANGED vars
    BY <1>17, DaysKept DEF Over, vars, disk, mine
<1> QED BY <1>1, <1>2, <1>3, <1>4, <1>5, <1>6, <1>7, <1>8, <1>9, <1>10, <1>11, <1>12, <1>13,
           <1>14, <1>15, <1>16, <1>17 DEF Next

LEMMA StepEvents ==
    ASSUME FreshStamps, IInv, [Next]_vars
    PROVE  StepFacts /\ FilesHaveNames' /\ BufferAccounted' /\ CleanStopLosesNothing'
<1> DEFINE Goal == StepFacts /\ FilesHaveNames' /\ BufferAccounted' /\ CleanStopLosesNothing'
<1> USE DEF IInv
<1>r. Stamp("restart", now) \in Name /\ Stamp("restart", now) \notin {NoFile, NoName}
    BY StampIsName, StampIsNew DEF TypeOK
\* A step that leaves the files, the buffer and what is taken alone.
<1>q. ASSUME disk' = disk, fd' = fd, buffer' = buffer, taken' = taken,
             failed => failed', clean' => clean /\ ~failed',
             loop' \in {"select", "output"} => fd # NoFile,
             Running', Running,
             loop' \in {"open", "reopen"} /\ why' = "start" =>
                 loop \in {"open", "reopen"} /\ why = "start" /\ (failed' <=> failed)
      PROVE  Goal
    <2>1. OnDisk' = OnDisk /\ FilesHaveNames'
        BY <1>q DEF OnDisk, FilesHaveNames, disk
    <2> QED BY <1>q, <2>1 DEF StepFacts, BufferAccounted, CleanStopLosesNothing
<1>1. CASE Advance \/ Over \/ UNCHANGED vars
    <2>1. UNCHANGED <<disk, mine, taken, failed, clean>>
        BY <1>1 DEF Advance, Over, vars
    <2>2. OnDisk' = OnDisk /\ FilesHaveNames'
        BY <2>1 DEF OnDisk, FilesHaveNames, disk, mine
    <2>3. (failed' <=> failed) /\ (clean' <=> clean)
        BY <2>1
    <2> QED BY <2>1, <2>2, <2>3 DEF StepFacts, BufferAccounted, CleanStopLosesNothing, Running, mine
<1>2. CASE Start
    <2>1. OnDisk' = OnDisk /\ FilesHaveNames'
        BY <1>2 DEF Start, OnDisk, FilesHaveNames, disk
    <2>2. ~failed' /\ (clean' <=> clean)
        BY <1>2, Zenon DEF Start
    <2>3. loop' = "open" /\ fd' = fd /\ fd = NoFile /\ buffer' = {} /\ buffer = {} /\ taken' = taken /\ ~Running
        BY <1>2 DEF Start, BufferAccounted, TypeOK, Running
    <2> QED BY <2>1, <2>2, <2>3 DEF StepFacts, BufferAccounted, CleanStopLosesNothing, Running
<1>3. CASE Create
    <2>1. (failed' <=> failed) /\ (clean' <=> clean)
        BY <1>3, NoFaultMeans DEF Create
    <2>2. exists' = exists \cup {Live} /\ data' = data /\ data[Live] = {} /\ fd' = Live /\ Live # NoFile
        BY <1>3 DEF Create, FilesHaveNames, Live, NoFile
    <2>3. OnDisk' = OnDisk /\ FilesHaveNames'
        BY <2>2 DEF OnDisk, FilesHaveNames
    <2> QED BY <1>3, <2>1, <2>2, <2>3 DEF Create, StepFacts, BufferAccounted, CleanStopLosesNothing, Running
<1>4. CASE RenameOld
    <2>1. (failed' <=> failed) /\ (clean' <=> clean)
        BY <1>4, NoFaultMeans DEF RenameOld
    <2>2. OnDisk' = OnDisk /\ FilesHaveNames'
        BY <1>4, <1>r, RenameKeeps DEF RenameOld
    <2>3. fd' = NoFile /\ fd = NoFile
        BY <1>4, <1>r, RenameType DEF RenameOld, TypeOK
    <2> QED BY <1>4, <2>1, <2>2, <2>3 DEF RenameOld, StepFacts, BufferAccounted, CleanStopLosesNothing, Running
<1>5. CASE InitializeFails
    <2>1. (failed => failed') /\ (clean' => clean /\ ~failed')
        BY <1>5, FaultMeans, NoFaultMeans DEF InitializeFails, BufferAccounted
    <2>2. OnDisk' = OnDisk /\ FilesHaveNames'
        BY <1>5 DEF InitializeFails, OnDisk, FilesHaveNames, disk
    <2>3. fd' = fd /\ fd = NoFile /\ taken' = taken /\ Running /\ loop \in {"open", "reopen"}
        BY <1>5 DEF InitializeFails, TypeOK, Running
    <2>4. CASE why = "start"
        BY <1>5, <2>1, <2>2, <2>3, <2>4 DEF InitializeFails, StepFacts, BufferAccounted, CleanStopLosesNothing, Running
    <2>5. CASE why # "start"
        BY <1>5, <2>1, <2>2, <2>3, <2>5 DEF InitializeFails, StepFacts, BufferAccounted, CleanStopLosesNothing, Running
    <2> QED BY <2>4, <2>5
<1>6. CASE CheckRenames
    <2>1. (failed' <=> failed) /\ (clean' <=> clean) /\ UNCHANGED <<loop, why, buffer, taken>>
        BY <1>6 DEF CheckRenames
    <2>2. OnDisk' = OnDisk /\ FilesHaveNames' /\ (fd' = NoFile <=> fd = NoFile)
        <3>1. CASE Live \in exists
            <4>1. Rename(Stamp("restart", now)) /\ Stamp("restart", now) \notin exists
                BY <1>6, <3>1 DEF CheckRenames
            <4>2. fd' = NoFile <=> fd = NoFile
                BY <1>r, <4>1, StampIsNew DEF Rename, FilesHaveNames, Live, NoFile
            <4> QED BY <1>r, <3>1, <4>1, <4>2, RenameKeeps
        <3>2. CASE Live \notin exists
            BY <1>6, <3>2 DEF CheckRenames, OnDisk, FilesHaveNames, disk
        <3> QED BY <3>1, <3>2
    <2> QED BY <2>1, <2>2 DEF StepFacts, BufferAccounted, CleanStopLosesNothing, Running
<1>7. CASE CheckCreates
    <2>1. (failed' <=> failed) /\ (clean' <=> clean) /\ UNCHANGED <<loop, why, fd, buffer, taken>>
        BY <1>7 DEF CheckCreates, mine
    <2>2. OnDisk' = OnDisk /\ FilesHaveNames'
        BY <1>7, <2>1 DEF CheckCreates, OnDisk, FilesHaveNames
    <2> QED BY <2>1, <2>2 DEF StepFacts, BufferAccounted, CleanStopLosesNothing, Running
<1>8. ASSUME NEW e \in Event, TakeMessage(e) PROVE Goal
    <2>1. (failed' <=> failed) /\ (clean' <=> clean)
        BY <1>8, NoFaultMeans DEF TakeMessage
    <2>2. OnDisk' = OnDisk /\ FilesHaveNames'
        BY <1>8 DEF TakeMessage, OnDisk, FilesHaveNames, disk
    <2> QED BY <1>8, <2>1, <2>2 DEF TakeMessage, StepFacts, BufferAccounted, CleanStopLosesNothing, Running
<1>9. CASE OutputNotDue \/ Term
    <2>1. (failed' <=> failed) /\ (clean' <=> clean)
        BY <1>9, NoFaultMeans DEF OutputNotDue, Term
    <2> QED BY <1>9, <1>q, <2>1 DEF OutputNotDue, Term, BufferAccounted, Running
<1>10. CASE OutputFlushes \/ Tick
    <2>1. (failed' <=> failed) /\ (clean' <=> clean)
        BY <1>10, NoFaultMeans DEF OutputFlushes, Tick
    <2>2. FlushOk(buffer) /\ fd' = fd /\ fd # NoFile /\ taken' = taken /\ loop' = "select" /\ Running
        BY <1>10 DEF OutputFlushes, Tick, BufferAccounted, Running
    <2>3. OnDisk' = OnDisk \cup buffer /\ buffer' = {} /\ FilesHaveNames'
        BY <2>2, FlushKeeps DEF FilesHaveNames
    <2> QED BY <2>1, <2>2, <2>3 DEF StepFacts, BufferAccounted, CleanStopLosesNothing, Running
<1>11. CASE OutputFails \/ TickFails
    <2>1. failed' /\ ~clean'
        BY <1>11, FaultMeans DEF OutputFails, TickFails
    <2>2. FlushFails(buffer) /\ fd' = fd /\ taken' = taken /\ loop' \in {"select", "return"}
        BY <1>11 DEF OutputFails, TickFails
    <2>3. FilesHaveNames' /\ buffer' = buffer /\ fd # NoFile
        BY <2>2, FailedFlushKeeps DEF FilesHaveNames
    <2> QED BY <2>1, <2>2, <2>3, FailedFlushKeeps DEF StepFacts, BufferAccounted, CleanStopLosesNothing, Running
<1>12. CASE RollDaily \/ RollHup \/ ExitClose
    <2>1. CloseFile /\ taken' = taken /\ loop' \in {"rename", "signal"} /\ Running
        BY <1>12 DEF RollDaily, RollHup, ExitClose, Running
    <2>2. FilesHaveNames'
        BY <2>1, CloseKeeps DEF FilesHaveNames
    <2> QED BY <2>1, <2>2, CloseKeeps DEF StepFacts, BufferAccounted, CleanStopLosesNothing, Running
<1>13. CASE RenameLive
    <2>1. (failed' <=> failed) /\ (clean' <=> clean)
        BY <1>13, NoFaultMeans DEF RenameLive
    <2>2. why \in {"daily", "hup"} /\ lastRolledOver \in Time
        BY <1>13 DEF RenameLive, TypeOK
    <2>3. Stamp(why, lastRolledOver) \in Name /\ Stamp(why, lastRolledOver) \notin {NoFile, NoName}
        BY <2>2, StampIsName, StampIsNew
    <2>4. Stamp(why, lastRolledOver) \notin exists
        <3>1. Day(lastRolledOver) \in Time
            BY <2>2, DayInTime
        <3>2. ASSUME NEW d \in Time PROVE ~(d < d)
            BY DEF Time
        <3> QED BY <1>13, <2>2, <3>1, <3>2 DEF RenameLive, DaysArePast, Stamp
    <2>5. OnDisk' = OnDisk /\ FilesHaveNames'
        BY <1>13, <2>3, <2>4, RenameKeeps DEF RenameLive
    <2>6. fd' = NoFile /\ fd = NoFile
        BY <1>13, <2>3, RenameType DEF RenameLive, TypeOK
    <2> QED BY <1>13, <2>1, <2>2, <2>5, <2>6 DEF RenameLive, StepFacts, BufferAccounted, CleanStopLosesNothing, Running
<1>14. CASE RenameFails
    <2>1. (failed => failed') /\ (clean' => clean /\ ~failed')
        BY <1>14, FaultMeans, NoFaultMeans DEF RenameFails, BufferAccounted
    <2> QED BY <1>14, <1>q, <2>1 DEF RenameFails, Running
<1>15. CASE ExitFlush
    <2>1. fd' = fd /\ taken' = taken /\ loop' = "close" /\ Running
        BY <1>15 DEF ExitFlush, Running
    <2>2. CASE FlushOk(buffer) /\ NoFault
        <3>1. (failed' <=> failed) /\ (clean' <=> clean)
            BY <2>2, NoFaultMeans
        <3>2. FilesHaveNames'
            BY <2>1, <2>2, FlushKeeps DEF FilesHaveNames
        <3> QED BY <2>1, <2>2, <3>1, <3>2, FlushKeeps DEF StepFacts, BufferAccounted, CleanStopLosesNothing, Running
    <2>3. CASE FlushFails(buffer) /\ Fault
        <3>1. failed' /\ ~clean'
            BY <2>3, FaultMeans
        <3>2. FilesHaveNames'
            BY <2>1, <2>3, FailedFlushKeeps DEF FilesHaveNames
        <3> QED BY <2>1, <2>3, <3>1, <3>2, FailedFlushKeeps DEF StepFacts, BufferAccounted, CleanStopLosesNothing, Running
    <2> QED BY <1>15, <2>2, <2>3 DEF ExitFlush
<1>16. CASE Broadcast
    <2>1. (failed' <=> failed) /\ (clean' <=> clean)
        BY <1>16, NoFaultMeans DEF Broadcast
    <2>2. OnDisk' = OnDisk /\ FilesHaveNames'
        BY <1>16 DEF Broadcast, OnDisk, FilesHaveNames, disk
    <2>3. fd = NoFile
        BY <1>16 DEF Broadcast, TypeOK
    <2> QED BY <1>16, <2>1, <2>2, <2>3 DEF Broadcast, StepFacts, BufferAccounted, CleanStopLosesNothing, Running
<1>17. CASE Crash
    <2>1. ~clean'
        BY <1>17, Zenon DEF Crash
    <2>2. OnDisk' = OnDisk /\ FilesHaveNames'
        BY <1>17 DEF Crash, OnDisk, FilesHaveNames, disk
    <2> QED BY <1>17, <2>1, <2>2 DEF Crash, StepFacts, BufferAccounted, CleanStopLosesNothing, Running
<1> QED BY <1>1, <1>2, <1>3, <1>4, <1>5, <1>6, <1>7, <1>8, <1>9, <1>10, <1>11, <1>12, <1>13,
           <1>14, <1>15, <1>16, <1>17 DEF Next

LEMMA IInvNext ==
    ASSUME Monotonic, FreshStamps, IInv, [Next]_vars
    PROVE  IInv' /\ StepFacts
<1>1. TypeInv'
    BY TypeNext DEF IInv, TypeInv
<1>2. StepFacts /\ FilesHaveNames' /\ BufferAccounted' /\ CleanStopLosesNothing'
    BY StepEvents
<1>3. NothingInvented'
    BY <1>2 DEF StepFacts, NothingInvented, IInv
<1>4. DaysArePast'
    BY StepDays
<1> QED BY <1>1, <1>2, <1>3, <1>4 DEF IInv, TypeInv

(* The inductive invariant, when the local time does not go back and no    *)
(* two rollovers get one millisecond.                                      *)
THEOREM Invariance ==
    ASSUME Monotonic, FreshStamps
    PROVE  Spec => []IInv
<1>1. IInv /\ [Next]_vars => IInv'
    BY IInvNext
<1> QED BY <1>1, IInvInit, PTL DEF Spec

(* CleanStopLosesNothing: an output that is only ever stopped by SIGTERM,  *)
(* with a file system that does not fail, loses no event, through any      *)
(* number of days, SIGHUPs, restarts and -check runs.                      *)
THEOREM CleanStop ==
    ASSUME Monotonic, FreshStamps
    PROVE  Spec => []CleanStopLosesNothing
<1>1. IInv => CleanStopLosesNothing
    BY DEF IInv
<1> QED BY <1>1, Invariance, PTL

-----------------------------------------------------------------------------
(* Refinement                                                              *)

LEMMA CustodyStep ==
    ASSUME IInv, StepFacts
    PROVE  Custody!Next
<1>1. ASSUME NEW e \in Event
      PROVE  /\ StatusOf(e)' \in Custody!Status
             /\ StatusOf(e)' = StatusOf(e) \/ <<StatusOf(e), StatusOf(e)'>> \in Custody!Handover
    BY DEF StatusOf, Custody!Status, Custody!Handover, StepFacts, IInv, NothingInvented
<1> QED BY <1>1 DEF Custody!Next

(* KeepsCustody: no rollover, restart or -check run puts a file in the     *)
(* place of another, whatever fails and however often the process dies.    *)
THEOREM CustodyKept ==
    ASSUME Monotonic, FreshStamps
    PROVE  Spec => KeepsCustody
<1>1. Init => Custody!Init
    <2> SUFFICES ASSUME Init PROVE Custody!Init OBVIOUS
    <2>1. OnDisk = {}
        BY DEF Init, OnDisk
    <2>2. \A e \in Event : StatusOf(e) = "new"
        BY <2>1 DEF Init, StatusOf
    <2> QED BY <2>2 DEF Custody!Init
<1>2. IInv /\ [Next]_vars => [Custody!Next]_([e \in Event |-> StatusOf(e)])
    BY IInvNext, CustodyStep
<1> QED BY <1>1, <1>2, Invariance, PTL DEF Spec, KeepsCustody, Custody!Spec

AbstractFailed == Phase # "down" /\ failed

(* The five ways a step can look from outside.                             *)
LEMMA LooksLikeStutter ==
    ASSUME Phase' = Phase, buffer' = buffer, AbstractFailed' <=> AbstractFailed
    PROVE  UNCHANGED <<Phase, buffer, Phase # "down" /\ failed>>
BY DEF AbstractFailed

LEMMA LooksLikeWork ==
    ASSUME Phase = "select", Phase' \in {"select", "cleanup"}, buffer' \subseteq Event, failed => failed'
    PROVE  Promise!Work
BY DEF Promise!Work

LEMMA LooksLikeSettle ==
    ASSUME Phase = "cleanup", Phase' = "cleanup", buffer' \subseteq buffer, failed => failed'
    PROVE  Promise!Settle
BY DEF Promise!Settle

LEMMA LooksLikeBegin ==
    ASSUME Phase # "cleanup", Phase' = "select", buffer' = {}, ~failed'
    PROVE  Promise!Begin
BY DEF Promise!Begin

LEMMA LooksLikeFinish ==
    ASSUME Phase = "cleanup", Phase' = "stopped", buffer' = {}, buffer = {} \/ failed, failed' <=> failed
    PROVE  Promise!Finish
BY DEF Promise!Finish

LEMMA LooksLikeDeath ==
    ASSUME Phase' = "down", buffer' = {}
    PROVE  Promise!Die
BY DEF Promise!Die

LEMMA PromiseStep ==
    ASSUME IInv, IInv', [Next]_vars
    PROVE  [Promise!Next]_(<<Phase, buffer, Phase # "down" /\ failed>>)
<1> DEFINE Goal == [Promise!Next]_(<<Phase, buffer, Phase # "down" /\ failed>>)
<1>t. buffer' \subseteq Event
    BY DEF IInv, TypeOK
<1>s. ASSUME UNCHANGED <<loop, why, buffer>>, failed' <=> failed PROVE Goal
    BY <1>s, LooksLikeStutter DEF Phase, AbstractFailed
<1>w. ASSUME Phase = "select", Phase' \in {"select", "cleanup"}, failed => failed' PROVE Goal
    BY <1>w, <1>t, LooksLikeWork DEF Promise!Next
<1>1. CASE Advance \/ CheckRenames \/ CheckCreates \/ Over \/ UNCHANGED vars
    <2>1. UNCHANGED <<loop, why, buffer>> /\ failed' = failed
        BY <1>1 DEF Advance, CheckRenames, CheckCreates, Over, vars, mine
    <2> QED BY <2>1, <1>s
<1>2. CASE Start
    <2>1. buffer' = {} /\ buffer = {} /\ loop' = "open" /\ why' = "start" /\ loop \in {"down", "stopped"}
        BY <1>2 DEF Start, IInv, BufferAccounted, Running
    <2>2. Phase' = "down"
        BY <2>1 DEF Phase
    <2> QED BY <2>1, <2>2, LooksLikeDeath DEF Promise!Next
<1>3. CASE Create
    <2>1. Phase' = "select" /\ buffer' = buffer /\ (failed' <=> failed)
        BY <1>3, NoFaultMeans DEF Create, Phase
    <2>2. CASE why = "start"
        <3>1. Phase = "down" /\ buffer = {} /\ ~failed
            BY <1>3, <2>2 DEF Create, Phase, IInv, BufferAccounted
        <3> QED BY <2>1, <3>1, LooksLikeBegin DEF Promise!Next
    <2>3. CASE why # "start"
        BY <1>3, <2>1, <2>3, <1>w DEF Create, Phase
    <2> QED BY <2>2, <2>3
<1>4. CASE RenameOld
    <2>1. Phase' = Phase /\ buffer' = buffer /\ (failed' <=> failed)
        BY <1>4, NoFaultMeans DEF RenameOld, Phase
    <2> QED BY <2>1, LooksLikeStutter DEF AbstractFailed
<1>5. CASE InitializeFails
    <2>1. failed => failed'
        BY <1>5, FaultMeans, NoFaultMeans DEF InitializeFails
    <2>2. CASE why = "start"
        <3>1. Phase' = "down" /\ buffer' = {}
            BY <1>5, <2>2 DEF InitializeFails, Phase
        <3> QED BY <3>1, LooksLikeDeath DEF Promise!Next
    <2>3. CASE why # "start"
        BY <1>5, <2>1, <2>3, <1>w DEF InitializeFails, Phase
    <2> QED BY <2>2, <2>3
<1>6. ASSUME NEW e \in Event, TakeMessage(e) PROVE Goal
    BY <1>6, <1>w, NoFaultMeans DEF TakeMessage, Phase
<1>7. CASE OutputNotDue \/ OutputFlushes \/ Tick \/ Term
    <2>1. failed => failed'
        BY <1>7, NoFaultMeans DEF OutputNotDue, OutputFlushes, Tick, Term
    <2> QED BY <1>7, <2>1, <1>w DEF OutputNotDue, OutputFlushes, Tick, Term, Phase
<1>8. CASE OutputFails \/ TickFails
    <2>1. failed'
        BY <1>8, FaultMeans DEF OutputFails, TickFails
    <2> QED BY <1>8, <2>1, <1>w DEF OutputFails, TickFails, Phase
<1>9. CASE RollDaily \/ RollHup
    <2>1. failed => failed'
        BY <1>9, CloseKeeps DEF RollDaily, RollHup, IInv
    <2> QED BY <1>9, <2>1, <1>w DEF RollDaily, RollHup, Phase
<1>10. CASE RenameLive
    <2>1. failed => failed'
        BY <1>10, NoFaultMeans DEF RenameLive
    <2> QED BY <1>10, <2>1, <1>w DEF RenameLive, Phase, IInv
<1>11. CASE RenameFails
    <2>1. failed => failed'
        BY <1>11, FaultMeans, NoFaultMeans DEF RenameFails
    <2> QED BY <1>11, <2>1, <1>w DEF RenameFails, Phase
<1>12. CASE ExitFlush
    <2>1. failed => failed'
        BY <1>12, FaultMeans, NoFaultMeans DEF ExitFlush
    <2>2. buffer' \subseteq buffer
        BY <1>12, FlushKeeps, FailedFlushKeeps DEF ExitFlush, IInv
    <2>3. Phase = "cleanup" /\ Phase' = "cleanup"
        BY <1>12 DEF ExitFlush, Phase
    <2> QED BY <2>1, <2>2, <2>3, LooksLikeSettle DEF Promise!Next
<1>13. CASE ExitClose
    <2>1. (failed => failed') /\ buffer' \subseteq buffer
        BY <1>13, CloseKeeps DEF ExitClose, IInv
    <2>2. Phase = "cleanup" /\ Phase' = "cleanup"
        BY <1>13 DEF ExitClose, Phase
    <2> QED BY <2>1, <2>2, LooksLikeSettle DEF Promise!Next
<1>14. CASE Broadcast
    <2>1. (failed' <=> failed) /\ buffer' = {}
        BY <1>14, NoFaultMeans DEF Broadcast
    <2>2. buffer = {} \/ failed
        BY <1>14 DEF Broadcast, IInv, TypeOK, BufferAccounted
    <2>3. Phase = "cleanup" /\ Phase' = "stopped"
        BY <1>14 DEF Broadcast, Phase
    <2> QED BY <2>1, <2>2, <2>3, LooksLikeFinish DEF Promise!Next
<1>15. CASE Crash
    <2>1. Phase' = "down" /\ buffer' = {}
        BY <1>15 DEF Crash, Phase
    <2> QED BY <2>1, LooksLikeDeath DEF Promise!Next
<1> QED BY <1>1, <1>2, <1>3, <1>4, <1>5, <1>6, <1>7, <1>8, <1>9, <1>10, <1>11, <1>12, <1>13,
           <1>14, <1>15 DEF Next

(* KeepsPromise: the file output implements what the process relies on: it *)
(* broadcasts its exit last, and with an empty buffer unless a call has    *)
(* failed.                                                                 *)
THEOREM PromiseKept ==
    ASSUME Monotonic, FreshStamps
    PROVE  Spec => KeepsPromise
<1>1. Init => Promise!Init
    BY DEF Init, Promise!Init, Phase
<1>2. IInv /\ [Next]_vars => [Promise!Next]_(<<Phase, buffer, Phase # "down" /\ failed>>)
    BY IInvNext, PromiseStep
<1> QED BY <1>1, <1>2, Invariance, PTL DEF Spec, KeepsPromise, Promise!Spec, Promise!vars
=============================================================================
