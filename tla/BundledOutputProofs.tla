------------------------ MODULE BundledOutputProofs ------------------------
(***************************************************************************)
(* Proofs about BundledOutput for any number of events, bundles, uploads,  *)
(* crashes and faults.                                                     *)
(***************************************************************************)
EXTENDS BundledOutput, FiniteSetTheorems, TLAPS

(* Pick takes a member of any set that has one.                            *)
LEMMA PickIsMember ==
    ASSUME NEW S, S # {}
    PROVE  Pick(S) \in S
BY DEF Pick

(* A directory listing is a sequence of the files in the directory.        *)
LEMMA ListingIsSeq ==
    ASSUME NEW S, S \subseteq Stamp, NEW q \in Listings(S)
    PROVE  q \in Seq(Stamp) /\ {q[i] : i \in 1..Len(q)} \subseteq S
<1>1. Cardinality(S) \in Nat
    BY FS_Subset, FS_CardinalityType, BundleNames
<1>2. q \in [1..Cardinality(S) -> S]
    BY DEF Listings
<1>3. q \in Seq(S) /\ Len(q) = Cardinality(S)
    BY <1>1, <1>2
<1> QED BY <1>2, <1>3

(* TypeOK is kept by every step.                                           *)
LEMMA TypeInit == Init => TypeOK
<1> SUFFICES ASSUME Init PROVE TypeOK OBVIOUS
<1>1. stamp \in Stamp
    BY PickIsMember, BundleNames DEF Init
<1>2. tasks \in [Task -> TaskRecord]
    BY DEF Init, TaskRecord
<1> QED BY <1>1, <1>2 DEF Init, TypeOK, FileId

LEMMA TypeNext == TypeOK /\ [Next]_vars => TypeOK'
<1> SUFFICES ASSUME TypeOK, [Next]_vars PROVE TypeOK' OBVIOUS
<1> USE DEF TypeOK, dirVars, fileVars, worldVars, bounds, checkVars
<1>spawn. ASSUME NEW n \in Stamp, Spawn(n) PROVE tasks' \in [Task -> TaskRecord]
    <2>1. Pick(Free) \in Task
        BY <1>spawn, PickIsMember DEF Spawn, Free
    <2> QED BY <2>1, <1>spawn DEF Spawn, StartTask, TaskRecord
<1>phase. ASSUME NEW t \in Task, tasks[t].phase # "idle",
                 NEW p \in {"ok", "err", "bad", "remove"}, SetPhase(t, p)
          PROVE  tasks' \in [Task -> TaskRecord]
    BY <1>phase DEF SetPhase, TaskRecord, IdleTask
<1>idle. ASSUME NEW t \in Task, tasks' = [tasks EXCEPT ![t] = IdleTask]
         PROVE  tasks' \in [Task -> TaskRecord]
    BY <1>idle DEF IdleTask, TaskRecord
<1>die. ASSUME Die PROVE tasks' \in [Task -> TaskRecord] /\ stamp' \in Stamp
    BY <1>die, PickIsMember, BundleNames DEF Die, IdleTask, TaskRecord
<1>fresh. Fresh # {} => Pick(Fresh) \in Stamp
    BY PickIsMember DEF Fresh
<1>rename. ASSUME NEW n \in Stamp, RenameLive(n)
           PROVE  exists' \subseteq FileId /\ data' \in [FileId -> SUBSET Event] /\ framed' \subseteq FileId
    BY <1>rename DEF RenameLive, FileId
<1>flush. ASSUME FlushOk \/ FlushFails
          PROVE  /\ data' \in [FileId -> SUBSET Event] /\ framed' \subseteq FileId
                 /\ buffer' \subseteq Event /\ faults' \in Nat
    BY <1>flush DEF FlushOk, FlushFails, WriteTo, Fault
<1>1. CASE Start
    BY <1>1, <1>fresh DEF Start, FileId
<1>2. CASE StartRenames
    BY <1>2, <1>fresh, <1>rename DEF StartRenames
<1>17. CASE ListBundles
    <2>1. queue' \in Seq(Stamp)
        BY <1>17, ListingIsSeq DEF ListBundles, FileId
    <2> QED BY <1>17, <2>1 DEF ListBundles
<1>3. CASE Crash \/ Exit
    <2>1. Die /\ crashes' \in Nat
        BY <1>3 DEF Crash, Exit
    <2>2. queue' \in Seq(Stamp)
        BY <2>1 DEF Die
    <2> QED BY <2>1, <2>2, <1>die DEF Die
<1>4. CASE CheckRenames
    <2>1. exists' \subseteq FileId /\ data' \in [FileId -> SUBSET Event] /\ framed' \subseteq FileId
        BY <1>4, <1>fresh, <1>rename DEF CheckRenames
    <2>2. fd' \in FileId \cup {Closed}
        BY <1>4, <1>fresh DEF CheckRenames, FileId
    <2> QED BY <1>4, <2>1, <2>2 DEF CheckRenames
<1>18. CASE CheckCreates
    BY <1>18 DEF CheckCreates, FileId
<1>5. ASSUME NEW e \in Event, ReceiveMessage(e) PROVE TypeOK'
    BY <1>5 DEF ReceiveMessage, RollThen
<1>6. ASSUME NEW elapsed \in BOOLEAN, Tick(elapsed) PROVE TypeOK'
    BY <1>6 DEF Tick, RollThen
<1>7. CASE Hup \/ Term
    BY <1>7 DEF Hup, Term, RollThen
<1>8. CASE WriteMessage
    <2>1. size' \in Nat
        BY <1>8, BundleSizes DEF WriteMessage
    <2>2. data' \in [FileId -> SUBSET Event] /\ framed' \subseteq FileId /\ buffer' \subseteq Event /\ faults' \in Nat
        BY <1>8 DEF WriteMessage, WriteTo, Fault
    <2> QED BY <1>8, <2>1, <2>2 DEF WriteMessage, FailMessage
<1>9. CASE CloseFile \/ DeferredFlush \/ DeferredClose \/ SignalExit
    BY <1>9, <1>flush DEF CloseFile, DeferredFlush, DeferredClose, SignalExit
<1>10. CASE RenameFile
    BY <1>10, <1>rename DEF RenameFile
<1>11. CASE RenameFails
    BY <1>11 DEF RenameFails, FailRoll, FailMessage, Fault
<1>19. CASE RenameOld
    BY <1>19, <1>fresh, <1>rename DEF RenameOld
<1>12. CASE CreateFile
    <2>1. stamp' \in Stamp
        BY <1>12, <1>fresh DEF CreateFile
    <2> QED BY <1>12, <2>1, <1>spawn DEF CreateFile, FileId
<1>13. CASE CreateFails
    BY <1>13, <1>fresh DEF CreateFails, FailRoll, FailMessage, Fault
<1>14. CASE PopStraggler
    <2>1. queue # <<>> => Head(queue) \in Stamp /\ Tail(queue) \in Seq(Stamp)
        OBVIOUS
    <2> QED BY <1>14, <2>1, <1>spawn DEF PopStraggler
<1>15. ASSUME NEW t \in Task, UploadStep(t) PROVE TypeOK'
    <2>1. CASE OpenBundle(t)
        <3>1. tasks' \in [Task -> TaskRecord]
            BY <2>1 DEF OpenBundle, TaskRecord, IdleTask, FileId
        <3> QED BY <2>1, <3>1 DEF OpenBundle
    <2>2. CASE OpenFails(t)
        BY <2>2, <1>phase DEF OpenFails
    <2>3. CASE UploadOk(t) \/ UploadBad(t) \/ UploadErr(t)
        <3>1. tasks' \in [Task -> TaskRecord]
            BY <2>3, <1>phase DEF UploadOk, UploadBad, UploadErr
        <3>2. tasks[t].data \subseteq Event
            BY DEF TaskRecord, IdleTask
        <3>3. received' \subseteq Event /\ refusals' \in Nat
            BY <2>3, <3>2 DEF UploadOk, UploadBad, UploadErr, Sendable
        <3> QED BY <2>3, <3>1, <3>3 DEF UploadOk, UploadBad, UploadErr
    <2>4. CASE TakeOk(t)
        BY <2>4, <1>phase DEF TakeOk
    <2>5. CASE TakeErr(t) \/ TakeBad(t) \/ MoveFails(t)
        <3>1. tasks[t].name \in Stamp
            BY <2>5 DEF TakeErr, TakeBad, MoveFails, TaskRecord, IdleTask
        <3>2. tasks' \in [Task -> TaskRecord]
            BY <2>5, <1>idle DEF TakeErr, TakeBad, MoveFails
        <3>3. CASE TakeErr(t)
            BY <3>1, <3>2, <3>3 DEF TakeErr
        <3>4. CASE TakeBad(t)
            <4>1. /\ exists' \subseteq FileId /\ data' \in [FileId -> SUBSET Event]
                  /\ framed' \subseteq FileId /\ debug' \subseteq Event
                  /\ refused' \subseteq Stamp \X Nat /\ moved' \subseteq Stamp
                BY <3>1, <3>4 DEF TakeBad, Unlink, FileId
            <4> QED BY <3>2, <3>4, <4>1 DEF TakeBad
        <3>5. CASE MoveFails(t)
            BY <3>1, <3>2, <3>5 DEF MoveFails, Fault
        <3> QED BY <2>5, <3>3, <3>4, <3>5
    <2>6. CASE RemoveBundle(t) \/ RemoveFails(t)
        <3>1. tasks' \in [Task -> TaskRecord]
            BY <2>6, <1>idle DEF RemoveBundle, RemoveFails
        <3>2. exists' \subseteq FileId /\ data' \in [FileId -> SUBSET Event] /\ framed' \subseteq FileId
            BY <2>6 DEF RemoveBundle, RemoveFails, Unlink
        <3> QED BY <2>6, <3>1, <3>2 DEF RemoveBundle, RemoveFails, Fault
    <2> QED BY <1>15, <2>1, <2>2, <2>3, <2>4, <2>5, <2>6 DEF UploadStep, TakeResult
<1>16. CASE UNCHANGED vars
    BY <1>16 DEF vars
<1> QED
    BY <1>1, <1>2, <1>3, <1>4, <1>5, <1>6, <1>7, <1>8, <1>9, <1>10, <1>11, <1>12, <1>13, <1>14,
       <1>15, <1>16, <1>17, <1>18, <1>19 DEF Next, LoopStep, Over

THEOREM TypeCorrect == Spec => []TypeOK
BY TypeInit, TypeNext, PTL DEF Spec

-----------------------------------------------------------------------------
(* What the directory operations do to the events on disk.                 *)

LEMMA WriteAdds ==
    ASSUME TypeOK, NEW f \in FileId, NEW evs \in SUBSET Event, WriteTo(f, evs)
    PROVE  /\ OnDisk' = OnDisk \cup evs
           /\ \A g \in FileId : g # f => data'[g] = data[g]
BY DEF TypeOK, WriteTo, OnDisk

LEMMA RenameMoves ==
    ASSUME TypeOK, NEW n \in Stamp, RenameLive(n), data[n] = {}
    PROVE  /\ OnDisk' = OnDisk
           /\ data'[Live] = {}
           /\ \A g \in FileId \ {Live, n} : data'[g] = data[g]
<1>1. Live \in FileId /\ n \in FileId /\ n # Live
    BY BundleNames DEF FileId
<1>2. /\ data'[Live] = {} /\ data'[n] = data[Live]
      /\ \A g \in FileId \ {Live, n} : data'[g] = data[g]
    BY <1>1 DEF TypeOK, RenameLive
<1> QED BY <1>1, <1>2 DEF OnDisk

LEMMA UnlinkDrops ==
    ASSUME TypeOK, NEW n \in Stamp, Unlink(n)
    PROVE  /\ OnDisk' \subseteq OnDisk /\ OnDisk \subseteq OnDisk' \cup data[n]
           /\ \A g \in FileId : data'[g] \subseteq data[g]
           /\ data'[n] = {}
BY DEF TypeOK, Unlink, OnDisk, FileId

(* What the operations on goroutines do to the names being uploaded.       *)

LEMMA SpawnAdds ==
    ASSUME TypeOK, NEW n \in Stamp, Spawn(n)
    PROVE  /\ Uploading' \subseteq Uploading \cup {n}
           /\ \A t \in Task : tasks'[t] = tasks[t] \/ tasks'[t].phase = "start"
<1>1. Pick(Free) \in Task
    BY PickIsMember DEF Spawn, Free
<1>2. \A t \in Task : tasks'[t] = tasks[t] \/ tasks'[t] = StartTask(n)
    BY <1>1 DEF TypeOK, Spawn
<1>3. \A t \in Task : tasks'[t] = tasks[t] \/ (tasks'[t].phase = "start" /\ tasks'[t].name = n)
    BY <1>2 DEF StartTask
<1> QED BY <1>3 DEF Uploading, Free

LEMMA SetPhaseKeeps ==
    ASSUME TypeOK, NEW t \in Task, tasks[t].phase # "idle", NEW p, p # "idle", SetPhase(t, p)
    PROVE  /\ Uploading' = Uploading
           /\ tasks'[t].phase = p /\ tasks'[t].name = tasks[t].name /\ tasks'[t].data = tasks[t].data
           /\ \A u \in Task : u # t => tasks'[u] = tasks[u]
<1>1. /\ tasks'[t].phase = p /\ tasks'[t].name = tasks[t].name /\ tasks'[t].data = tasks[t].data
      /\ \A u \in Task : u # t => tasks'[u] = tasks[u]
    BY DEF TypeOK, SetPhase, TaskRecord, IdleTask
<1> QED BY <1>1 DEF Uploading, Free

LEMMA IdleRemoves ==
    ASSUME TypeOK, NEW t \in Task, tasks' = [tasks EXCEPT ![t] = IdleTask]
    PROVE  /\ Uploading' \subseteq Uploading
           /\ \A u \in Task : tasks'[u] = tasks[u] \/ tasks'[u].phase = "idle"
<1>1. \A u \in Task : tasks'[u] = tasks[u] \/ tasks'[u].phase = "idle"
    BY DEF TypeOK, IdleTask
<1> QED BY <1>1 DEF Uploading, Free

(* A goroutine that is not idle works on a bundle.                         *)
LEMMA ActiveName ==
    ASSUME TypeOK, NEW t \in Task, tasks[t].phase # "idle"
    PROVE  tasks[t].name \in Stamp /\ tasks[t].name \in Uploading
BY DEF TypeOK, TaskRecord, IdleTask, Uploading, Free

-----------------------------------------------------------------------------
(* The names stay apart.                                                   *)

LEMMA FreshIsUnused ==
    ASSUME Fresh # {}
    PROVE  /\ Pick(Fresh) \in Stamp \ exists
           /\ Pick(Fresh) \notin InQueue \cup Uploading
           /\ proc # "down" => Pick(Fresh) # stamp
BY PickIsMember DEF Fresh, InUse

(* The directory after the live file has been renamed.                     *)
LEMMA RenamedExists ==
    ASSUME TypeOK, NEW n \in Stamp, RenameLive(n)
    PROVE  /\ exists \ {Live} \subseteq exists' /\ exists' \subseteq exists \cup {n}
           /\ Live \notin exists' /\ n \in exists'
BY BundleNames DEF RenameLive

LEMMA NamesInit == Init => NamesApart
BY DEF Init, NamesApart, OpenFileApart, StampApart

(* What an upload goroutine and the taking of its result do to the names.  *)
LEMMA UploadStepNames ==
    ASSUME TypeOK, NEW t \in Task, UploadStep(t)
    PROVE  /\ InQueue' \cup Uploading' \subseteq InQueue \cup Uploading
           /\ exists' \subseteq exists /\ exists \subseteq exists' \cup Uploading
           /\ UNCHANGED <<proc, loop, after, msg, fd, buffer, size, stamp, accepted, checkVars>>
<1> USE DEF dirVars, fileVars, worldVars, bounds, checkVars
<1>1. CASE OpenBundle(t)
    <2>1. Uploading' = Uploading
        BY <1>1 DEF OpenBundle, TypeOK, Uploading, Free
    <2> QED BY <1>1, <2>1 DEF OpenBundle, InQueue
<1>2. CASE OpenFails(t) \/ UploadOk(t) \/ UploadBad(t) \/ UploadErr(t) \/ TakeOk(t)
    <2>1. Uploading' = Uploading
        BY <1>2, SetPhaseKeeps DEF OpenFails, UploadOk, UploadBad, UploadErr, TakeOk
    <2> QED BY <1>2, <2>1 DEF OpenFails, UploadOk, UploadBad, UploadErr, TakeOk, InQueue
<1>3. CASE TakeErr(t)
    <2>1. tasks[t].name \in Stamp /\ tasks[t].name \in Uploading
        BY <1>3, ActiveName DEF TakeErr
    <2>2. InQueue' \subseteq InQueue \cup {tasks[t].name}
        BY <1>3, <2>1 DEF TakeErr, TypeOK, InQueue
    <2>3. Uploading' \subseteq Uploading
        BY <1>3, IdleRemoves DEF TakeErr
    <2> QED BY <1>3, <2>1, <2>2, <2>3 DEF TakeErr
<1>4. CASE TakeBad(t) \/ RemoveBundle(t)
    <2>1. tasks[t].name \in Uploading
        BY <1>4, ActiveName DEF TakeBad, RemoveBundle
    <2>2. Uploading' \subseteq Uploading
        BY <1>4, IdleRemoves DEF TakeBad, RemoveBundle
    <2>3. exists' \subseteq exists /\ exists \subseteq exists' \cup {tasks[t].name}
        BY <1>4 DEF TakeBad, RemoveBundle, Unlink
    <2> QED BY <1>4, <2>1, <2>2, <2>3 DEF TakeBad, RemoveBundle, InQueue
<1>5. CASE RemoveFails(t) \/ MoveFails(t)
    <2>1. Uploading' \subseteq Uploading
        BY <1>5, IdleRemoves DEF RemoveFails, MoveFails
    <2> QED BY <1>5, <2>1 DEF RemoveFails, MoveFails, InQueue
<1> QED BY <1>1, <1>2, <1>3, <1>4, <1>5 DEF UploadStep, TakeResult

(* A bundle from the queue stays among the names in use.                   *)
LEMMA PopNames ==
    ASSUME TypeOK, PopStraggler
    PROVE  InQueue' \cup Uploading' \subseteq InQueue \cup Uploading
<1>1. CASE queue = <<>>
    BY <1>1 DEF PopStraggler, InQueue, Uploading, Free
<1>2. CASE queue # <<>>
    <2>1. Head(queue) \in InQueue /\ Head(queue) \in Stamp
        BY <1>2 DEF TypeOK, InQueue
    <2>2. InQueue' \subseteq InQueue
        BY <1>2 DEF PopStraggler, TypeOK, InQueue
    <2>3. Uploading' \subseteq Uploading \cup {Head(queue)}
        BY <1>2, <2>1, SpawnAdds DEF PopStraggler
    <2> QED BY <2>1, <2>2, <2>3
<1> QED BY <1>1, <1>2

(* A start queues what is in the directory, the live file excepted.        *)
LEMMA ListNames ==
    ASSUME TypeOK, ListBundles
    PROVE  InQueue' \subseteq exists \ {Live} /\ Uploading' = Uploading
<1>1. exists \ {Live} \subseteq Stamp
    BY DEF TypeOK, FileId
<1>2. InQueue' \subseteq exists \ {Live}
    BY <1>1, ListingIsSeq DEF ListBundles, InQueue
<1> QED BY <1>2 DEF ListBundles, Uploading, Free

(* The name of the live file is no bundle's.                               *)
LEMMA LiveIsNoBundle == TypeOK => Live \notin InQueue \cup Uploading /\ Live # stamp /\ Live # Closed
<1> SUFFICES ASSUME TypeOK PROVE Live \notin InQueue \cup Uploading /\ Live # stamp /\ Live # Closed
    OBVIOUS
<1>1. Live # stamp /\ Live # Closed
    BY BundleNames DEF TypeOK, Live, Closed
<1>2. Live \notin InQueue
    BY BundleNames DEF TypeOK, InQueue
<1>3. Live \notin Uploading
    BY BundleNames DEF TypeOK, TaskRecord, IdleTask, Uploading, Free
<1> QED BY <1>1, <1>2, <1>3

(* The open file stays there and out of the hands of the uploaders, also   *)
(* when two rollovers share a millisecond.                                 *)
LEMMA OpenFileNext ==
    ASSUME QuietStart, TypeOK, OpenFileApart, [Next]_vars
    PROVE  OpenFileApart'
<1> USE DEF OpenFileApart, dirVars, fileVars, worldVars, bounds, checkVars
<1>same. ASSUME UNCHANGED <<queue, tasks>> PROVE InQueue' = InQueue /\ Uploading' = Uploading
    BY <1>same DEF InQueue, Uploading, Free
<1>live. Live \notin InQueue \cup Uploading /\ Live # stamp /\ Live # Closed
    BY LiveIsNoBundle
<1>1. CASE Start
    BY <1>1, <1>live, <1>same DEF Start
<1>2. CASE StartRenames
    BY <1>2, <1>same DEF StartRenames
<1>17. CASE ListBundles
    BY <1>17, <1>live, ListNames DEF ListBundles
<1>3. CASE Crash \/ Exit
    BY <1>3 DEF Crash, Exit, Die
<1>4. CASE CheckRenames
    <2>1. loop # "list" /\ UNCHANGED <<proc, loop, queue, tasks>>
        BY <1>4 DEF CheckRenames
    <2>2. CASE Live \in exists
        <3>1. Pick(Fresh) \in Stamp \ exists /\ Pick(Fresh) \notin InQueue \cup Uploading
            BY <1>4, <2>2, FreshIsUnused DEF CheckRenames
        <3>2. exists \ {Live} \subseteq exists' /\ Pick(Fresh) \in exists'
            BY <1>4, <2>2, <3>1, RenamedExists DEF CheckRenames
        <3>3. fd' = IF fd = Live THEN Pick(Fresh) ELSE fd
            BY <1>4, <2>2 DEF CheckRenames
        <3> QED BY <1>same, <1>live, <2>1, <3>1, <3>2, <3>3
    <2>3. CASE Live \notin exists
        BY <1>4, <2>1, <2>3, <1>same DEF CheckRenames
    <2> QED BY <2>2, <2>3
<1>18. CASE CheckCreates
    BY <1>18, <1>same DEF CheckCreates
<1>5. ASSUME NEW e \in Event, ReceiveMessage(e) PROVE OpenFileApart'
    BY <1>5, <1>same DEF ReceiveMessage, RollThen, AtSelect
<1>6. ASSUME NEW elapsed \in BOOLEAN, Tick(elapsed) PROVE OpenFileApart'
    BY <1>6, <1>same DEF Tick, RollThen, AtSelect
<1>7. CASE Hup \/ Term
    BY <1>7, <1>same DEF Hup, Term, RollThen, AtSelect
<1>8. CASE WriteMessage
    BY <1>8, <1>same DEF WriteMessage, FailMessage
<1>9. CASE CloseFile \/ DeferredFlush \/ DeferredClose \/ SignalExit
    BY <1>9, <1>same DEF CloseFile, DeferredFlush, DeferredClose, SignalExit
<1>10. CASE RenameFile
    BY <1>10, <1>same DEF RenameFile
<1>11. CASE RenameFails
    BY <1>11, <1>same DEF RenameFails, FailRoll, FailMessage
<1>19. CASE RenameOld
    BY <1>19, <1>same DEF RenameOld
<1>12. CASE CreateFile
    <2>2. Live \in exists'
        BY <1>12 DEF CreateFile
    <2>3. InQueue' = InQueue /\ Uploading' \subseteq Uploading \cup {stamp}
        BY <1>12, SpawnAdds DEF CreateFile, InQueue, TypeOK
    <2>4. after \in {"select", "write", "pop"}
        BY DEF TypeOK
    <2> QED BY <1>12, <1>live, <2>2, <2>3, <2>4 DEF CreateFile
<1>13. CASE CreateFails
    BY <1>13, <1>same DEF CreateFails, FailRoll, FailMessage
<1>14. CASE PopStraggler
    BY <1>14, PopNames DEF PopStraggler
<1>15. ASSUME NEW t \in Task, UploadStep(t) PROVE OpenFileApart'
    BY <1>15, UploadStepNames
<1>16. CASE UNCHANGED vars
    BY <1>16, <1>same DEF vars
<1> QED
    BY <1>1, <1>2, <1>3, <1>4, <1>5, <1>6, <1>7, <1>8, <1>9, <1>10, <1>11, <1>12, <1>13, <1>14,
       <1>15, <1>16, <1>17, <1>18, <1>19 DEF Next, LoopStep, Over

LEMMA NamesNext ==
    ASSUME FreshStamps, QuietStart, TypeOK, NamesApart, [Next]_vars
    PROVE  NamesApart'
<1> SUFFICES StampApart' BY OpenFileNext DEF NamesApart
<1> USE DEF NamesApart, StampApart, dirVars, fileVars, worldVars, bounds, checkVars
<1>same. ASSUME UNCHANGED <<queue, tasks>> PROVE InQueue' = InQueue /\ Uploading' = Uploading
    BY <1>same DEF InQueue, Uploading, Free
<1>live. Live # stamp
    BY LiveIsNoBundle
<1>stamps. Live \notin Stamp
    BY BundleNames
<1>1. CASE Start
    <2>1. stamp' \in Stamp /\ stamp' \notin exists \cup InQueue \cup Uploading
        BY <1>1, PickIsMember DEF Start, Fresh, InUse
    <2> QED BY <1>1, <2>1, <1>same, <1>stamps DEF Start
<1>2. CASE StartRenames
    BY <1>2, <1>same DEF StartRenames
<1>17. CASE ListBundles
    BY <1>17, ListNames DEF ListBundles
<1>3. CASE Crash \/ Exit
    BY <1>3 DEF Crash, Exit, Die
<1>rename. ASSUME Fresh # {}, RenameLive(Pick(Fresh)), proc # "down", UNCHANGED stamp,
                 stamp \notin exists
          PROVE  stamp' \notin exists'
    <2>1. Pick(Fresh) \in Stamp /\ Pick(Fresh) # stamp
        BY <1>rename, FreshIsUnused
    <2> QED BY <1>rename, <2>1, RenamedExists
<1>4. CASE CheckRenames
    BY <1>4, <1>same, <1>rename DEF CheckRenames
<1>18. CASE CheckCreates
    BY <1>18, <1>same, <1>live DEF CheckCreates
<1>19. CASE RenameOld
    BY <1>19, <1>same DEF RenameOld
<1>5. ASSUME NEW e \in Event, ReceiveMessage(e) PROVE StampApart'
    BY <1>5, <1>same DEF ReceiveMessage, RollThen, AtSelect
<1>6. ASSUME NEW elapsed \in BOOLEAN, Tick(elapsed) PROVE StampApart'
    BY <1>6, <1>same DEF Tick, RollThen, AtSelect
<1>7. CASE Hup \/ Term
    BY <1>7, <1>same DEF Hup, Term, RollThen, AtSelect
<1>8. CASE WriteMessage
    BY <1>8, <1>same DEF WriteMessage, FailMessage
<1>9. CASE CloseFile \/ DeferredFlush \/ DeferredClose \/ SignalExit
    BY <1>9, <1>same DEF CloseFile, DeferredFlush, DeferredClose, SignalExit
<1>10. CASE RenameFile
    BY <1>10, <1>same DEF RenameFile
<1>11. CASE RenameFails
    BY <1>11, <1>same DEF RenameFails, FailRoll, FailMessage
<1>12. CASE CreateFile
    <2>1. stamp' \in Fresh
        BY <1>12, PickIsMember DEF CreateFile
    <2>2. InQueue' = InQueue /\ Uploading' \subseteq Uploading \cup {stamp}
        BY <1>12, SpawnAdds DEF CreateFile, InQueue, TypeOK
    <2>3. stamp' # stamp /\ stamp' \notin exists \cup InQueue \cup Uploading
        BY <1>12, <2>1 DEF CreateFile, Fresh, InUse
    <2>4. stamp' # Live /\ exists' = exists \cup {Live}
        BY <1>12, <2>1, <1>stamps DEF CreateFile, Fresh
    <2> QED BY <2>2, <2>3, <2>4
<1>13. CASE CreateFails
    <2>1. stamp' \notin exists \cup InQueue \cup Uploading
        BY <1>13, FreshIsUnused DEF CreateFails
    <2> QED BY <1>13, <1>same, <2>1 DEF CreateFails
<1>14. CASE PopStraggler
    BY <1>14, PopNames DEF PopStraggler
<1>15. ASSUME NEW t \in Task, UploadStep(t) PROVE StampApart'
    BY <1>15, UploadStepNames
<1>16. CASE UNCHANGED vars
    BY <1>16, <1>same DEF vars
<1> QED
    BY <1>1, <1>2, <1>3, <1>4, <1>5, <1>6, <1>7, <1>8, <1>9, <1>10, <1>11, <1>12, <1>13, <1>14,
       <1>15, <1>16, <1>17, <1>18, <1>19 DEF Next, LoopStep, Over

-----------------------------------------------------------------------------
(* What one step may do with events. Nothing that is held (on disk, by the *)
(* service, in the debug store) stops being held; what becomes held was in *)
(* memory before; what the service or the debug store gets was held.       *)
StepFacts ==
    /\ Held \subseteq Held' /\ Held' \subseteq Held \cup buffer \cup msg
    /\ received \subseteq received' /\ received' \subseteq Held
    /\ debug \subseteq debug' /\ debug' \subseteq debug \cup OnDisk
    /\ accepted \subseteq accepted' /\ accepted' \subseteq accepted \cup msg'
    /\ buffer' \cup msg' \subseteq buffer \cup msg \cup (accepted' \ accepted)

LEMMA FlushAdds ==
    ASSUME TypeOK, FlushOk \/ FlushFails
    PROVE  /\ OnDisk \subseteq OnDisk' /\ OnDisk' \subseteq OnDisk \cup buffer
           /\ buffer' \subseteq buffer
           /\ \A g \in FileId : g # fd => data'[g] = data[g]
<1>1. CASE fd = Closed
    BY <1>1 DEF FlushOk, FlushFails, OnDisk
<1>2. CASE fd # Closed
    <2>1. PICK evs \in SUBSET buffer : WriteTo(fd, evs)
        BY <1>2 DEF FlushOk, FlushFails
    <2>2. fd \in FileId /\ evs \in SUBSET Event
        BY <1>2, <2>1 DEF TypeOK
    <2>3. buffer' \subseteq buffer
        BY <1>2 DEF FlushOk, FlushFails
    <2> QED BY <2>1, <2>2, <2>3, WriteAdds
<1> QED BY <1>1, <1>2

LEMMA StepHolds ==
    ASSUME LongLine = {}, TypeOK, NamesApart, UploadsFaithful, [Next]_vars
    PROVE  StepFacts
<1> USE DEF StepFacts, Held, dirVars, fileVars, worldVars, bounds, checkVars
<1>disk. ASSUME UNCHANGED data PROVE OnDisk' = OnDisk
    BY <1>disk DEF OnDisk
<1>fresh. Fresh # {} => Pick(Fresh) \in Stamp /\ data[Pick(Fresh)] = {}
    BY FreshIsUnused DEF UploadsFaithful, FileId
<1>1. CASE Start \/ ListBundles \/ CheckCreates
    BY <1>1, <1>disk DEF Start, ListBundles, CheckCreates
<1>2. CASE StartRenames \/ RenameOld
    BY <1>2, <1>fresh, RenameMoves DEF StartRenames, RenameOld
<1>3. CASE Crash \/ Exit
    BY <1>3, <1>disk DEF Crash, Exit, Die
<1>4. CASE CheckRenames
    BY <1>4, <1>fresh, <1>disk, RenameMoves DEF CheckRenames
<1>5. ASSUME NEW e \in Event, ReceiveMessage(e) PROVE StepFacts
    BY <1>5, <1>disk DEF ReceiveMessage
<1>6. ASSUME NEW elapsed \in BOOLEAN, Tick(elapsed) PROVE StepFacts
    BY <1>6, <1>disk DEF Tick
<1>7. CASE Hup \/ Term
    BY <1>7, <1>disk DEF Hup, Term
<1>8. CASE WriteMessage
    <2>1. OnDisk \subseteq OnDisk' /\ OnDisk' \subseteq OnDisk \cup buffer \cup msg
        <3>1. CASE UNCHANGED data
            BY <3>1, <1>disk
        <3>2. CASE ~ UNCHANGED data
            <4>1. PICK evs \in SUBSET (buffer \cup msg) : fd # Closed /\ WriteTo(fd, evs)
                BY <1>8, <3>2 DEF WriteMessage
            <4>2. fd \in FileId /\ evs \in SUBSET Event
                BY <4>1 DEF TypeOK
            <4> QED BY <4>1, <4>2, WriteAdds
        <3> QED BY <3>1, <3>2
    <2>2. buffer' \subseteq buffer \cup msg /\ msg' = {}
        BY <1>8 DEF WriteMessage
    <2>3. UNCHANGED <<received, debug, accepted>>
        BY <1>8 DEF WriteMessage
    <2> QED BY <2>1, <2>2, <2>3
<1>9. CASE CloseFile \/ DeferredFlush \/ DeferredClose
    BY <1>9, FlushAdds DEF CloseFile, DeferredFlush, DeferredClose
<1>17. CASE SignalExit
    BY <1>17, <1>disk DEF SignalExit
<1>10. CASE RenameFile
    <2>1. data[stamp] = {} /\ stamp \in Stamp
        BY <1>10 DEF RenameFile, NamesApart, StampApart, UploadsFaithful, TypeOK, FileId
    <2> QED BY <1>10, <2>1, RenameMoves DEF RenameFile
<1>11. CASE RenameFails \/ CreateFails
    BY <1>11, <1>disk DEF RenameFails, CreateFails
<1>12. CASE CreateFile
    BY <1>12, <1>disk DEF CreateFile
<1>13. CASE PopStraggler
    BY <1>13, <1>disk DEF PopStraggler
<1>14. ASSUME NEW t \in Task, UploadStep(t) PROVE StepFacts
    <2>1. CASE OpenBundle(t) \/ OpenFails(t) \/ UploadBad(t) \/ TakeOk(t) \/ TakeErr(t)
               \/ MoveFails(t) \/ RemoveFails(t)
        BY <2>1, <1>disk DEF OpenBundle, OpenFails, UploadBad, TakeOk, TakeErr, MoveFails, RemoveFails
    <2>2. CASE UploadOk(t) \/ UploadErr(t)
        <3>1. tasks[t].data \subseteq Held
            BY <2>2 DEF UploadOk, UploadErr, UploadsFaithful
        <3>2. received \subseteq received' /\ received' \subseteq received \cup tasks[t].data
            BY <2>2 DEF UploadOk, UploadErr, Sendable
        <3> QED BY <2>2, <3>1, <3>2, <1>disk DEF UploadOk, UploadErr
    <2>3. CASE TakeBad(t)
        <3>1. tasks[t].name \in Stamp
            BY <2>3, ActiveName DEF TakeBad
        <3>2. data[tasks[t].name] \subseteq OnDisk
            BY <3>1 DEF OnDisk, FileId
        <3>3. /\ OnDisk' \subseteq OnDisk /\ OnDisk \subseteq OnDisk' \cup debug'
              /\ debug \subseteq debug' /\ debug' \subseteq debug \cup OnDisk
            BY <2>3, <3>1, <3>2, <1>disk, UnlinkDrops DEF TakeBad
        <3> QED BY <2>3, <3>3 DEF TakeBad
    <2>4. CASE RemoveBundle(t)
        <3>1. tasks[t].name \in Stamp
            BY <2>4, ActiveName DEF RemoveBundle
        <3>2. data[tasks[t].name] \subseteq received
            BY <2>4 DEF RemoveBundle, UploadsFaithful
        <3>3. OnDisk' \subseteq OnDisk /\ OnDisk \subseteq OnDisk' \cup received
            BY <2>4, <3>1, <3>2, UnlinkDrops DEF RemoveBundle
        <3> QED BY <2>4, <3>3 DEF RemoveBundle
    <2> QED BY <1>14, <2>1, <2>2, <2>3, <2>4 DEF UploadStep, TakeResult
<1>15. CASE UNCHANGED vars
    BY <1>15, <1>disk DEF vars
<1> QED
    BY <1>1, <1>2, <1>3, <1>4, <1>5, <1>6, <1>7, <1>8, <1>9, <1>10, <1>11, <1>12, <1>13, <1>14,
       <1>15, <1>17 DEF Next, LoopStep, Over

-----------------------------------------------------------------------------
(* Uploads stay faithful to the files.                                     *)

AbsentFilesEmpty == \A f \in FileId \ exists : data[f] = {}
TaskFaithful(t) ==
    /\ tasks[t].phase = "sending" => /\ data[tasks[t].name] \subseteq tasks[t].data
                                     /\ tasks[t].data \subseteq Held
    /\ tasks[t].phase \in {"ok", "remove"} => data[tasks[t].name] \subseteq received

LEMMA UploadsFaithfulParts ==
    UploadsFaithful <=> AbsentFilesEmpty /\ \A t \in Task : TaskFaithful(t)
BY DEF UploadsFaithful, AbsentFilesEmpty, TaskFaithful

LEMMA AbsentNext ==
    ASSUME FreshStamps, QuietStart, TypeOK, NamesApart, UploadsFaithful, [Next]_vars
    PROVE  AbsentFilesEmpty'
<1> USE DEF AbsentFilesEmpty, UploadsFaithful, dirVars, fileVars, worldVars, bounds, checkVars
<1>same. ASSUME UNCHANGED <<exists, data>> PROVE AbsentFilesEmpty'
    BY <1>same
<1>fresh. Fresh # {} => Pick(Fresh) \in Stamp /\ data[Pick(Fresh)] = {}
    BY FreshIsUnused DEF FileId
<1>rename. ASSUME NEW n \in Stamp, data[n] = {}, RenameLive(n) PROVE AbsentFilesEmpty'
    BY <1>rename, RenameMoves, RenamedExists
<1>unlink. ASSUME NEW n \in Stamp, Unlink(n) PROVE AbsentFilesEmpty'
    BY <1>unlink, UnlinkDrops DEF Unlink
<1>write. ASSUME NEW evs \in SUBSET Event, fd # Closed, UNCHANGED exists, WriteTo(fd, evs)
          PROVE  AbsentFilesEmpty'
    BY <1>write, WriteAdds DEF NamesApart, OpenFileApart, TypeOK
<1>1. CASE Start \/ CheckCreates \/ CreateFile
    BY <1>1 DEF Start, CheckCreates, CreateFile
<1>2. CASE StartRenames \/ RenameOld \/ CheckRenames
    BY <1>2, <1>fresh, <1>rename, <1>same DEF StartRenames, RenameOld, CheckRenames
<1>3. CASE RenameFile
    <2>1. data[stamp] = {} /\ stamp \in Stamp
        BY <1>3 DEF RenameFile, NamesApart, StampApart, TypeOK, FileId
    <2> QED BY <1>3, <2>1, <1>rename DEF RenameFile
<1>4. CASE WriteMessage
    BY <1>4, <1>same, <1>write DEF WriteMessage, TypeOK
<1>5. CASE CloseFile \/ DeferredFlush \/ DeferredClose \/ SignalExit
    BY <1>5, <1>same, <1>write DEF CloseFile, DeferredFlush, DeferredClose, SignalExit, FlushOk,
        FlushFails, TypeOK
<1>6. ASSUME NEW t \in Task, TakeBad(t) \/ RemoveBundle(t) PROVE AbsentFilesEmpty'
    <2>1. tasks[t].name \in Stamp
        BY <1>6, ActiveName DEF TakeBad, RemoveBundle
    <2> QED BY <1>6, <2>1, <1>same, <1>unlink DEF TakeBad, RemoveBundle
<1>7. CASE UNCHANGED <<exists, data>>
    BY <1>7, <1>same
<1> QED
    BY <1>1, <1>2, <1>3, <1>4, <1>5, <1>6, <1>7
    DEF Next, LoopStep, Over, UploadStep, TakeResult, Crash, Exit, Die, ReceiveMessage, Tick, Hup, Term,
        RenameFails, CreateFails, PopStraggler, ListBundles, OpenBundle, OpenFails, UploadOk,
        UploadBad, UploadErr, TakeOk, TakeErr, MoveFails, RemoveFails, vars

(* A task that does not move is not disturbed as long as its file gains    *)
(* nothing.                                                                *)
LEMMA StillFaithful ==
    ASSUME TypeOK, StepFacts, NEW t \in Task, TaskFaithful(t), tasks'[t] = tasks[t],
           \A n \in Uploading : data'[n] \subseteq data[n]
    PROVE  TaskFaithful(t)'
<1>1. tasks[t].phase # "idle" => data'[tasks[t].name] \subseteq data[tasks[t].name]
    BY ActiveName
<1> QED BY <1>1 DEF TaskFaithful, StepFacts

(* No step adds to a bundle that is being uploaded.                        *)
LEMMA UploadedFilesGainNothing ==
    ASSUME TypeOK, NamesApart, UploadsFaithful, [Next]_vars
    PROVE  \A n \in Uploading : data'[n] \subseteq data[n]
<1> USE DEF dirVars, fileVars, worldVars, bounds, checkVars
<1>names. Uploading \subseteq Stamp /\ Live \notin Uploading
    BY BundleNames DEF TypeOK, TaskRecord, IdleTask, Uploading, Free
<1>fresh. Fresh # {} => /\ Pick(Fresh) \in Stamp /\ data[Pick(Fresh)] = {}
                        /\ Pick(Fresh) \notin Uploading
    BY FreshIsUnused DEF FileId, UploadsFaithful
<1>2. CASE StartRenames \/ RenameOld \/ CheckRenames
    BY <1>2, <1>fresh, <1>names, RenameMoves DEF StartRenames, RenameOld, CheckRenames, FileId
<1>3. CASE RenameFile
    <2>1. data[stamp] = {} /\ stamp \in Stamp /\ stamp \notin Uploading
        BY <1>3 DEF RenameFile, NamesApart, StampApart, UploadsFaithful, TypeOK, FileId
    <2> QED BY <1>3, <2>1, <1>names, RenameMoves DEF RenameFile, FileId
<1>4. CASE WriteMessage
    <2>1. CASE UNCHANGED data
        BY <2>1
    <2>2. CASE ~ UNCHANGED data
        <3>1. PICK evs \in SUBSET (buffer \cup msg) : fd # Closed /\ WriteTo(fd, evs)
            BY <1>4, <2>2 DEF WriteMessage
        <3>2. fd \in FileId /\ evs \in SUBSET Event /\ fd \notin Uploading
            BY <3>1 DEF TypeOK, NamesApart, OpenFileApart
        <3> QED BY <3>1, <3>2, <1>names, WriteAdds DEF FileId
    <2> QED BY <2>1, <2>2
<1>5. CASE CloseFile \/ DeferredFlush \/ DeferredClose
    <2>1. FlushOk \/ FlushFails
        BY <1>5 DEF CloseFile, DeferredFlush, DeferredClose
    <2>2. CASE fd = Closed
        BY <2>1, <2>2 DEF FlushOk, FlushFails
    <2>3. CASE fd # Closed
        BY <2>1, <2>3, <1>names, FlushAdds DEF NamesApart, OpenFileApart, FileId
    <2> QED BY <2>2, <2>3
<1>6. ASSUME NEW t \in Task, TakeBad(t) \/ RemoveBundle(t)
      PROVE  \A n \in Uploading : data'[n] \subseteq data[n]
    <2>1. tasks[t].name \in Stamp
        BY <1>6, ActiveName DEF TakeBad, RemoveBundle
    <2> QED BY <1>6, <2>1, <1>names, UnlinkDrops DEF TakeBad, RemoveBundle, FileId
<1>7. CASE UNCHANGED data
    BY <1>7
<1> QED
    BY <1>2, <1>3, <1>4, <1>5, <1>6, <1>7
    DEF Next, LoopStep, Over, UploadStep, TakeResult, Start, ListBundles, CheckCreates, Crash, Exit,
        Die, ReceiveMessage, Tick, Hup, Term, RenameFails, CreateFile, CreateFails, PopStraggler,
        SignalExit, OpenBundle, OpenFails, UploadOk, UploadBad, UploadErr, TakeOk, TakeErr, MoveFails,
        RemoveFails, vars

LEMMA TasksNext ==
    ASSUME LongLine = {}, TypeOK, NamesApart, UploadsFaithful, [Next]_vars,
           NEW t \in Task
    PROVE  TaskFaithful(t)'
<1> USE DEF dirVars, fileVars, worldVars, bounds, checkVars
<1>pre. TaskFaithful(t) /\ StepFacts /\ \A n \in Uploading : data'[n] \subseteq data[n]
    BY UploadsFaithfulParts, StepHolds, UploadedFilesGainNothing
<1>still. CASE tasks'[t] = tasks[t]
    BY <1>pre, <1>still, StillFaithful
<1>reset. CASE tasks'[t].phase \in {"idle", "start", "err", "bad"}
    BY <1>reset DEF TaskFaithful
<1>1. CASE UploadStep(t)
    <2>1. CASE OpenBundle(t)
        <3>1. tasks[t].name \in Stamp
            BY <2>1, ActiveName DEF OpenBundle
        <3>2. /\ tasks'[t].name = tasks[t].name /\ tasks'[t].data = data[tasks[t].name]
              /\ tasks'[t].phase = "sending" \/ (tasks'[t].phase = "remove" /\ data[tasks[t].name] = {})
            BY <2>1 DEF OpenBundle, TypeOK
        <3>3. data' = data /\ data[tasks[t].name] \subseteq OnDisk
            BY <2>1, <3>1 DEF OpenBundle, OnDisk, FileId
        <3>4. OnDisk \subseteq Held'
            BY <1>pre DEF StepFacts, Held
        <3> QED BY <3>2, <3>3, <3>4 DEF TaskFaithful
    <2>2. CASE UploadOk(t)
        <3>1. tasks'[t].phase = "ok" /\ tasks'[t].name = tasks[t].name
            BY <2>2, SetPhaseKeeps DEF UploadOk
        <3>2. tasks[t].data \subseteq received' /\ data' = data
            BY <2>2 DEF UploadOk, Sendable
        <3> QED BY <2>2, <3>1, <3>2, <1>pre DEF TaskFaithful, UploadOk
    <2>3. CASE TakeOk(t)
        <3>1. tasks'[t].phase = "remove" /\ tasks'[t].name = tasks[t].name
            BY <2>3, SetPhaseKeeps DEF TakeOk
        <3> QED BY <2>3, <3>1, <1>pre DEF TaskFaithful, TakeOk
    <2>4. CASE OpenFails(t) \/ UploadBad(t) \/ UploadErr(t)
        BY <2>4, <1>reset, SetPhaseKeeps DEF OpenFails, UploadBad, UploadErr
    <2>5. CASE TakeErr(t) \/ TakeBad(t) \/ MoveFails(t) \/ RemoveBundle(t) \/ RemoveFails(t)
        BY <2>5, <1>reset DEF TakeErr, TakeBad, MoveFails, RemoveBundle, RemoveFails, TypeOK, IdleTask
    <2> QED BY <1>1, <2>1, <2>2, <2>3, <2>4, <2>5 DEF UploadStep, TakeResult
<1>2. ASSUME NEW u \in Task, UploadStep(u), u # t PROVE TaskFaithful(t)'
    <2>1. tasks'[t] = tasks[t]
        BY <1>2 DEF UploadStep, TakeResult, OpenBundle, OpenFails, UploadOk, UploadBad, UploadErr,
                    TakeOk, TakeErr, TakeBad, MoveFails, RemoveBundle, RemoveFails, SetPhase, TypeOK
    <2> QED BY <2>1, <1>still
<1>3. CASE CreateFile \/ PopStraggler
    <2>1. stamp \in Stamp /\ (queue # <<>> => Head(queue) \in Stamp)
        BY DEF TypeOK
    <2>2. tasks'[t] = tasks[t] \/ tasks'[t].phase = "start"
        BY <1>3, <2>1, SpawnAdds DEF CreateFile, PopStraggler
    <2> QED BY <2>2, <1>still, <1>reset
<1>4. CASE Crash \/ Exit
    BY <1>4, <1>reset DEF Crash, Exit, Die, IdleTask
<1>5. CASE UNCHANGED tasks
    BY <1>5, <1>still
<1> QED
    BY <1>1, <1>2, <1>3, <1>4, <1>5
    DEF Next, LoopStep, Over, Start, StartRenames, ListBundles, CheckRenames, CheckCreates,
        ReceiveMessage, Tick, Hup, Term, WriteMessage, CloseFile, RenameFile, RenameFails, RenameOld,
        CreateFails, DeferredFlush, DeferredClose, SignalExit, vars

-----------------------------------------------------------------------------
(* The theorems.                                                           *)

LEMMA IInvInit == Init => IInv
<1> SUFFICES ASSUME Init PROVE IInv OBVIOUS
<1>1. OnDisk = {}
    BY DEF Init, OnDisk
<1>2. UploadsFaithful
    BY <1>1 DEF Init, UploadsFaithful, IdleTask
<1>3. NothingInvented
    BY <1>1 DEF Init, NothingInvented, Held
<1> QED BY <1>2, <1>3, TypeInit, NamesInit DEF IInv

LEMMA IInvNext ==
    ASSUME FreshStamps, QuietStart, LongLine = {}, IInv, [Next]_vars
    PROVE  IInv' /\ StepFacts
<1> USE DEF IInv
<1>1. TypeOK' /\ NamesApart'
    BY TypeNext, NamesNext
<1>2. UploadsFaithful'
    BY AbsentNext, TasksNext DEF UploadsFaithful, AbsentFilesEmpty, TaskFaithful
<1>3. StepFacts
    BY StepHolds
<1>4. NothingInvented'
    BY <1>3 DEF NothingInvented, StepFacts
<1> QED BY <1>1, <1>2, <1>3, <1>4

(* IInv holds throughout.                                                  *)
THEOREM Invariance ==
    ASSUME FreshStamps, QuietStart, LongLine = {}
    PROVE  Spec => []IInv
<1>1. IInv /\ [Next]_vars => IInv'
    BY IInvNext
<1> QED BY <1>1, IInvInit, PTL DEF Spec

LEMMA CustodyStep ==
    ASSUME IInv, StepFacts
    PROVE  Custody!Next
<1>1. ASSUME NEW e \in Event
      PROVE  /\ StatusOf(e)' \in Custody!Status
             /\ StatusOf(e)' = StatusOf(e) \/ <<StatusOf(e), StatusOf(e)'>> \in Custody!Handover
    BY DEF StatusOf, Custody!Status, Custody!Handover, StepFacts, IInv, NothingInvented, Held
<1> QED BY <1>1 DEF Custody!Next

(* KeepsCustody, for any number of everything: no event that reached the   *)
(* disk is ever lost, and none is undelivered again.                       *)
THEOREM CustodyKept ==
    ASSUME FreshStamps, QuietStart, LongLine = {}
    PROVE  Spec => KeepsCustody
<1>1. Init => Custody!Init
    <2> SUFFICES ASSUME Init PROVE Custody!Init OBVIOUS
    <2>1. OnDisk = {}
        BY DEF Init, OnDisk
    <2>2. \A e \in Event : StatusOf(e) = "new"
        BY <2>1 DEF Init, StatusOf
    <2> QED BY <2>2 DEF Custody!Init
<1>2. IInv /\ [Next]_vars => [Custody!Next]_([e \in Event |-> StatusOf(e)])
    BY IInvNext, CustodyStep
<1> QED BY <1>1, <1>2, Invariance, PTL DEF Spec, KeepsCustody, Custody!Spec

-----------------------------------------------------------------------------
(* One uploader for each bundle, and none for a refused one.               *)

LEMMA ListingDistinct ==
    ASSUME NEW S, S \subseteq Stamp, NEW q \in Listings(S)
    PROVE  \A i, j \in 1..Len(q) : q[i] = q[j] => i = j
<1>1. Cardinality(S) \in Nat
    BY FS_Subset, FS_CardinalityType, BundleNames
<1>2. q \in [1..Cardinality(S) -> S] /\ \A i, j \in DOMAIN q : q[i] = q[j] => i = j
    BY DEF Listings
<1>3. q \in Seq(S) /\ Len(q) = Cardinality(S)
    BY <1>1, <1>2
<1> QED BY <1>2, <1>3

(* Spawn gives the bundle to one goroutine that was idle.                  *)
LEMMA SpawnOne ==
    ASSUME TypeOK, NEW n \in Stamp, Spawn(n), n \notin Uploading,
           \A t, u \in Task \ Free : tasks[t].name = tasks[u].name => t = u
    PROVE  (\A t, u \in Task \ Free : tasks[t].name = tasks[u].name => t = u)'
<1>1. PICK p \in Free : tasks' = [tasks EXCEPT ![p] = StartTask(n)]
    BY PickIsMember DEF Spawn
<1>2. \A t \in Task : t # p => tasks'[t] = tasks[t]
    BY <1>1 DEF TypeOK
<1>3. p \in Task /\ tasks'[p].name = n
    BY <1>1 DEF TypeOK, Free, StartTask
<1>4. Free' \subseteq Free /\ Free \subseteq Free' \cup {p}
    <2>1. tasks'[p].phase = "start"
        BY <1>1 DEF TypeOK, Free, StartTask
    <2> QED BY <1>2, <2>1 DEF Free
<1>5. \A t \in Task \ Free : tasks[t].name # n
    BY DEF Uploading
<1> QED BY <1>2, <1>3, <1>4, <1>5

(* A goroutine that ends has its bundle to itself, and leaves it.          *)
LEMMA IdleLeaves ==
    ASSUME TypeOK, NEW t \in Task, t \notin Free, tasks' = [tasks EXCEPT ![t] = IdleTask],
           \A v, u \in Task \ Free : tasks[v].name = tasks[u].name => v = u
    PROVE  /\ Uploading' = Uploading \ {tasks[t].name}
           /\ (\A v, u \in Task \ Free : tasks[v].name = tasks[u].name => v = u)'
<1>1. \A u \in Task : u # t => tasks'[u] = tasks[u]
    BY DEF TypeOK
<1>2. tasks'[t].phase = "idle"
    BY DEF TypeOK, IdleTask
<1>3. Free' = Free \cup {t}
    BY <1>1, <1>2 DEF Free
<1> QED BY <1>1, <1>3 DEF Uploading

(* A goroutine that goes on keeps its bundle.                              *)
LEMMA NamesStay ==
    ASSUME Free' = Free, \A u \in Task : tasks'[u].name = tasks[u].name, UNCHANGED queue,
           OneUploaderPerBundle
    PROVE  OneUploaderPerBundle' /\ Uploading' = Uploading /\ InQueue' = InQueue
BY DEF OneUploaderPerBundle, Uploading, InQueue

LEMMA UploadersNext ==
    ASSUME FreshStamps, QuietStart, UploaderInv, [Next]_vars
    PROVE  NothingLeft' /\ OneUploaderPerBundle'
<1> USE DEF UploaderInv
<1>same. ASSUME UNCHANGED <<queue, tasks>> PROVE OneUploaderPerBundle' /\ Free' = Free
    BY <1>same, NamesStay DEF Free
<1>1. CASE Start
    BY <1>1, <1>same DEF Start, NothingLeft
<1>10. CASE ListBundles
    <2>1. exists \ {Live} \subseteq Stamp
        BY DEF TypeOK, FileId
    <2>2. \A i, j \in 1..Len(queue') : queue'[i] = queue'[j] => i = j
        BY <1>10, <2>1, ListingDistinct DEF ListBundles
    <2>3. Free' = Task /\ Uploading' = {}
        BY <1>10 DEF ListBundles, NothingLeft, Free, Uploading
    <2> QED BY <1>10, <2>2, <2>3 DEF ListBundles, OneUploaderPerBundle, NothingLeft
<1>2. CASE Crash \/ Exit
    <2>1. queue' = <<>> /\ \A t \in Task : tasks'[t] = IdleTask
        BY <1>2 DEF Crash, Exit, Die
    <2>2. Free' = Task
        BY <2>1 DEF Free, IdleTask
    <2> QED BY <2>1, <2>2 DEF OneUploaderPerBundle, NothingLeft, InQueue, Uploading
<1>3. CASE CreateFile
    <2>1. stamp \in Stamp /\ stamp \notin InQueue \cup Uploading
        BY <1>3 DEF CreateFile, NamesApart, StampApart, TypeOK
    <2>2. Uploading' \subseteq Uploading \cup {stamp} /\ InQueue' = InQueue
        BY <1>3, <2>1, SpawnAdds DEF CreateFile, InQueue
    <2>3. (\A t, u \in Task \ Free : tasks[t].name = tasks[u].name => t = u)'
        BY <1>3, <2>1, SpawnOne DEF CreateFile, OneUploaderPerBundle
    <2> QED BY <1>3, <2>1, <2>2, <2>3 DEF CreateFile, OneUploaderPerBundle, NothingLeft, TypeOK
<1>4. CASE PopStraggler
    <2>1. CASE queue = <<>>
        BY <1>4, <2>1, <1>same DEF PopStraggler, NothingLeft
    <2>2. CASE queue # <<>>
        <3>1. Head(queue) \in Stamp /\ Head(queue) \in InQueue
            BY <2>2 DEF TypeOK, InQueue
        <3>7. queue' = Tail(queue) /\ queue \in Seq(Stamp)
            BY <1>4, <2>2 DEF PopStraggler, TypeOK
        <3>2. /\ queue' \in Seq(Stamp) /\ Len(queue') = Len(queue) - 1 /\ Len(queue) \in Nat
              /\ \A i \in 1..Len(queue') : i + 1 \in 1..Len(queue) /\ queue'[i] = queue[i + 1]
            BY <2>2, <3>7
        <3>3. \A i, j \in 1..Len(queue') : queue'[i] = queue'[j] => i = j
            <4> TAKE i, j \in 1..Len(queue')
            <4>1. i \in Nat /\ j \in Nat
                BY <3>2
            <4>2. queue[i + 1] = queue[j + 1] => i + 1 = j + 1
                BY <3>2 DEF OneUploaderPerBundle
            <4> QED BY <3>2, <4>1, <4>2
        <3>4. InQueue' \subseteq InQueue \ {Head(queue)}
            <4> SUFFICES ASSUME NEW i \in 1..Len(queue')
                         PROVE  queue'[i] \in InQueue /\ queue'[i] # Head(queue)
                BY DEF InQueue
            <4>1. i \in Nat \ {0} /\ i + 1 # 1 /\ 1 \in 1..Len(queue) /\ Head(queue) = queue[1]
                BY <2>2, <3>2 DEF TypeOK
            <4> QED BY <3>2, <4>1 DEF InQueue, OneUploaderPerBundle
        <3>5. Uploading' \subseteq Uploading \cup {Head(queue)}
            BY <1>4, <2>2, <3>1, SpawnAdds DEF PopStraggler
        <3>6. (\A t, u \in Task \ Free : tasks[t].name = tasks[u].name => t = u)'
            BY <1>4, <2>2, <3>1, SpawnOne DEF PopStraggler, OneUploaderPerBundle
        <3> QED BY <1>4, <3>1, <3>3, <3>4, <3>5, <3>6 DEF PopStraggler, OneUploaderPerBundle,
            NothingLeft
    <2> QED BY <2>1, <2>2
<1>5. ASSUME NEW t \in Task, UploadStep(t) PROVE NothingLeft' /\ OneUploaderPerBundle'
    <2>1. CASE OpenBundle(t)
        <3>1. \A u \in Task : tasks'[u].name = tasks[u].name /\ (tasks'[u].phase = "idle" <=> tasks[u].phase = "idle")
            BY <2>1 DEF OpenBundle, TypeOK
        <3>2. UNCHANGED <<queue, proc, loop>>
            BY <2>1 DEF OpenBundle
        <3> QED BY <3>1, <3>2, NamesStay DEF Free, NothingLeft
    <2>2. CASE OpenFails(t) \/ UploadOk(t) \/ UploadBad(t) \/ UploadErr(t) \/ TakeOk(t)
        <3>1. \A u \in Task : tasks'[u].name = tasks[u].name /\ (tasks'[u].phase = "idle" <=> tasks[u].phase = "idle")
            BY <2>2, SetPhaseKeeps DEF OpenFails, UploadOk, UploadBad, UploadErr, TakeOk
        <3>2. UNCHANGED <<queue, proc, loop>>
            BY <2>2 DEF OpenFails, UploadOk, UploadBad, UploadErr, TakeOk
        <3> QED BY <3>1, <3>2, NamesStay DEF Free, NothingLeft
    <2>3. CASE TakeErr(t)
        <3>1. t \notin Free /\ tasks[t].name \in Stamp /\ tasks[t].name \in Uploading
            BY <2>3, ActiveName DEF TakeErr, Free
        <3>2. /\ Uploading' = Uploading \ {tasks[t].name}
              /\ (\A v, u \in Task \ Free : tasks[v].name = tasks[u].name => v = u)'
            BY <2>3, <3>1, IdleLeaves DEF TakeErr, OneUploaderPerBundle
        <3>3. /\ Len(queue) \in Nat /\ Len(queue') = Len(queue) + 1
              /\ queue'[Len(queue) + 1] = tasks[t].name
              /\ \A i \in 1..Len(queue) : queue'[i] = queue[i]
            BY <2>3, <3>1 DEF TakeErr, TypeOK
        <3>4. InQueue' = InQueue \cup {tasks[t].name}
            BY <3>3 DEF InQueue
        <3>5. \A i, j \in 1..Len(queue') : queue'[i] = queue'[j] => i = j
            <4>1. \A i \in 1..Len(queue) : queue[i] # tasks[t].name
                BY <3>1 DEF OneUploaderPerBundle, InQueue
            <4> QED BY <3>3, <4>1 DEF OneUploaderPerBundle
        <3> QED BY <2>3, <3>2, <3>4, <3>5 DEF TakeErr, AtSelect, OneUploaderPerBundle, NothingLeft
    <2>4. CASE TakeBad(t) \/ MoveFails(t) \/ RemoveBundle(t) \/ RemoveFails(t)
        <3>1. /\ t \in Task \ Free /\ tasks' = [tasks EXCEPT ![t] = IdleTask]
              /\ UNCHANGED <<queue, proc, loop>>
            BY <2>4 DEF TakeBad, MoveFails, RemoveBundle, RemoveFails, Free
        <3>2. /\ Uploading' = Uploading \ {tasks[t].name}
              /\ (\A v, u \in Task \ Free : tasks[v].name = tasks[u].name => v = u)'
            BY <3>1, IdleLeaves DEF OneUploaderPerBundle
        <3> QED BY <3>1, <3>2 DEF InQueue, OneUploaderPerBundle, NothingLeft
    <2> QED BY <1>5, <2>1, <2>2, <2>3, <2>4 DEF UploadStep, TakeResult
<1>6. ASSUME NEW e \in Event, ReceiveMessage(e) PROVE NothingLeft' /\ OneUploaderPerBundle'
    BY <1>6, <1>same DEF ReceiveMessage, NothingLeft, RollThen, AtSelect
<1>7. ASSUME NEW elapsed \in BOOLEAN, Tick(elapsed) PROVE NothingLeft' /\ OneUploaderPerBundle'
    BY <1>7, <1>same DEF Tick, NothingLeft, RollThen, AtSelect
<1>8. CASE StartRenames \/ CheckRenames \/ CheckCreates \/ Hup \/ Term \/ WriteMessage \/ CloseFile
           \/ RenameFile \/ RenameFails \/ RenameOld \/ CreateFails \/ DeferredFlush \/ DeferredClose
           \/ SignalExit
    <2>1. UNCHANGED <<queue, tasks>>
        BY <1>8 DEF StartRenames, CheckRenames, CheckCreates, Hup, Term, WriteMessage, CloseFile,
            RenameFile, RenameFails, RenameOld, CreateFails, DeferredFlush, DeferredClose, SignalExit
    <2>2. (proc' = "down" => proc = "down") /\ (loop' = "list" => loop = "list")
        BY <1>8 DEF StartRenames, CheckRenames, CheckCreates, Hup, Term, WriteMessage, CloseFile,
            RenameFile, RenameFails, RenameOld, CreateFails, DeferredFlush, DeferredClose, SignalExit,
            RollThen, FailRoll, FailMessage
    <2> QED BY <2>1, <2>2, <1>same DEF NothingLeft
<1>9. CASE UNCHANGED vars
    BY <1>9, <1>same DEF vars, NothingLeft
<1> QED
    BY <1>1, <1>2, <1>3, <1>4, <1>5, <1>6, <1>7, <1>8, <1>9, <1>10 DEF Next, LoopStep, Over

LEMMA UploaderInvInit == Init => UploaderInv
<1> SUFFICES ASSUME Init PROVE NothingLeft /\ OneUploaderPerBundle
    BY TypeInit, NamesInit DEF UploaderInv
<1>1. queue = <<>> /\ Free = Task
    BY DEF Init, Free, IdleTask
<1> QED BY <1>1 DEF NothingLeft, OneUploaderPerBundle, InQueue, Uploading

LEMMA UploaderInvNext ==
    ASSUME FreshStamps, QuietStart, UploaderInv, [Next]_vars
    PROVE  UploaderInv'
BY UploadersNext, TypeNext, NamesNext DEF UploaderInv

(* OneUploaderPerBundle, when no two rollovers share a millisecond and no  *)
(* -check run meets a start half way: every bundle has one uploadOne or    *)
(* one place in the queue, however many are tried again.                   *)
THEOREM OneUploader ==
    ASSUME FreshStamps, QuietStart
    PROVE  Spec => []OneUploaderPerBundle
<1>1. UploaderInv /\ [Next]_vars => UploaderInv'
    BY UploaderInvNext
<1>2. UploaderInv => OneUploaderPerBundle
    BY DEF UploaderInv
<1> QED BY <1>1, <1>2, UploaderInvInit, PTL DEF Spec

(* OpenFileNotUploaded: also after a -check run has renamed the open file, *)
(* and also when two rollovers share a millisecond.                        *)
THEOREM OpenFileSafe ==
    ASSUME QuietStart
    PROVE  Spec => []OpenFileNotUploaded
<1>1. Init => TypeOK /\ OpenFileApart
    BY TypeInit, NamesInit DEF NamesApart
<1>2. TypeOK /\ OpenFileApart /\ [Next]_vars => (TypeOK /\ OpenFileApart)'
    BY TypeNext, OpenFileNext
<1>3. OpenFileApart => OpenFileNotUploaded
    BY DEF OpenFileApart, OpenFileNotUploaded
<1> QED BY <1>1, <1>2, <1>3, PTL DEF Spec

(* The bundles that RefusedNotRetried speaks about.                        *)
Banned == moved \cup {r[1] : r \in {q \in refused : q[2] = starts}}

LEMMA RefusedBanned == RefusedNotRetried <=> Banned \cap (InQueue \cup Uploading) = {}
BY DEF RefusedNotRetried, Banned

(* The debug store takes a refused bundle out of the directory, no later   *)
(* bundle gets the name of a refused one, and a start begins with none     *)
(* refused by the process it starts.                                       *)
LEMMA RefusedNext ==
    ASSUME FreshStamps, QuietStart, UploaderInv, RefusedGone, RefusedNotRetried, [Next]_vars
    PROVE  RefusedGone' /\ RefusedNotRetried'
<1> DEFINE Goal == RefusedGone' /\ RefusedNotRetried'
<1> USE DEF UploaderInv, RefusedGone, dirVars, fileVars, worldVars, bounds, checkVars
<1>banned. Banned \cap (InQueue \cup Uploading) = {} /\ Banned \subseteq RefusedNames
    BY RefusedBanned DEF Banned, RefusedNames
<1>type. Live \notin moved /\ stamp \in Stamp /\ starts \in Nat
    BY BundleNames DEF TypeOK
<1>fresh. Fresh # {} => Pick(Fresh) \in Stamp /\ Pick(Fresh) \notin RefusedNames
    BY PickIsMember DEF Fresh, InUse
<1>same. ASSUME UNCHANGED <<queue, tasks>> PROVE InQueue' \cup Uploading' = InQueue \cup Uploading
    BY <1>same DEF InQueue, Uploading, Free
<1>keeps. ASSUME UNCHANGED <<refused, moved, starts>>, exists' \cap moved = {},
                 (InQueue' \cup Uploading') \cap Banned = {},
                 proc' = "running" => stamp' \notin RefusedNames,
                 loop' = "list" => loop = "list"
          PROVE  Goal
    <2>1. Banned' = Banned /\ RefusedNames' = RefusedNames
        BY <1>keeps DEF Banned, RefusedNames
    <2>2. RefusedNotRetried'
        BY <1>keeps, <2>1, RefusedBanned DEF RefusedNotRetried, Banned
    <2> QED BY <1>keeps, <2>1, <2>2
<1>1. CASE Start
    <2>1. InQueue' \cup Uploading' = {}
        BY <1>1 DEF Start, NothingLeft, InQueue, Uploading, Free
    <2>2. /\ stamp' \notin RefusedNames /\ RefusedNames' = RefusedNames
          /\ exists' = exists \cup {Live} /\ starts' = starts + 1 /\ UNCHANGED <<refused, moved>>
        BY <1>1, <1>fresh DEF Start, RefusedNames
    <2>3. \A r \in refused : r[2] \in Nat
        BY DEF TypeOK
    <2>4. RefusedGone'
        BY <1>type, <2>2, <2>3
    <2> QED BY <2>1, <2>4 DEF RefusedNotRetried
<1>2. CASE StartRenames \/ RenameOld \/ CheckRenames
    <2>1. exists' \subseteq exists \/ (Fresh # {} /\ exists' \subseteq exists \cup {Pick(Fresh)})
        BY <1>2, <1>fresh, RenamedExists DEF StartRenames, RenameOld, CheckRenames
    <2>2. exists' \cap moved = {}
        BY <1>fresh, <2>1
    <2> QED BY <1>2, <1>banned, <1>same, <1>keeps, <2>2 DEF StartRenames, RenameOld, CheckRenames
<1>3. CASE Crash \/ Exit
    <2>1. queue' = <<>> /\ \A t \in Task : tasks'[t] = IdleTask
        BY <1>3 DEF Crash, Exit, Die
    <2>2. InQueue' = {} /\ Uploading' = {}
        BY <2>1 DEF InQueue, Uploading, Free, IdleTask
    <2> QED BY <1>3, <1>keeps, <2>2 DEF Crash, Exit, Die
<1>4. CASE CheckCreates
    BY <1>4, <1>banned, <1>same, <1>keeps, <1>type DEF CheckCreates
<1>14. CASE ListBundles
    <2>1. InQueue' \cup Uploading' \subseteq exists \ {Live}
        BY <1>14, ListNames DEF ListBundles, NothingLeft, Uploading
    <2>2. Banned = moved
        BY <1>14 DEF ListBundles, Banned, TypeOK
    <2> QED BY <1>14, <1>keeps, <2>1, <2>2 DEF ListBundles
<1>5. CASE RenameFile
    <2>1. exists' \subseteq exists \cup {stamp} /\ stamp \notin RefusedNames
        BY <1>5, <1>type, RenamedExists DEF RenameFile
    <2> QED BY <1>5, <1>banned, <1>same, <1>keeps, <2>1 DEF RenameFile
<1>6. CASE CreateFile
    <2>1. InQueue' = InQueue /\ Uploading' \subseteq Uploading \cup {stamp}
        BY <1>6, <1>type, SpawnAdds DEF CreateFile, InQueue
    <2>2. stamp \notin RefusedNames /\ stamp' \notin RefusedNames /\ after # "list"
        BY <1>6, <1>fresh DEF CreateFile, TypeOK
    <2> QED BY <1>6, <1>banned, <1>keeps, <1>type, <2>1, <2>2 DEF CreateFile
<1>7. CASE CreateFails
    BY <1>7, <1>banned, <1>same, <1>keeps, <1>fresh DEF CreateFails, FailRoll, FailMessage
<1>8. CASE PopStraggler
    BY <1>8, <1>banned, <1>keeps, PopNames DEF PopStraggler
<1>9. ASSUME NEW t \in Task, UploadStep(t) PROVE Goal
    <2>names. /\ InQueue' \cup Uploading' \subseteq InQueue \cup Uploading
              /\ exists' \subseteq exists /\ UNCHANGED <<proc, loop, stamp>>
        BY <1>9, UploadStepNames
    <2>1. CASE TakeBad(t) \/ MoveFails(t)
        <3>1. /\ t \in Task \ Free /\ tasks[t].name \in Uploading
              /\ tasks' = [tasks EXCEPT ![t] = IdleTask] /\ loop = "select" /\ proc = "running"
              /\ refused' = refused \cup {<<tasks[t].name, starts>>} /\ UNCHANGED <<queue, starts>>
            BY <2>1, ActiveName DEF TakeBad, MoveFails, Free, AtSelect
        <3>8. \A v, u \in Task \ Free : tasks[v].name = tasks[u].name => v = u
            BY DEF OneUploaderPerBundle
        <3>9. Uploading' = Uploading \ {tasks[t].name}
            BY <3>1, <3>8, IdleLeaves
        <3>2. Uploading' = Uploading \ {tasks[t].name} /\ InQueue' = InQueue
            BY <3>1, <3>9 DEF InQueue
        <3>3. tasks[t].name \notin InQueue /\ tasks[t].name # stamp
            BY <3>1 DEF OneUploaderPerBundle, NamesApart, StampApart
        <3>4. moved' = moved \/ (moved' = moved \cup {tasks[t].name} /\ tasks[t].name \notin exists')
            BY <2>1 DEF TakeBad, MoveFails, Unlink
        <3>5. /\ Banned' = Banned \cup {tasks[t].name}
              /\ RefusedNames' = RefusedNames \cup {tasks[t].name}
            <4> DEFINE new == <<tasks[t].name, starts>>
            <4>1. new[1] = tasks[t].name /\ new[2] = starts
                OBVIOUS
            <4>2. {r[1] : r \in {q \in refused' : q[2] = starts'}}
                    = {r[1] : r \in {q \in refused : q[2] = starts}} \cup {tasks[t].name}
                BY <3>1, <4>1
            <4>3. RefusedNames' = RefusedNames \cup {tasks[t].name}
                BY <3>1, <4>1 DEF RefusedNames
            <4> QED BY <3>4, <4>2, <4>3 DEF Banned
        <3>6. RefusedNotRetried'
            <4>1. Banned' \cap (InQueue' \cup Uploading') = {}
                BY <1>banned, <3>2, <3>3, <3>5
            <4> QED BY <4>1 DEF RefusedNotRetried, Banned
        <3>7. \A r \in refused' : r[2] <= starts'
            BY <1>type, <3>1
        <3> QED BY <2>names, <3>1, <3>3, <3>4, <3>5, <3>6, <3>7
    <2>2. CASE UNCHANGED <<refused, moved, starts>>
        BY <1>banned, <1>keeps, <2>names, <2>2
    <2> QED BY <1>9, <2>1, <2>2 DEF UploadStep, TakeResult, OpenBundle, OpenFails, UploadOk, UploadBad,
            UploadErr, TakeOk, TakeErr, RemoveBundle, RemoveFails
<1>10. ASSUME NEW e \in Event, ReceiveMessage(e) PROVE Goal
    BY <1>10, <1>banned, <1>same, <1>keeps DEF ReceiveMessage, RollThen, AtSelect
<1>11. ASSUME NEW elapsed \in BOOLEAN, Tick(elapsed) PROVE Goal
    BY <1>11, <1>banned, <1>same, <1>keeps DEF Tick, RollThen, AtSelect
<1>12. CASE Hup \/ Term \/ WriteMessage \/ CloseFile \/ RenameFails \/ DeferredFlush \/ DeferredClose
            \/ SignalExit
    BY <1>12, <1>banned, <1>same, <1>keeps DEF Hup, Term, RollThen, AtSelect, WriteMessage, CloseFile,
        RenameFails, FailRoll, FailMessage, DeferredFlush, DeferredClose, SignalExit
<1>13. CASE UNCHANGED vars
    BY <1>13, <1>banned, <1>same, <1>keeps DEF vars
<1> QED
    BY <1>1, <1>2, <1>3, <1>4, <1>5, <1>6, <1>7, <1>8, <1>9, <1>10, <1>11, <1>12, <1>13, <1>14
       DEF Next, LoopStep, Over

(* RefusedNotRetried, when no two rollovers share a millisecond and no     *)
(* -check run meets a start half way: also after a restart, which queues   *)
(* every file there is, and after moves to the debug store that failed.    *)
THEOREM RefusedOnce ==
    ASSUME FreshStamps, QuietStart
    PROVE  Spec => []RefusedNotRetried
<1>1. Init => UploaderInv /\ RefusedGone /\ RefusedNotRetried
    BY UploaderInvInit DEF Init, RefusedGone, RefusedNotRetried
<1>2. /\ UploaderInv /\ RefusedGone /\ RefusedNotRetried /\ [Next]_vars
      => (UploaderInv /\ RefusedGone /\ RefusedNotRetried)'
    BY UploaderInvNext, RefusedNext
<1> QED BY <1>1, <1>2, PTL DEF Spec

-----------------------------------------------------------------------------
(* What the loop has in hand, and when its file is closed.                 *)

LEMMA MessageNext ==
    ASSUME TypeOK, MessageInHand, [Next]_vars
    PROVE  MessageInHand'
<1> USE DEF MessageInHand, InHand, dirVars, fileVars, worldVars, bounds, checkVars
<1>1. CASE Start \/ StartRenames \/ Crash \/ Exit \/ CheckRenames \/ CheckCreates \/ UNCHANGED vars
    BY <1>1 DEF Start, StartRenames, Crash, Exit, Die, CheckRenames, CheckCreates, vars
<1>2. ASSUME NEW e \in Event, ReceiveMessage(e) PROVE MessageInHand'
    <2>1. proc' = "running" /\ msg' = {e} /\ (loop' = "write" \/ (loop' = "close" /\ after' = "write"))
        BY <1>2 DEF ReceiveMessage, RollThen, AtSelect
    <2> QED BY <2>1
<1>3. ASSUME NEW elapsed \in BOOLEAN, Tick(elapsed) PROVE MessageInHand'
    BY <1>3 DEF Tick, RollThen, AtSelect
<1>4. CASE Hup \/ Term \/ ListBundles \/ PopStraggler
    BY <1>4 DEF Hup, Term, RollThen, AtSelect, ListBundles, PopStraggler
<1>5. CASE WriteMessage \/ RenameFails \/ CreateFails
    <2>1. msg' = {} /\ loop' \in {"select", "defer"}
        BY <1>5 DEF WriteMessage, RenameFails, CreateFails, FailRoll, FailMessage
    <2> QED BY <2>1
<1>6. CASE CloseFile \/ RenameFile \/ RenameOld \/ CreateFile
    BY <1>6 DEF CloseFile, RenameFile, RenameOld, CreateFile, TypeOK
<1>7. CASE DeferredFlush \/ DeferredClose \/ SignalExit
    BY <1>7 DEF DeferredFlush, DeferredClose, SignalExit
<1>8. ASSUME NEW t \in Task, UploadStep(t) PROVE MessageInHand'
    <2>1. UNCHANGED <<proc, loop, after, msg>>
        BY <1>8, UploadStepNames
    <2> QED BY <2>1
<1> QED BY <1>1, <1>2, <1>3, <1>4, <1>5, <1>6, <1>7, <1>8 DEF Next, LoopStep, Over

(* As long as nothing fails, a closed file means an empty buffer; a        *)
(* rollover that a -check run has spoiled ends the loop.                   *)
LEMMA ClosedNext ==
    ASSUME TypeOK, proc = "running" => SpoolClosed, [Next]_vars, ~Fault, ~DryRun, proc' = "running"
    PROVE  SpoolClosed'
<1> USE DEF SpoolClosed, dirVars, fileVars, worldVars, bounds, checkVars
<1>fresh. Live # Closed /\ (Fresh # {} => Pick(Fresh) # Closed)
    BY PickIsMember, BundleNames DEF Fresh, Live, Closed
<1>1. CASE Start \/ CreateFile
    BY <1>1, <1>fresh DEF Start, CreateFile
<1>2. CASE StartRenames \/ Crash \/ Exit \/ CheckCreates \/ UNCHANGED vars
    BY <1>2 DEF StartRenames, Crash, Exit, Die, CheckCreates, vars
<1>3. CASE CheckRenames
    BY <1>3, <1>fresh DEF CheckRenames
<1>4. ASSUME NEW e \in Event, ReceiveMessage(e) PROVE SpoolClosed'
    BY <1>4 DEF ReceiveMessage, AtSelect
<1>5. ASSUME NEW elapsed \in BOOLEAN, Tick(elapsed) PROVE SpoolClosed'
    BY <1>5 DEF Tick, AtSelect
<1>6. CASE Hup \/ Term \/ ListBundles \/ PopStraggler \/ WriteMessage
    BY <1>6 DEF Hup, Term, AtSelect, ListBundles, PopStraggler, WriteMessage
<1>7. CASE CloseFile \/ DeferredFlush \/ DeferredClose
    BY <1>7 DEF CloseFile, DeferredFlush, DeferredClose, FlushOk, FlushFails
<1>8. CASE RenameFile \/ RenameOld
    BY <1>8 DEF RenameFile, RenameOld
<1>9. CASE RenameFails \/ CreateFails
    BY <1>9 DEF RenameFails, CreateFails, FailRoll, FailMessage
<1>10. CASE SignalExit
    BY <1>10 DEF SignalExit
<1>11. ASSUME NEW t \in Task, UploadStep(t) PROVE SpoolClosed'
    <2>1. UNCHANGED <<proc, loop, fd, buffer>>
        BY <1>11, UploadStepNames
    <2> QED BY <2>1
<1> QED BY <1>1, <1>2, <1>3, <1>4, <1>5, <1>6, <1>7, <1>8, <1>9, <1>10, <1>11 DEF Next, LoopStep, Over

-----------------------------------------------------------------------------
(* No bundle outgrows bundle_size_max but by the newlines in it.           *)

LEMMA OneMoreEvent ==
    ASSUME NEW S \in SUBSET Event, IsFiniteSet(S), NEW e \in Event
    PROVE  Bytes[S \cup {e}] <= Bytes[S] + EventLen[e]
<1>1. Bytes[S] \in Nat /\ EventLen[e] \in Nat
    BY BundleLengths, BundleSizes
<1>2. CASE e \in S
    <2>1. S \cup {e} = S
        BY <1>2
    <2>2. Bytes[S \cup {e}] = Bytes[S]
        BY <2>1
    <2> QED BY <1>1, <2>2
<1>3. CASE e \notin S
    BY <1>1, <1>3, BundleLengths
<1> QED BY <1>2, <1>3

LEMMA NoBytesNoEvents ==
    ASSUME NEW S \in SUBSET Event, IsFiniteSet(S), Bytes[S] <= 0
    PROVE  S = {}
<1> SUFFICES ASSUME NEW e \in S PROVE FALSE OBVIOUS
<1>1. S \ {e} \in SUBSET Event /\ IsFiniteSet(S \ {e}) /\ e \in Event \ (S \ {e})
    BY FS_Subset
<1>2. (S \ {e}) \cup {e} = S
    OBVIOUS
<1>3. Bytes[S] = Bytes[S \ {e}] + EventLen[e]
    BY <1>1, <1>2, BundleLengths
<1>4. Bytes[S \ {e}] \in Nat /\ EventLen[e] \in Nat \ {0}
    BY <1>1, BundleLengths, BundleSizes
<1> QED BY <1>3, <1>4

(* What the files and the memory hold comes from the channel, one event at *)
(* a time.                                                                 *)
LEMMA ContentsNext ==
    ASSUME TypeOK, OpenFileApart, ContentsFinite, [Next]_vars
    PROVE  ContentsFinite'
<1> USE DEF ContentsFinite, dirVars, fileVars, worldVars, bounds, checkVars
<1>live. Live \notin Stamp /\ Live \in FileId
    BY BundleNames DEF FileId
<1>same. ASSUME UNCHANGED <<exists, data, buffer, accepted>>, msg' \subseteq msg PROVE ContentsFinite'
    BY <1>same
<1>rename. ASSUME NEW n \in Stamp, RenameLive(n)
           PROVE  (\A f \in FileId : data'[f] \subseteq accepted) /\ data'[Live] = {}
    BY <1>rename, <1>live DEF RenameLive, TypeOK, FileId
<1>fresh. Fresh # {} => Pick(Fresh) \in Stamp
    BY PickIsMember DEF Fresh
<1>write. ASSUME NEW evs \in SUBSET (buffer \cup msg), fd # Closed, WriteTo(fd, evs), UNCHANGED exists
          PROVE  /\ \A f \in FileId : data'[f] \subseteq accepted
                 /\ Live \notin exists' => data'[Live] = {}
    BY <1>write, <1>live DEF WriteTo, TypeOK, OpenFileApart
<1>1. CASE Start \/ CheckCreates \/ CreateFile
    BY <1>1 DEF Start, CheckCreates, CreateFile
<1>2. CASE StartRenames \/ RenameOld \/ CheckRenames
    BY <1>2, <1>fresh, <1>rename DEF StartRenames, RenameOld, CheckRenames
<1>3. CASE RenameFile
    BY <1>3, <1>rename DEF RenameFile, TypeOK
<1>4. CASE Crash \/ Exit
    BY <1>4 DEF Crash, Exit, Die
<1>5. ASSUME NEW e \in Event, ReceiveMessage(e) PROVE ContentsFinite'
    <2>1. IsFiniteSet(accepted \cup {e})
        BY FS_AddElement
    <2> QED BY <1>5, <2>1 DEF ReceiveMessage
<1>6. CASE WriteMessage
    <2>1. buffer' \cup msg' \subseteq buffer \cup msg /\ UNCHANGED <<exists, accepted>>
        BY <1>6 DEF WriteMessage
    <2>2. \/ UNCHANGED data
          \/ \E evs \in SUBSET (buffer \cup msg) : fd # Closed /\ WriteTo(fd, evs)
        BY <1>6 DEF WriteMessage
    <2> QED BY <2>1, <2>2, <1>write
<1>7. CASE CloseFile \/ DeferredFlush \/ DeferredClose \/ SignalExit
    <2>1. buffer' \subseteq buffer /\ UNCHANGED <<exists, msg, accepted>>
        BY <1>7 DEF CloseFile, DeferredFlush, DeferredClose, SignalExit, FlushOk, FlushFails
    <2>2. \/ UNCHANGED data
          \/ \E evs \in SUBSET (buffer \cup msg) : fd # Closed /\ WriteTo(fd, evs)
        BY <1>7 DEF CloseFile, DeferredFlush, DeferredClose, SignalExit, FlushOk, FlushFails
    <2> QED BY <2>1, <2>2, <1>write
<1>8. ASSUME NEW t \in Task, UploadStep(t) PROVE ContentsFinite'
    <2>1. UNCHANGED <<buffer, msg, accepted>>
        BY <1>8, UploadStepNames
    <2>2. CASE UNCHANGED <<exists, data>>
        BY <2>1, <2>2
    <2>3. CASE TakeBad(t) \/ RemoveBundle(t)
        <3>1. tasks[t].name \in Stamp
            BY <2>3, ActiveName DEF TakeBad, RemoveBundle
        <3>2. CASE Unlink(tasks[t].name)
            BY <2>1, <3>1, <3>2, <1>live, UnlinkDrops DEF Unlink
        <3> QED BY <2>1, <2>2, <2>3, <3>2 DEF TakeBad, RemoveBundle
    <2> QED BY <1>8, <2>2, <2>3 DEF UploadStep, TakeResult, OpenBundle, OpenFails, UploadOk, UploadBad,
                  UploadErr, TakeOk, TakeErr, MoveFails, RemoveFails
<1>9. CASE UNCHANGED <<exists, data, buffer, accepted>> /\ msg' \subseteq msg
    BY <1>9, <1>same
<1> QED
    BY <1>1, <1>2, <1>3, <1>4, <1>5, <1>6, <1>7, <1>8, <1>9
    DEF Next, LoopStep, Over, ListBundles, Tick, Hup, Term, RenameFails, CreateFails, PopStraggler,
        vars

(* One step counts at most one fault, and only Start looks at the count.   *)
LEMMA FaultsCount ==
    ASSUME TypeOK, [Next]_vars
    PROVE  /\ faults' \in {faults, faults + 1}
           /\ base' = base \/ (Start /\ base' = faults /\ faults' = faults)
           /\ faults' = faults => ~Fault
<1>1. faults \in Nat
    BY DEF TypeOK
<1>2. faults' = faults => ~Fault
    BY <1>1 DEF Fault
<1>3. CASE Start
    BY <1>2, <1>3 DEF Start
<1>4. CASE ~Start
    BY <1>2, <1>4 DEF Next, LoopStep, Over, UploadStep, TakeResult, StartRenames, ListBundles, Crash,
        Exit, Die, CheckRenames, CheckCreates, ReceiveMessage, Tick, Hup, Term, WriteMessage, CloseFile,
        RenameFile, RenameFails, RenameOld, CreateFile, CreateFails, PopStraggler, DeferredFlush,
        DeferredClose, SignalExit, FlushOk, FlushFails, OpenBundle, OpenFails, UploadOk, UploadBad,
        UploadErr, TakeOk, TakeErr, TakeBad, MoveFails, RemoveBundle, RemoveFails, Fault, vars, bounds
<1> QED BY <1>3, <1>4

(* A step without a fault comes from a state without faults.               *)
LEMMA NoFaultBefore ==
    ASSUME TypeOK, [Next]_vars, faults' = 0
    PROVE  faults = 0 /\ ~Fault
<1>1. faults \in Nat
    BY DEF TypeOK
<1> QED BY <1>1, FaultsCount

(* What is in the open file and the buffer is a finite set of events.      *)
LEMMA WrittenFinite ==
    ASSUME TypeOK, ContentsFinite, fd # Closed
    PROVE  Written \in SUBSET Event /\ IsFiniteSet(Written) /\ Bytes[Written] \in Nat
<1>1. fd \in FileId
    BY DEF TypeOK
<1>2. Written \subseteq accepted /\ Written \in SUBSET Event
    BY <1>1 DEF Written, ContentsFinite, TypeOK
<1> QED BY <1>2, FS_Subset, BundleLengths DEF ContentsFinite

(* What SizeFollows says of a process that is running.                     *)
RunningSizes ==
    /\ SpoolClosed
    /\ fd # Closed => Bytes[Written] <= size /\ (size <= MaxFileSize \/ Single(Written))
    /\ loop = "write" => \A e \in msg : size + EventLen[e] <= MaxFileSize \/ Written = {}

(* A new live file is empty.                                               *)
LEMMA NewFileSizes ==
    ASSUME TypeOK, ContentsFinite, Live \notin exists, buffer = {},
           fd' = Live, size' = 0, UNCHANGED <<data, buffer>>
    PROVE  Written' = {} /\ Bytes[Written'] <= size' /\ size' <= MaxFileSize
<1>1. Written' = {}
    BY DEF Written, ContentsFinite
<1>2. Bytes[Written'] = 0
    BY <1>1, BundleLengths
<1> QED BY <1>1, <1>2, BundleSizes

(* A message is let in where there is room, after a rollover, or into an   *)
(* empty file.                                                             *)
LEMMA ReceiveSizes ==
    ASSUME TypeOK, ContentsFinite, RunningSizes, NEW e \in Event, ReceiveMessage(e)
    PROVE  loop' = "write" => size + EventLen[e] <= MaxFileSize \/ Written = {}
<1>1. loop = "select" /\ fd # Closed
    BY DEF ReceiveMessage, AtSelect, RunningSizes, SpoolClosed
<1>2. size = 0 => Written = {}
    BY <1>1, WrittenFinite, NoBytesNoEvents DEF RunningSizes
<1>3. size \in Nat /\ EventLen[e] \in Nat /\ MaxFileSize \in Nat
    BY BundleSizes DEF TypeOK
<1> QED BY <1>2, <1>3 DEF ReceiveMessage, RollThen

(* The message is added to what is written, and its length to the size.    *)
LEMMA WriteSizes ==
    ASSUME TypeOK, ContentsFinite, MessageInHand, RunningSizes, WriteMessage, ~Fault
    PROVE  /\ loop' = "select" /\ fd' = fd
           /\ Bytes[Written'] <= size' /\ (size' <= MaxFileSize \/ Single(Written'))
<1>1. loop = "write" /\ proc = "running" /\ fd # Closed /\ fd \in FileId
    BY DEF WriteMessage, RunningSizes, SpoolClosed, TypeOK
<1>2. PICK e \in Event : msg = {e}
    BY <1>1 DEF MessageInHand, InHand
<1>3. /\ loop' = "select" /\ size' = size + EventLen[e] /\ fd' = fd
      /\ size + EventLen[e] <= MaxFileSize \/ Written = {}
    BY <1>1, <1>2 DEF WriteMessage, RunningSizes
<1>4. Written' = Written \cup {e}
    <2>1. CASE buffer' = buffer \cup msg /\ UNCHANGED data
        BY <1>2, <1>3, <2>1 DEF Written
    <2>2. CASE WriteTo(fd, buffer \cup msg) /\ buffer' = {}
        BY <1>1, <1>2, <1>3, <2>2 DEF Written, WriteTo, TypeOK
    <2> QED BY <2>1, <2>2 DEF WriteMessage
<1>5. Bytes[Written] <= size /\ Bytes[Written] \in Nat /\ Written \in SUBSET Event /\ IsFiniteSet(Written)
    BY <1>1, WrittenFinite DEF RunningSizes
<1>6. size \in Nat /\ EventLen[e] \in Nat /\ MaxFileSize \in Nat
    BY BundleSizes DEF TypeOK
<1>7. Bytes[Written'] <= Bytes[Written] + EventLen[e] /\ Bytes[Written'] \in Nat
    BY <1>4, <1>5, OneMoreEvent, BundleLengths
<1>8. Bytes[Written'] <= size'
    BY <1>3, <1>5, <1>6, <1>7
<1>9. size' <= MaxFileSize \/ Single(Written')
    BY <1>3, <1>4 DEF Single
<1> QED BY <1>3, <1>8, <1>9

LEMMA SizesNext ==
    ASSUME QuietStart, SizeInv, [Next]_vars
    PROVE  SizeFollows'
<1> SUFFICES ASSUME faults' = 0, ~DryRun
             PROVE  /\ proc' # "running" => buffer' = {}
                    /\ proc' = "running" => RunningSizes'
    BY DEF SizeFollows, RunningSizes, Undisturbed
<1> USE DEF SizeInv, dirVars, fileVars, worldVars, bounds, checkVars
<1>nofault. faults = 0 /\ ~Fault
    BY NoFaultBefore
<1>down. proc # "running" => buffer = {}
    BY <1>nofault DEF SizeFollows, Undisturbed
<1>running. proc = "running" => RunningSizes
    BY <1>nofault DEF SizeFollows, RunningSizes, Undisturbed
<1>spool. proc' = "running" => SpoolClosed'
    BY <1>nofault, <1>running, ClosedNext DEF RunningSizes
<1> DEFINE Goal == (proc' # "running" => buffer' = {}) /\ (proc' = "running" => RunningSizes')
<1>live. Live # Closed /\ Live \notin Stamp
    BY BundleNames DEF Live, Closed
<1>same. ASSUME RunningSizes, SpoolClosed', fd' # Closed => fd # Closed /\ Written' = Written,
                size' = size,
                loop' = "write" => \/ loop = "write" /\ msg' = msg /\ fd' # Closed
                                   \/ Written' = {}
                                   \/ \A e \in msg' : size + EventLen[e] <= MaxFileSize
         PROVE  RunningSizes'
    <2>1. fd' # Closed => /\ Written' = Written /\ (Single(Written') <=> Single(Written))
                          /\ Bytes[Written'] = Bytes[Written]
        BY <1>same DEF Single
    <2> QED BY <1>same, <2>1 DEF RunningSizes
<1>empty. ASSUME SpoolClosed', fd' # Closed, Written' = {}, Bytes[Written'] <= size', size' <= MaxFileSize
          PROVE  RunningSizes'
    BY <1>empty DEF RunningSizes
<1>1. CASE Start \/ CreateFile
    <2>1. buffer = {} /\ Live \notin exists /\ fd' = Live /\ size' = 0 /\ UNCHANGED <<data, buffer>>
        BY <1>1, <1>down, <1>running DEF Start, CreateFile, RunningSizes, SpoolClosed, OpenFileApart
    <2>2. Written' = {} /\ Bytes[Written'] <= size' /\ size' <= MaxFileSize
        BY <2>1, NewFileSizes
    <2>3. proc' = "running"
        BY <1>1 DEF Start, CreateFile
    <2> QED BY <1>live, <1>spool, <1>empty, <2>1, <2>2, <2>3
<1>2. CASE StartRenames
    BY <1>2, <1>down DEF StartRenames
<1>3. CASE Crash \/ Exit
    BY <1>3 DEF Crash, Exit, Die
<1>4. CASE CheckRenames
    <2>1. UNCHANGED <<proc, loop, after, msg, buffer, size>>
        BY <1>4 DEF CheckRenames
    <2>2. fd' # Closed => fd # Closed
        BY <1>4, <1>live DEF CheckRenames
    <2>3. fd # Closed => data'[fd'] = data[fd]
        <3>1. fd # Closed => fd \in exists /\ fd \in FileId
            BY DEF OpenFileApart, TypeOK
        <3>2. CASE Live \in exists
            <4>1. Pick(Fresh) \in Stamp \ exists
                BY <1>4, <3>2, FreshIsUnused DEF CheckRenames
            <4>2. CASE fd = Live
                BY <1>4, <1>live, <3>1, <3>2, <4>1, <4>2 DEF CheckRenames, RenameLive, TypeOK, FileId
            <4>3. CASE fd # Live /\ fd # Closed
                BY <1>4, <1>live, <3>1, <3>2, <4>1, <4>3 DEF CheckRenames, RenameLive, TypeOK, FileId
            <4> QED BY <4>2, <4>3, <1>live
        <3>3. CASE Live \notin exists
            BY <1>4, <3>3 DEF CheckRenames
        <3> QED BY <3>2, <3>3
    <2>4. fd' # Closed => Written' = Written
        BY <2>1, <2>2, <2>3 DEF Written
    <2>5. CASE proc = "running"
        <3>1. loop' = "write" => fd' # Closed
            BY <1>spool, <2>1, <2>5 DEF SpoolClosed
        <3> QED BY <1>running, <1>spool, <1>same, <2>1, <2>2, <2>4, <2>5, <3>1
    <2> QED BY <1>down, <2>1, <2>5
<1>same2. ASSUME proc = "running", proc' = "running", UNCHANGED <<fd, data, buffer, size>>,
                 loop' = "write" => \/ loop = "write" /\ msg' = msg
                                    \/ \A e \in msg' : size + EventLen[e] <= MaxFileSize \/ Written = {}
          PROVE  Goal
    <2>1. Written' = Written
        BY <1>same2 DEF Written
    <2>2. loop' = "write" => fd' # Closed
        BY <1>spool, <1>same2 DEF SpoolClosed
    <2> QED BY <1>same2, <1>running, <1>spool, <1>same, <2>1, <2>2
<1>5. ASSUME NEW e \in Event, ReceiveMessage(e) PROVE Goal
    <2>1. loop' = "write" => size + EventLen[e] <= MaxFileSize \/ Written = {}
        BY <1>5, <1>running, ReceiveSizes DEF ReceiveMessage, AtSelect
    <2> QED BY <1>5, <1>same2, <2>1 DEF ReceiveMessage, AtSelect
<1>6. ASSUME NEW elapsed \in BOOLEAN, Tick(elapsed) PROVE Goal
    BY <1>6, <1>same2 DEF Tick, RollThen, AtSelect
<1>7. CASE Hup \/ Term \/ ListBundles \/ PopStraggler
    BY <1>7, <1>same2 DEF Hup, Term, RollThen, AtSelect, ListBundles, PopStraggler
<1>8. CASE WriteMessage
    <2>1. /\ loop' = "select" /\ proc' = "running"
          /\ Bytes[Written'] <= size' /\ (size' <= MaxFileSize \/ Single(Written'))
        BY <1>8, <1>running, <1>nofault, WriteSizes DEF WriteMessage
    <2> QED BY <1>spool, <2>1 DEF RunningSizes
<1>9. CASE CloseFile \/ DeferredClose
    <2>1. proc' = "running" /\ fd' = Closed /\ loop' # "write"
        BY <1>9 DEF CloseFile, DeferredClose
    <2> QED BY <1>spool, <2>1 DEF RunningSizes
<1>10. CASE DeferredFlush
    <2>1. proc = "running" /\ proc' = "running" /\ fd' = fd /\ size' = size /\ loop' # "write"
        BY <1>10 DEF DeferredFlush
    <2>2. fd # Closed => data'[fd] = data[fd] \cup buffer /\ buffer' = {}
        BY <1>10, <1>nofault DEF DeferredFlush, FlushOk, FlushFails, WriteTo, TypeOK
    <2>3. fd # Closed => Written' = Written
        BY <2>1, <2>2 DEF Written
    <2> QED BY <1>running, <1>spool, <1>same, <2>1, <2>3
<1>18. CASE SignalExit
    BY <1>18, <1>running DEF SignalExit, RunningSizes, SpoolClosed, OpenFileApart
<1>11. CASE RenameFile \/ RenameOld
    <2>1. proc' = "running" /\ fd' = Closed /\ loop' # "write"
        BY <1>11 DEF RenameFile, RenameOld, OpenFileApart
    <2> QED BY <1>spool, <2>1 DEF RenameFile, RenameOld, RunningSizes
<1>12. CASE RenameFails \/ CreateFails
    <2>1. proc' = "running" /\ fd' = Closed /\ loop' # "write"
        BY <1>12 DEF RenameFails, CreateFails, FailRoll, FailMessage, OpenFileApart
    <2> QED BY <1>spool, <2>1 DEF RunningSizes
<1>15. ASSUME NEW t \in Task, UploadStep(t) PROVE Goal
    <2>1. UNCHANGED <<proc, loop, after, msg, fd, buffer, size>>
        BY <1>15, UploadStepNames
    <2>2. fd # Closed => data'[fd] = data[fd]
        <3>1. CASE UNCHANGED data
            BY <3>1
        <3>2. CASE TakeBad(t) \/ RemoveBundle(t)
            <4>1. tasks[t].name \in Uploading
                BY <3>2, ActiveName DEF TakeBad, RemoveBundle
            <4>2. CASE Unlink(tasks[t].name)
                BY <4>1, <4>2 DEF Unlink, OpenFileApart, TypeOK
            <4> QED BY <3>1, <3>2, <4>2 DEF TakeBad, RemoveBundle
        <3> QED BY <1>15, <3>1, <3>2 DEF UploadStep, TakeResult, OpenBundle, OpenFails, UploadOk,
            UploadBad, UploadErr, TakeOk, TakeErr, MoveFails, RemoveFails
    <2>3. fd # Closed => Written' = Written
        BY <2>1, <2>2 DEF Written
    <2>4. CASE proc = "running"
        <3>1. loop' = "write" => fd' # Closed
            BY <1>spool, <2>1, <2>4 DEF SpoolClosed
        <3> QED BY <1>running, <1>spool, <1>same, <2>1, <2>3, <2>4, <3>1
    <2> QED BY <1>down, <2>1, <2>4
<1>19. CASE CheckCreates \/ UNCHANGED vars
    <2>1. UNCHANGED <<proc, loop, msg, fd, data, buffer, size>>
        BY <1>19 DEF CheckCreates, vars
    <2>2. CASE proc = "running"
        BY <1>same2, <2>1, <2>2
    <2> QED BY <1>down, <2>1, <2>2
<1> QED
    BY <1>1, <1>2, <1>3, <1>4, <1>5, <1>6, <1>7, <1>8, <1>9, <1>10, <1>11, <1>12,
       <1>15, <1>18, <1>19 DEF Next, LoopStep, Over

(* A file that keeps within the bound, and how BundleBounded says it.      *)
Bounded(evs) == Bytes[evs] <= MaxFileSize \/ Single(evs)

LEMMA NewlinesApart ==
    ASSUME NEW evs \in SUBSET Event, IsFiniteSet(evs)
    PROVE  Bounded(evs) <=>
               Bytes[evs] + Cardinality(evs) <= MaxFileSize + Cardinality(evs) \/ Single(evs)
<1>1. Bytes[evs] \in Nat /\ Cardinality(evs) \in Nat /\ MaxFileSize \in Nat
    BY FS_CardinalityType, BundleLengths, BundleSizes
<1> QED BY <1>1 DEF Bounded

(* A file only ever gets what another file had, or what SizeFollows bounds.*)
LEMMA BoundedNext ==
    ASSUME QuietStart, SizeInv, [Next]_vars
    PROVE  BundleBounded'
<1> USE DEF SizeInv, dirVars, fileVars, worldVars, bounds, checkVars
<1>next. TypeOK' /\ SizeFollows' /\ ContentsFinite'
    BY TypeNext, SizesNext, ContentsNext
<1> SUFFICES ASSUME faults' = 0, ~DryRun PROVE \A f \in FileId : Bounded(data'[f])
    <2>1. \A f \in FileId : data'[f] \in SUBSET Event /\ IsFiniteSet(data'[f])
        BY <1>next, FS_Subset DEF TypeOK, ContentsFinite
    <2> QED BY <2>1, NewlinesApart DEF BundleBounded, FileSize, Undisturbed
<1>nofault. faults = 0 /\ ~Fault
    BY NoFaultBefore
<1>now. \A f \in FileId : Bounded(data[f])
    <2>1. \A f \in FileId : data[f] \in SUBSET Event /\ IsFiniteSet(data[f])
        BY FS_Subset DEF TypeOK, ContentsFinite
    <2> QED BY <1>nofault, <2>1, NewlinesApart DEF BundleBounded, FileSize, Undisturbed
<1>empty. Bounded({})
    BY DEF Bounded, Single
<1>same. ASSUME UNCHANGED data PROVE \A f \in FileId : Bounded(data'[f])
    BY <1>same, <1>now
<1>rename. ASSUME NEW n \in Stamp, RenameLive(n) PROVE \A f \in FileId : Bounded(data'[f])
    <2>1. \A f \in FileId : data'[f] \in {{}} \cup {data[g] : g \in FileId}
        BY <1>rename DEF RenameLive, TypeOK, FileId
    <2> QED BY <2>1, <1>now, <1>empty
<1>fresh. Fresh # {} => Pick(Fresh) \in Stamp
    BY PickIsMember DEF Fresh
<1>1. CASE StartRenames \/ RenameOld \/ CheckRenames
    BY <1>1, <1>fresh, <1>rename, <1>same DEF StartRenames, RenameOld, CheckRenames
<1>2. CASE RenameFile
    BY <1>2, <1>rename DEF RenameFile, TypeOK
<1>3. CASE WriteMessage
    <2>1. CASE UNCHANGED data
        BY <2>1, <1>same
    <2>2. CASE fd # Closed /\ WriteTo(fd, buffer \cup msg) /\ buffer' = {}
        <3>1. fd \in FileId /\ UNCHANGED <<fd, proc>> /\ proc = "running"
            BY <1>3, <2>2 DEF WriteMessage, TypeOK
        <3>2. data'[fd] = Written' /\ \A f \in FileId : f # fd => data'[f] = data[f]
            BY <2>2, <3>1 DEF Written, WriteTo, TypeOK
        <3>3. Bytes[Written'] <= size' /\ (size' <= MaxFileSize \/ Single(Written'))
            BY <2>2, <3>1, <1>next DEF SizeFollows, Single, Undisturbed
        <3>4. Bytes[Written'] \in Nat /\ size' \in Nat /\ MaxFileSize \in Nat
            <4>1. data'[fd] \in SUBSET Event
                BY <3>1, <1>next DEF TypeOK
            <4> QED BY <3>2, <4>1, <1>next, BundleLengths, BundleSizes DEF TypeOK
        <3>5. Bounded(Written')
            BY <3>3, <3>4 DEF Bounded
        <3> QED BY <1>now, <3>2, <3>5
    <2> QED BY <1>3, <1>nofault, <2>1, <2>2 DEF WriteMessage
<1>4. CASE CloseFile \/ DeferredFlush \/ DeferredClose
    <2>1. CASE UNCHANGED data
        BY <2>1, <1>same
    <2>2. CASE fd # Closed /\ WriteTo(fd, buffer)
        <3>1. fd \in FileId /\ proc = "running"
            BY <1>4, <2>2 DEF CloseFile, DeferredFlush, DeferredClose, TypeOK
        <3>2. data'[fd] = Written /\ \A f \in FileId : f # fd => data'[f] = data[f]
            BY <2>2, <3>1 DEF Written, WriteTo, TypeOK
        <3>3. Bytes[Written] <= size /\ (size <= MaxFileSize \/ Single(Written))
            BY <2>2, <3>1, <1>nofault DEF SizeFollows, Undisturbed
        <3>4. Bytes[Written] \in Nat /\ size \in Nat /\ MaxFileSize \in Nat
            BY <2>2, WrittenFinite, BundleSizes DEF TypeOK
        <3>5. Bounded(Written)
            BY <3>3, <3>4 DEF Bounded
        <3> QED BY <1>now, <3>2, <3>5
    <2> QED BY <1>4, <1>nofault, <2>1, <2>2 DEF CloseFile, DeferredFlush, DeferredClose, FlushOk,
        FlushFails
<1>5. ASSUME NEW t \in Task, TakeBad(t) \/ RemoveBundle(t) PROVE \A f \in FileId : Bounded(data'[f])
    <2>1. CASE Unlink(tasks[t].name)
        BY <2>1, <1>now, <1>empty DEF Unlink, TypeOK
    <2> QED BY <1>5, <2>1, <1>same DEF TakeBad, RemoveBundle
<1>6. CASE UNCHANGED data
    BY <1>6, <1>same
<1> QED
    BY <1>1, <1>2, <1>3, <1>4, <1>5, <1>6
    DEF Next, LoopStep, Over, UploadStep, TakeResult, Start, ListBundles, CheckCreates, Crash, Exit,
        Die, SignalExit, ReceiveMessage, Tick, Hup, Term, RenameFails, CreateFile, CreateFails,
        PopStraggler, OpenBundle, OpenFails, UploadOk, UploadBad, UploadErr, TakeOk, TakeErr,
        MoveFails, RemoveFails, vars

(* BundleBounded, for any lengths and any bundle_size_max: through         *)
(* rollovers, crashes and restarts, -check runs that rename the open file  *)
(* or spoil a rollover, and rollovers that share a millisecond.            *)
THEOREM BundlesBounded ==
    ASSUME QuietStart
    PROVE  Spec => []BundleBounded
<1>1. Init => SizeInv
    <2> SUFFICES ASSUME Init PROVE SizeInv OBVIOUS
    <2>1. TypeOK /\ OpenFileApart
        BY TypeInit, NamesInit DEF NamesApart
    <2>2. ContentsFinite
        <3>1. IsFiniteSet(accepted)
            BY FS_EmptySet DEF Init
        <3>2. \A f \in FileId : data[f] = {}
            BY DEF Init
        <3> QED BY <3>1, <3>2 DEF Init, ContentsFinite, FileId
    <2>3. SizeFollows /\ MessageInHand
        BY DEF Init, SizeFollows, MessageInHand
    <2>4. BundleBounded
        BY DEF Init, BundleBounded, Single
    <2> QED BY <2>1, <2>2, <2>3, <2>4 DEF SizeInv
<1>2. SizeInv /\ [Next]_vars => SizeInv'
    BY TypeNext, OpenFileNext, ContentsNext, MessageNext, SizesNext, BoundedNext DEF SizeInv
<1>3. SizeInv => BundleBounded
    BY DEF SizeInv
<1> QED BY <1>1, <1>2, <1>3, PTL DEF Spec

-----------------------------------------------------------------------------
(* A stop without failures loses at most one event for each -check run.    *)

LEMMA LostIs == Lost = (accepted \ (Held \cup buffer \cup msg)) \cap Event
BY DEF Lost, StatusOf, Held

(* No event leaves the memory but to a file, except in a rollover that a   *)
(* -check run has spoiled.                                                 *)
LEMMA MemoryNext ==
    ASSUME TypeOK, OpenFileApart, MessageInHand, proc = "running" => SpoolClosed,
           proc # "running" => buffer = {}, ~Fault, ~Crash, ~RenameFails, ~CreateFails, [Next]_vars
    PROVE  buffer \cup msg \subseteq OnDisk' \cup buffer' \cup msg'
<1> USE DEF dirVars, fileVars, worldVars, bounds, checkVars
<1>1. ASSUME NEW e \in Event, ReceiveMessage(e) PROVE buffer \cup msg \subseteq buffer' \cup msg'
    BY <1>1 DEF ReceiveMessage, AtSelect, MessageInHand, InHand
<1>2. CASE Exit
    BY <1>2 DEF Exit, MessageInHand
<1>3. CASE WriteMessage
    <2>1. fd # Closed /\ fd \in FileId /\ buffer \cup msg \in SUBSET Event
        BY <1>3 DEF WriteMessage, SpoolClosed, TypeOK
    <2>2. buffer' = buffer \cup msg \/ WriteTo(fd, buffer \cup msg)
        BY <1>3 DEF WriteMessage
    <2> QED BY <2>1, <2>2, WriteAdds
<1>4. CASE CloseFile \/ DeferredFlush \/ DeferredClose
    <2>1. buffer' = buffer \/ (fd # Closed /\ WriteTo(fd, buffer))
        BY <1>4 DEF CloseFile, DeferredFlush, DeferredClose, FlushOk, FlushFails
    <2>2. fd # Closed => fd \in FileId
        BY DEF TypeOK
    <2>3. buffer \subseteq OnDisk' \cup buffer'
        BY <2>1, <2>2, WriteAdds DEF TypeOK
    <2> QED BY <1>4, <2>3 DEF CloseFile, DeferredFlush, DeferredClose
<1>5. ASSUME NEW t \in Task, UploadStep(t) PROVE buffer' = buffer /\ msg' = msg
    BY <1>5, UploadStepNames
<1>6. CASE UNCHANGED <<buffer, msg>>
    BY <1>6
<1> QED
    BY <1>1, <1>2, <1>3, <1>4, <1>5, <1>6
    DEF Next, LoopStep, Over, Start, StartRenames, CheckRenames, CheckCreates, ListBundles, Tick, Hup,
        Term, RenameFile, RenameOld, CreateFile, PopStraggler, SignalExit, vars

(* The live file as an upload step leaves it.                              *)
LEMMA UploadKeepsLive ==
    ASSUME TypeOK, NEW t \in Task, UploadStep(t)
    PROVE  Live \in exists <=> Live \in exists'
BY UploadStepNames, LiveIsNoBundle

(* Only a -check run prepares a spoiled rollover.                          *)
LEMMA MissNext ==
    ASSUME TypeOK, ~Fault, ~Crash, ~RenameFails, ~CreateFails, [Next]_vars,
           proc = "running" /\ loop = "create" /\ check = "renamed" => Live \notin exists
    PROVE  /\ MissAhead' => MissAhead \/ CheckRenames
           /\ proc' = "running" /\ loop' = "create" /\ check' = "renamed" => Live \notin exists'
<1> USE DEF MissAhead, dirVars, fileVars, worldVars, bounds, checkVars
<1>fresh. Fresh # {} => Pick(Fresh) \in Stamp
    BY PickIsMember DEF Fresh
<1>1. CASE Start \/ StartRenames \/ Exit
    BY <1>1 DEF Start, StartRenames, Exit, Die
<1>2. CASE CheckRenames
    <2>1. Live \notin exists'
        BY <1>2, <1>fresh, RenamedExists DEF CheckRenames
    <2> QED BY <1>2, <2>1
<1>3. CASE CheckCreates
    BY <1>3 DEF CheckCreates
<1>4. ASSUME NEW e \in Event, ReceiveMessage(e)
      PROVE  ~MissAhead => ~MissAhead' /\ loop' # "create"
    BY <1>4 DEF ReceiveMessage, RollThen, AtSelect
<1>5. ASSUME NEW elapsed \in BOOLEAN, Tick(elapsed)
      PROVE  (~MissAhead => ~MissAhead') /\ loop' # "create"
    BY <1>5 DEF Tick, RollThen, AtSelect
<1>6. CASE Hup \/ Term \/ ListBundles \/ PopStraggler \/ WriteMessage \/ CloseFile
    BY <1>6 DEF Hup, Term, RollThen, AtSelect, ListBundles, PopStraggler, WriteMessage, FailMessage,
        CloseFile
<1>7. CASE RenameFile
    <2>1. Live \notin exists' /\ loop' = "create"
        BY <1>7, RenamedExists DEF RenameFile, TypeOK
    <2> QED BY <2>1
<1>8. CASE RenameOld
    <2>1. Live \notin exists' /\ loop' = "recreate" /\ check' = check
        BY <1>8, <1>fresh, RenamedExists DEF RenameOld
    <2>2. check # "renamed"
        BY <1>8 DEF RenameOld
    <2> QED BY <2>1, <2>2
<1>9. CASE CreateFile
    <2>1. Live \in exists' /\ loop' \in {"select", "write", "pop"}
        BY <1>9 DEF CreateFile, TypeOK
    <2> QED BY <2>1
<1>10. CASE DeferredFlush \/ DeferredClose \/ SignalExit
    BY <1>10 DEF DeferredFlush, DeferredClose, SignalExit
<1>11. ASSUME NEW t \in Task, UploadStep(t)
       PROVE  UNCHANGED <<proc, loop, check>> /\ (Live \in exists <=> Live \in exists')
    BY <1>11, UploadStepNames, UploadKeepsLive
<1>12. CASE UNCHANGED vars
    BY <1>12 DEF vars
<1>13. ASSUME NEW e \in Event, ReceiveMessage(e) PROVE loop' # "create"
    BY <1>13 DEF ReceiveMessage, RollThen
<1> QED
    BY <1>1, <1>2, <1>3, <1>4, <1>5, <1>6, <1>7, <1>8, <1>9, <1>10, <1>11, <1>12, <1>13
    DEF Next, LoopStep, Over

LEMMA CleanNext ==
    ASSUME FreshStamps, QuietStart, LongLine = {}, IInv, ContentsFinite, MessageInHand, CleanInv,
           [Next]_vars
    PROVE  CleanInv'
<1> USE DEF dirVars, fileVars, worldVars, bounds, checkVars
<1> SUFFICES ASSUME crashes' = 0, faults' = 0, ~DryRun
             PROVE  /\ Cardinality(Lost') + (IF MissAhead' THEN 1 ELSE 0) <= checks'
                    /\ proc' # "running" => buffer' = {}
                    /\ proc' = "running" => SpoolClosed'
                    /\ proc' = "running" /\ loop' = "create" /\ check' = "renamed" => Live \notin exists'
    BY DEF CleanInv, Undisturbed
<1>step. StepFacts /\ TypeOK /\ TypeOK' /\ OpenFileApart
    BY IInvNext DEF IInv, NamesApart
<1>nofault. faults = 0 /\ ~Fault
    BY <1>step, NoFaultBefore
<1>nocrash. crashes = 0 /\ ~Crash
    <2>1. crashes \in Nat
        BY <1>step DEF TypeOK
    <2>2. crashes' = crashes \/ Crash
        BY DEF Next, LoopStep, Over, UploadStep, TakeResult, Start, StartRenames, ListBundles, Exit,
            CheckRenames, CheckCreates, ReceiveMessage, Tick, Hup, Term, WriteMessage, CloseFile,
            RenameFile, RenameFails, RenameOld, CreateFile, CreateFails, PopStraggler, DeferredFlush,
            DeferredClose, SignalExit, OpenBundle, OpenFails, UploadOk, UploadBad, UploadErr, TakeOk,
            TakeErr, TakeBad, MoveFails, RemoveBundle, RemoveFails, vars
    <2> QED BY <2>1, <2>2 DEF Crash
<1>now. /\ Cardinality(Lost) + (IF MissAhead THEN 1 ELSE 0) <= checks
        /\ proc # "running" => buffer = {}
        /\ proc = "running" => SpoolClosed
        /\ proc = "running" /\ loop = "create" /\ check = "renamed" => Live \notin exists
    BY <1>nofault, <1>nocrash DEF CleanInv, Undisturbed
<1>lost. IsFiniteSet(Lost) /\ Cardinality(Lost) \in Nat /\ checks \in Nat
    <2>1. Lost \subseteq accepted
        BY LostIs
    <2> QED BY <1>step, <2>1, FS_Subset, FS_CardinalityType DEF ContentsFinite, TypeOK
<1>1. proc' = "running" => SpoolClosed'
    BY <1>step, <1>nofault, <1>now, ClosedNext
<1>2. proc' # "running" => buffer' = {}
    <2>1. CASE SignalExit
        BY <2>1, <1>now, <1>step DEF SignalExit, SpoolClosed, OpenFileApart
    <2>2. CASE Start \/ StartRenames \/ Crash \/ Exit \/ CheckRenames \/ CheckCreates \/ UNCHANGED vars
        BY <2>2, <1>now DEF Start, StartRenames, Crash, Exit, Die, CheckRenames, CheckCreates, vars
    <2>3. ASSUME NEW t \in Task, UploadStep(t) PROVE UNCHANGED <<proc, buffer>>
        BY <2>3, <1>step, UploadStepNames
    <2> QED BY <1>now, <2>1, <2>2, <2>3 DEF Next, LoopStep, Over, ReceiveMessage, Tick, Hup, Term,
            AtSelect, ListBundles, WriteMessage, CloseFile, RenameFile, RenameFails, RenameOld,
            CreateFile, CreateFails, PopStraggler, DeferredFlush, DeferredClose
<1>3. CASE RenameFails \/ CreateFails
    <2>1. MissAhead
        BY <1>3, <1>nofault, <1>step DEF RenameFails, CreateFails, MissAhead, TypeOK
    <2>2. /\ loop' = "defer" /\ checks' = checks
          /\ UNCHANGED <<accepted, buffer, received, debug, data>>
        BY <1>3 DEF RenameFails, CreateFails, FailRoll, FailMessage
    <2>3. Held' = Held
        BY <2>2 DEF Held, OnDisk
    <2>4. PICK e : msg \subseteq {e}
        BY DEF MessageInHand
    <2>5. Lost' \subseteq Lost \cup {e}
        BY <2>2, <2>3, <2>4, LostIs DEF Lost, StatusOf, Held
    <2>6. IsFiniteSet(Lost \cup {e}) /\ Cardinality(Lost \cup {e}) <= Cardinality(Lost) + 1
        BY <1>lost, FS_AddElement
    <2>7. Cardinality(Lost \cup {e}) \in Nat /\ Cardinality(Lost') \in Nat
        BY <2>5, <2>6, FS_Subset, FS_CardinalityType
    <2>8. Cardinality(Lost') <= Cardinality(Lost) + 1
        BY <1>lost, <2>5, <2>6, <2>7, FS_Subset
    <2>9. ~MissAhead' /\ loop' # "create"
        BY <2>2 DEF MissAhead
    <2> QED BY <1>1, <1>2, <1>now, <1>lost, <2>1, <2>2, <2>7, <2>8, <2>9
<1>4. CASE ~RenameFails /\ ~CreateFails
    <2>1. buffer \cup msg \subseteq OnDisk' \cup buffer' \cup msg'
        BY <1>4, <1>step, <1>nofault, <1>nocrash, <1>now, MemoryNext
    <2>2. Lost' \subseteq Lost
        BY <1>step, <2>1 DEF StepFacts, Lost, StatusOf, Held
    <2>3. Cardinality(Lost') <= Cardinality(Lost) /\ Cardinality(Lost') \in Nat
        BY <1>lost, <2>2, FS_Subset, FS_CardinalityType
    <2>4. /\ MissAhead' => MissAhead \/ CheckRenames
          /\ proc' = "running" /\ loop' = "create" /\ check' = "renamed" => Live \notin exists'
        BY <1>4, <1>step, <1>nofault, <1>nocrash, <1>now, MissNext
    <2>5. checks' = checks \/ checks' = checks + 1
        BY DEF Next, LoopStep, Over, UploadStep, TakeResult, Start, StartRenames, ListBundles, Crash,
            Exit, Die, CheckRenames, CheckCreates, ReceiveMessage, Tick, Hup, Term, WriteMessage,
            CloseFile, RenameFile, RenameFails, RenameOld, CreateFile, CreateFails, PopStraggler,
            DeferredFlush, DeferredClose, SignalExit, OpenBundle, OpenFails, UploadOk, UploadBad,
            UploadErr, TakeOk, TakeErr, TakeBad, MoveFails, RemoveBundle, RemoveFails, vars
    <2>6. CheckRenames => checks' = checks + 1
        BY DEF CheckRenames
    <2> QED BY <1>1, <1>2, <1>now, <1>lost, <2>3, <2>4, <2>5, <2>6
<1> QED BY <1>3, <1>4

(* LostOnlyToChecks, for any number of events, bundles, restarts and       *)
(* -check runs: as long as nothing was killed and no file system call      *)
(* failed, every event taken from the channel is in memory, on disk,       *)
(* delivered or set aside, but for one for each -check run at most.        *)
THEOREM CleanStop ==
    ASSUME FreshStamps, QuietStart, LongLine = {}
    PROVE  Spec => []LostOnlyToChecks
<1> DEFINE Inv == IInv /\ ContentsFinite /\ MessageInHand /\ CleanInv
<1>1. Init => Inv
    <2> SUFFICES ASSUME Init PROVE Inv OBVIOUS
    <2>1. IInv
        BY IInvInit
    <2>2. IsFiniteSet(accepted) /\ \A f \in FileId : data[f] = {}
        BY FS_EmptySet DEF Init
    <2>3. ContentsFinite /\ MessageInHand
        BY <2>2 DEF Init, ContentsFinite, MessageInHand, FileId
    <2>4. Lost = {}
        BY LostIs DEF Init
    <2>5. Cardinality(Lost) = 0
        BY <2>4, FS_EmptySet
    <2>6. CleanInv
        BY <2>5 DEF Init, CleanInv, MissAhead
    <2> QED BY <2>1, <2>3, <2>6
<1>2. Inv /\ [Next]_vars => Inv'
    BY IInvNext, ContentsNext, MessageNext, CleanNext DEF IInv, NamesApart
<1>3. Inv => LostOnlyToChecks
    <2> SUFFICES ASSUME Inv, crashes = 0, Undisturbed PROVE Cardinality(Lost) <= checks
        BY DEF LostOnlyToChecks
    <2>1. Lost \subseteq accepted
        BY LostIs
    <2>2. Cardinality(Lost) \in Nat /\ checks \in Nat
        BY <2>1, FS_Subset, FS_CardinalityType DEF ContentsFinite, IInv, TypeOK
    <2> QED BY <2>2 DEF CleanInv
<1> QED BY <1>1, <1>2, <1>3, PTL DEF Spec

-----------------------------------------------------------------------------
(* The promise to the process                                              *)

LEMMA CleanProcessNext ==
    ASSUME ~DryRun, TypeOK, OpenFileApart, CleanProcess, [Next]_vars
    PROVE  CleanProcess'
<1> USE DEF dirVars, fileVars, worldVars, bounds, checkVars
<1>counts. base \in Nat /\ faults \in Nat /\ base <= faults
    BY DEF TypeOK, CleanProcess
<1>1. base' <= faults' /\ (~Start /\ faults' = base' => faults = base /\ ~Fault)
    BY <1>counts, FaultsCount
<1>2. proc' = "down" => buffer' = {}
    <2>1. proc = "down" => buffer = {}
        BY DEF CleanProcess
    <2>2. CASE Start \/ StartRenames \/ Crash \/ Exit \/ CheckRenames \/ CheckCreates \/ UNCHANGED vars
        BY <2>1, <2>2 DEF Start, StartRenames, Crash, Exit, Die, CheckRenames, CheckCreates, vars
    <2>3. ASSUME NEW t \in Task, UploadStep(t) PROVE UNCHANGED <<proc, buffer>>
        BY <2>3, UploadStepNames
    <2> QED BY <2>1, <2>2, <2>3 DEF Next, LoopStep, Over, ReceiveMessage, Tick, Hup, Term, AtSelect,
            ListBundles, WriteMessage, CloseFile, RenameFile, RenameFails, RenameOld, CreateFile,
            CreateFails, PopStraggler, DeferredFlush, DeferredClose, SignalExit
<1>3. proc' = "running" /\ faults' = base' => SpoolClosed'
    <2>1. CASE Start
        BY <2>1 DEF Start, SpoolClosed, Live, Closed
    <2>2. CASE ~Start
        BY <1>1, <2>2, ClosedNext DEF CleanProcess
    <2> QED BY <2>1, <2>2
<1> QED BY <1>1, <1>2, <1>3 DEF CleanProcess

LEMMA PromiseInvariant ==
    ASSUME ~DryRun, QuietStart
    PROVE  Spec => []PromiseInv
<1>1. Init => PromiseInv
    <2> SUFFICES ASSUME Init PROVE PromiseInv OBVIOUS
    <2>1. TypeOK /\ OpenFileApart
        BY TypeInit, NamesInit DEF NamesApart
    <2>2. CleanProcess /\ MessageInHand
        BY DEF Init, CleanProcess, MessageInHand
    <2> QED BY <2>1, <2>2 DEF PromiseInv
<1>2. PromiseInv /\ [Next]_vars => PromiseInv'
    BY TypeNext, OpenFileNext, MessageNext, CleanProcessNext DEF PromiseInv
<1> QED BY <1>1, <1>2, PTL DEF Spec

(* The steps of the loop, as the process around it sees them: it does not  *)
(* come back from its deferred calls, and does not leave them out.         *)
LEMMA LoopPhases ==
    ASSUME TypeOK, LoopStep \/ Hup \/ Term \/ (\E elapsed \in BOOLEAN : Tick(elapsed))
                   \/ (\E e \in Event : ReceiveMessage(e)),
           ~SignalExit
    PROVE  /\ proc = "running" /\ proc' = "running"
           /\ Phase = "select" => Phase' \in {"select", "cleanup"}
           /\ Phase = "cleanup" => Phase' = "cleanup" /\ InMemory' \subseteq InMemory
<1> USE DEF dirVars, fileVars, Phase, AtSelect, RollThen, FailRoll, FailMessage
<1>1. CASE Hup \/ Term \/ (\E elapsed \in BOOLEAN : Tick(elapsed)) \/ (\E e \in Event : ReceiveMessage(e))
    BY <1>1 DEF Hup, Term, Tick, ReceiveMessage
<1>2. CASE ListBundles \/ WriteMessage \/ CloseFile \/ RenameFile \/ RenameFails \/ RenameOld
    BY <1>2 DEF ListBundles, WriteMessage, CloseFile, RenameFile, RenameFails, RenameOld
<1>3. CASE CreateFile \/ CreateFails \/ PopStraggler
    BY <1>3 DEF CreateFile, CreateFails, PopStraggler, TypeOK
<1>4. CASE DeferredFlush \/ DeferredClose
    <2>1. Phase = "cleanup" /\ Phase' = "cleanup"
        BY <1>4 DEF DeferredFlush, DeferredClose
    <2>2. buffer' \subseteq buffer /\ msg' = msg /\ proc = "running" /\ proc' = "running"
        BY <1>4, FlushAdds DEF DeferredFlush, DeferredClose
    <2> QED BY <2>1, <2>2 DEF InMemory
<1> QED BY <1>1, <1>2, <1>3, <1>4 DEF LoopStep

LEMMA PromiseStep ==
    ASSUME PromiseInv, PromiseInv', [Next]_vars
    PROVE  [Promise!Next]_(<<Phase, InMemory, FaultSeen>>)
<1> DEFINE Goal == [Promise!Next]_(<<Phase, InMemory, FaultSeen>>)
<1> USE DEF dirVars, fileVars, worldVars, bounds, checkVars
<1>type. /\ TypeOK /\ base \in Nat /\ faults \in Nat /\ base <= faults
         /\ buffer' \cup msg' \subseteq Event
    BY DEF PromiseInv, TypeOK, CleanProcess
<1>counts. faults' \in {faults, faults + 1} /\ (base' = base \/ Start)
    BY <1>type, FaultsCount
<1>fault. ASSUME ~Start, Phase # "down", Phase' # "down" PROVE FaultSeen' \in {FaultSeen, TRUE}
    <2>1. (FaultSeen <=> faults > base) /\ (FaultSeen' <=> faults' > base')
        BY <1>fault DEF FaultSeen
    <2>2. faults > base => faults' > base'
        BY <1>fault, <1>type, <1>counts
    <2> QED BY <2>1, <2>2 DEF FaultSeen
<1>1. CASE UNCHANGED vars
    BY <1>1 DEF vars, Phase, InMemory, FaultSeen
<1>2. CASE Start
    <2>1. Phase = "down" /\ Phase' = "select"
        BY <1>2 DEF Start, Phase
    <2>2. InMemory' = {}
        BY <1>2 DEF Start, InMemory, PromiseInv, CleanProcess, MessageInHand
    <2>3. FaultSeen' = FALSE
        BY <1>2, <1>type DEF Start, FaultSeen
    <2> QED BY <2>1, <2>2, <2>3 DEF Promise!Next, Promise!Begin
<1>3. CASE StartRenames
    <2>1. proc = "down" /\ proc' = "down"
        BY <1>3 DEF StartRenames
    <2> QED BY <2>1 DEF Phase, InMemory, FaultSeen
<1>4. CASE Crash \/ Exit
    <2>1. Phase' = "down"
        BY <1>4 DEF Crash, Exit, Die, Phase
    <2>2. InMemory' = {} /\ FaultSeen' = FALSE
        BY <2>1 DEF InMemory, FaultSeen, Phase
    <2> QED BY <2>1, <2>2 DEF Promise!Next, Promise!Die
<1>5. CASE CheckRenames \/ CheckCreates
    BY <1>5 DEF CheckRenames, CheckCreates, Phase, InMemory, FaultSeen
<1>6. CASE SignalExit
    <2>1. /\ proc = "running" /\ loop = "signal" /\ proc' = "exiting"
          /\ UNCHANGED <<buffer, msg, faults, base>>
        BY <1>6 DEF SignalExit
    <2>2. Phase = "cleanup" /\ Phase' = "stopped" /\ InMemory' = {}
        BY <2>1 DEF Phase, InMemory
    <2>3. FaultSeen' = FaultSeen
        BY <2>1, <2>2 DEF FaultSeen
    <2>4. InMemory = {} \/ FaultSeen
        <3>1. CASE faults = base
            BY <2>1, <3>1 DEF InMemory, PromiseInv, CleanProcess, SpoolClosed, OpenFileApart,
                MessageInHand, InHand
        <3>2. CASE faults # base
            BY <1>type, <2>2, <3>2 DEF FaultSeen
        <3> QED BY <3>1, <3>2
    <2> QED BY <2>2, <2>3, <2>4 DEF Promise!Next, Promise!Finish
<1>7. ASSUME NEW t \in Task, UploadStep(t) PROVE Goal
    <2>1. UNCHANGED <<proc, loop, msg, buffer>>
        BY <1>7, <1>type, UploadStepNames
    <2>2. Phase' = Phase /\ InMemory' = InMemory
        BY <2>1 DEF Phase, InMemory
    <2>3. Phase # "down" /\ ~Start
        BY <1>7, <2>1 DEF UploadStep, TakeResult, OpenBundle, OpenFails, UploadOk, UploadBad,
            UploadErr, TakeOk,
            TakeErr, TakeBad, MoveFails, RemoveBundle, RemoveFails, Alive, AtSelect, Phase, Start
    <2>4. FaultSeen' \in {FaultSeen, TRUE}
        BY <1>fault, <2>2, <2>3
    <2>5. InMemory' \subseteq Event
        BY <1>type DEF InMemory
    <2>6. Phase \in {"select", "cleanup", "stopped"}
        BY <2>3 DEF Phase
    <2> QED BY <2>2, <2>4, <2>5, <2>6 DEF Promise!Next, Promise!Work, Promise!Settle
<1>8. CASE ~SignalExit /\ (LoopStep \/ Hup \/ Term \/ (\E elapsed \in BOOLEAN : Tick(elapsed))
                          \/ (\E e \in Event : ReceiveMessage(e)))
    <2>1. /\ proc = "running" /\ proc' = "running"
          /\ Phase = "select" => Phase' \in {"select", "cleanup"}
          /\ Phase = "cleanup" => Phase' = "cleanup" /\ InMemory' \subseteq InMemory
        BY <1>8, <1>type, LoopPhases
    <2>2. Phase \in {"select", "cleanup"} /\ Phase' # "down" /\ ~Start
        BY <2>1 DEF Phase, Start
    <2>3. FaultSeen' \in {FaultSeen, TRUE}
        BY <1>fault, <2>2
    <2>4. InMemory' \subseteq Event
        BY <1>type DEF InMemory
    <2> QED BY <2>1, <2>2, <2>3, <2>4 DEF Promise!Next, Promise!Work, Promise!Settle
<1> QED BY <1>1, <1>2, <1>3, <1>4, <1>5, <1>6, <1>7, <1>8 DEF Next, Over

(* KeepsPromise, for any number of events, bundles and faults, stamps that *)
(* coincide included, when dry_run is off and no -check run meets a start  *)
(* half way: the exit is signalled with nothing in memory, unless a file   *)
(* system call has failed since this process was started.                  *)
THEOREM PromiseKept ==
    ASSUME ~DryRun, QuietStart
    PROVE  Spec => KeepsPromise
<1>1. Init => Promise!Init
    <2> SUFFICES ASSUME Init PROVE Promise!Init OBVIOUS
    <2>1. Phase = "down" /\ InMemory = {}
        BY DEF Init, Phase, InMemory
    <2>2. FaultSeen = FALSE
        BY <2>1 DEF FaultSeen
    <2> QED BY <2>1, <2>2 DEF Promise!Init
<1>2. PromiseInv /\ PromiseInv' /\ [Next]_vars => [Promise!Next]_(<<Phase, InMemory, FaultSeen>>)
    BY PromiseStep
<1> QED BY <1>1, <1>2, PromiseInvariant, PTL DEF Spec, KeepsPromise, Promise!Spec, Promise!vars
=============================================================================
