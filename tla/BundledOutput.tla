--------------------------- MODULE BundledOutput ---------------------------
(***************************************************************************)
(* The store-and-forward output used for HTTP, Splunk HEC and the old S3   *)
(* output (pkg/outputs/bundled_output.go) together with the FileOutput it  *)
(* spools through (pkg/outputs/file_output.go).                            *)
(*                                                                         *)
(* One goroutine (Go) selects over the event channel, a one second ticker, *)
(* the results of uploads and signals. Events are buffered, flushed to the *)
(* live temp file, and rolled over into bundle files named by a time       *)
(* stamp; every bundle is uploaded by a goroutine of its own (uploadOne),  *)
(* which removes the file once the loop has taken its success.             *)
(*                                                                         *)
(* Abstractions: the contents of a file are the set of events in it (no    *)
(* property depends on their order in one bundle) and whether a compressor *)
(* has written its frame; a time stamp is a member of Stamp, and a stamp   *)
(* that names nothing any more may stand for a later time; elapsed time is *)
(* a choice (of a tick, of a write that is old enough to flush).           *)
(***************************************************************************)
EXTENDS Integers, Sequences, FiniteSets

CONSTANTS
    Event,             \* events put on the channel by the input workers, each once
    EventLen,          \* EventLen[e]: length of e in bytes
    Bytes,             \* Bytes[S]: length of the events of S together, without newlines
    Stamp,             \* time stamps, the names of bundle files
    Task,              \* uploadOne goroutines that can exist at once (a bound)
    MaxFileSize,       \* bundle_size_max
    UploadEmptyFiles,  \* upload_empty_files
    Compress,          \* FileHandlerCompressData
    DebugFlag,         \* debug
    DryRun,            \* dry_run
    LongLine,          \* events longer than the scanner's 640KB buffer
    FreshStamps,       \* no two rollovers fall into the same millisecond
    QuietStart,        \* no -check run falls between the two halves of a start
    MaxStarts,         \* bound: process starts
    MaxFaults,         \* bound: failing file system calls
    MaxChecks,         \* bound: runs of cb-event-forwarder -check
    MaxRefusals        \* bound: bundles the service answers with status 400

Live == "event-forwarder"      \* the temp file being written
Closed == "closed"             \* outputFile = nil

ASSUME BundleNames == IsFiniteSet(Stamp) /\ Stamp # {} /\ Live \notin Stamp /\ Closed \notin Stamp
ASSUME BundleSizes == /\ EventLen \in [Event -> Nat \ {0}]
                      /\ MaxFileSize \in Nat
\* Bytes is the sum of EventLen over a finite set, given by its two laws.
ASSUME BundleLengths ==
    /\ Bytes \in [SUBSET Event -> Nat] /\ Bytes[{}] = 0
    /\ \A S \in SUBSET Event : IsFiniteSet(S) =>
          \A e \in Event \ S : Bytes[S \cup {e}] = Bytes[S] + EventLen[e]
ASSUME BundleConfig == /\ {UploadEmptyFiles, Compress, DebugFlag, DryRun, FreshStamps,
                           QuietStart} \subseteq BOOLEAN
                       /\ LongLine \subseteq Event
ASSUME BundleBounds == {MaxStarts, MaxFaults, MaxChecks, MaxRefusals} \subseteq Nat

FileId == Stamp \cup {Live}

VARIABLES
    \* the temp directory, which survives the process
    exists,    \* files in it
    data,      \* events in each file ({} for a file that does not exist)
    framed,    \* files a compressor has written its header to
    \* the process
    proc,      \* "down", "running", or "exiting" once the loop has returned
    loop,      \* where the Go loop is
    after,     \* where it continues when a rollover is done
    msg,       \* event it has received and not yet written (a set of at most one)
    fd,        \* outputFile: the file it writes to, by the file's present name
    buffer,    \* bufferOutput
    size,      \* currentFileSize
    stamp,     \* lastRolledOver
    queue,     \* filesToUpload
    tasks,     \* uploadOne goroutines
    \* the world outside
    received,  \* events the remote service has
    debug,     \* events in bundles moved to the debug store
    accepted,  \* events the loop has taken from the channel
    refused,   \* <<n, k>>: the k-th process saw bundle n refused with status 400
    moved,     \* those of them it moved to the debug store
    crashes,   \* how often the process was killed
    starts,    \* process starts
    base,      \* the value of faults at the last of them
    check,     \* a second process, with -check: "idle", or "renamed" in its Initialize
    faults, checks, refusals   \* what is spent of the other bounds

dirVars == <<exists, data, framed>>
fileVars == <<fd, buffer, size, stamp>>
worldVars == <<received, debug, accepted, refused, moved, crashes>>
checkVars == <<check, checks>>
bounds == <<starts, base, faults, checkVars, refusals>>
vars == <<dirVars, proc, loop, after, msg, fileVars, queue, tasks, worldVars, bounds>>

\* Which fresh name and which idle goroutine is taken makes no difference.
Pick(S) == CHOOSE x \in S : TRUE

IdleTask == [phase |-> "idle", name |-> Closed, data |-> {}]
StartTask(n) == [phase |-> "start", name |-> n, data |-> {}]
Free == {t \in Task : tasks[t].phase = "idle"}
Spawn(n) == Free # {} /\ tasks' = [tasks EXCEPT ![Pick(Free)] = StartTask(n)]
\* A tick starts at most two uploads; the bound Task is never met half way.
Room == Cardinality(Free) >= 2

InQueue == {queue[i] : i \in 1..Len(queue)}
Uploading == {tasks[t].name : t \in Task \ Free}

(* The names a file of this moment cannot have: time has moved past them.  *)
RefusedNames == {r[1] : r \in refused}
InUse == exists \cup InQueue \cup Uploading \cup RefusedNames
         \cup (IF proc = "down" THEN {} ELSE {stamp})
Fresh == Stamp \ InUse

Init ==
    /\ exists = {} /\ data = [f \in FileId |-> {}] /\ framed = {}
    /\ proc = "down" /\ loop = "select" /\ after = "select" /\ msg = {}
    /\ fd = Closed /\ buffer = {} /\ size = 0 /\ stamp = Pick(Stamp)
    /\ queue = <<>> /\ tasks = [t \in Task |-> IdleTask]
    /\ received = {} /\ debug = {} /\ accepted = {} /\ refused = {} /\ moved = {}
    /\ crashes = 0 /\ starts = 0 /\ base = 0 /\ faults = 0 /\ check = "idle" /\ checks = 0
    /\ refusals = 0

MayStop == starts < MaxStarts      \* the bound leaves a start after this exit
Fault == MayStop /\ faults < MaxFaults /\ faults' = faults + 1

-----------------------------------------------------------------------------
(* FileOutput                                                              *)

WriteTo(f, evs) ==
    /\ data' = [data EXCEPT ![f] = @ \cup evs]
    /\ framed' = IF Compress THEN framed \cup {f} ELSE framed

(* flushOutput, when it is time to write or force is set: all of the       *)
(* buffer reaches the file and the buffer is reset, or the write fails     *)
(* after a part of it and the buffer is kept. No open file: no effect.     *)
FlushOk ==
    /\ IF fd = Closed THEN UNCHANGED <<data, framed, buffer>>
                      ELSE WriteTo(fd, buffer) /\ buffer' = {}
    /\ UNCHANGED faults

FlushFails ==
    /\ fd # Closed /\ buffer # {}
    /\ \E part \in SUBSET buffer : WriteTo(fd, part)
    /\ UNCHANGED buffer
    /\ Fault

(* rollOverRename of the live file to another name.                        *)
RenameLive(to) ==
    /\ exists' = (exists \ {Live}) \cup {to}
    /\ data' = [data EXCEPT ![to] = data[Live], ![Live] = {}]
    /\ framed' = (framed \ {Live, to}) \cup (IF Live \in framed THEN {to} ELSE {})

-----------------------------------------------------------------------------
(* Starting and ending the process                                         *)

\* Mutant: opened with O_TRUNC instead of O_EXCL.
StartTruncates ==
    /\ proc = "down" /\ starts < MaxStarts /\ Live \in exists
    /\ exists' = exists \ {Live} /\ data' = [data EXCEPT ![Live] = {}]
    /\ UNCHANGED <<framed, proc, loop, after, msg, fileVars, queue, tasks, worldVars, bounds>>

(* BundledOutput.Initialize: a live file that a previous process has left  *)
(* is first rolled over to a name of its own (".restart"). A start may end *)
(* here: killed, or because its second attempt to create the file fails.   *)
StartRenames ==
    /\ proc = "down" /\ starts < MaxStarts /\ Live \in exists
    /\ Fresh # {} /\ RenameLive(Pick(Fresh))
    /\ UNCHANGED <<proc, loop, after, msg, fileVars, queue, tasks, worldVars, bounds>>

(* The live file is created ...                                            *)
Start ==
    /\ proc = "down" /\ starts < MaxStarts /\ Live \notin exists
    /\ Fresh # {} /\ stamp' = Pick(Fresh)
    /\ exists' = exists \cup {Live}
    /\ proc' = "running" /\ loop' = "list"
    /\ fd' = Live /\ size' = 0
    /\ starts' = starts + 1 /\ base' = faults
    /\ UNCHANGED <<data, framed, after, msg, buffer, queue, tasks, worldVars, faults, checkVars,
                   refusals>>

(* The orders in which Readdir may list a set of files.                    *)
Listings(S) == {q \in [1..Cardinality(S) -> S] : \A i, j \in DOMAIN q : q[i] = q[j] => i = j}

\* Mutant: queueStragglers also lists the live file.
ListBundlesLive ==
    /\ proc = "running" /\ loop = "list"
    /\ queue' \in Listings(exists)
    /\ loop' = "select"
    /\ UNCHANGED <<dirVars, proc, after, msg, fileVars, tasks, worldVars, bounds>>

(* ... and every bundle in the directory is queued; then Go starts the     *)
(* loop.                                                                   *)
ListBundles ==
    /\ proc = "running" /\ loop = "list"
    /\ queue' \in Listings(exists \ {Live})
    /\ loop' = "select"
    /\ UNCHANGED <<dirVars, proc, after, msg, fileVars, tasks, worldVars, bounds>>

(* What ends with the process: its memory and its goroutines.              *)
Die ==
    /\ proc' = "down" /\ loop' = "select" /\ after' = "select" /\ msg' = {}
    /\ fd' = Closed /\ buffer' = {} /\ size' = 0 /\ stamp' = Pick(Stamp)
    /\ queue' = <<>> /\ tasks' = [t \in Task |-> IdleTask]
    /\ UNCHANGED <<dirVars, received, debug, accepted, refused, moved, bounds>>

\* A kill, a panic or a power failure at any point.
Crash == proc # "down" /\ MayStop /\ Die /\ crashes' = crashes + 1
\* The loop has returned and main leaves.
Exit == proc = "exiting" /\ Die /\ UNCHANGED crashes

(* cb-event-forwarder -check runs Initialize on the same directory and     *)
(* exits: it renames the live file, if there is one ...  A running process *)
(* keeps writing to the file it has open, which now has another name.      *)
CheckRenames ==
    /\ check = "idle" /\ checks < MaxChecks
    /\ QuietStart => loop # "list"
    /\ IF Live \in exists
       THEN /\ Fresh # {} /\ RenameLive(Pick(Fresh))
            /\ fd' = IF fd = Live THEN Pick(Fresh) ELSE fd
       ELSE UNCHANGED <<dirVars, fd>>
    /\ check' = "renamed" /\ checks' = checks + 1
    /\ UNCHANGED <<proc, loop, after, msg, buffer, size, stamp, queue, tasks, worldVars,
                   starts, base, faults, refusals>>

(* ... and creates a new one; if it finds one there by then it gives up.   *)
CheckCreates ==
    /\ check = "renamed" /\ check' = "idle"
    /\ exists' = exists \cup {Live}
    /\ UNCHANGED <<data, framed, proc, loop, after, msg, fileVars, queue, tasks, worldVars,
                   starts, base, faults, checks, refusals>>

-----------------------------------------------------------------------------
(* The Go loop                                                             *)

AtSelect == proc = "running" /\ loop = "select"

(* rollOver returns at once for an empty file unless empty ones are sent.  *)
RollThen(next) ==
    IF size = 0 /\ ~UploadEmptyFiles
    THEN loop' = next /\ UNCHANGED after
    ELSE loop' = "close" /\ after' = next

\* Mutant: the message itself is left out of the comparison.
ReceiveMessageLate(e) ==
    /\ AtSelect /\ Room /\ e \notin accepted
    /\ accepted' = accepted \cup {e} /\ msg' = {e}
    /\ IF size > MaxFileSize THEN RollThen("write") ELSE loop' = "write" /\ UNCHANGED after
    /\ UNCHANGED <<dirVars, proc, fileVars, queue, tasks, received, debug, refused, moved,
                   crashes, bounds>>

(* output(message), first part: is there room for it in this bundle?       *)
ReceiveMessage(e) ==
    /\ AtSelect /\ Room /\ e \notin accepted
    /\ accepted' = accepted \cup {e}
    /\ msg' = {e}
    /\ IF size + EventLen[e] > MaxFileSize
       THEN RollThen("write")
       ELSE loop' = "write" /\ UNCHANGED after
    /\ UNCHANGED <<dirVars, proc, fileVars, queue, tasks, received, debug, refused, moved,
                   crashes, bounds>>

(* What the loop does with an error: it returns, except that DryRun makes  *)
(* it ignore the error (and the message) of an output call.                *)
FailMessage == loop' = IF DryRun THEN "select" ELSE "defer"
FailRoll == IF after = "write" THEN FailMessage ELSE loop' = "defer"

(* output(message), second part: into the buffer, then flushOutput(false), *)
(* which writes only if the last flush is more than 100ms ago.             *)
WriteMessage ==
    /\ proc = "running" /\ loop = "write"
    /\ \E e \in msg : size' = size + EventLen[e]
    /\ msg' = {}
    /\ \/ /\ buffer' = buffer \cup msg /\ loop' = "select"
          /\ UNCHANGED <<data, framed, faults>>
       \/ /\ fd # Closed
          /\ WriteTo(fd, buffer \cup msg) /\ buffer' = {} /\ loop' = "select"
          /\ UNCHANGED faults
       \/ /\ fd # Closed
          /\ \E part \in SUBSET (buffer \cup msg) : WriteTo(fd, part)
          /\ buffer' = buffer \cup msg /\ FailMessage
          /\ Fault
    /\ UNCHANGED <<exists, proc, after, fd, stamp, queue, tasks, worldVars, starts, base, checkVars,
                   refusals>>

(* rollOverFile: closeFile, whose flush error is ignored ...               *)
CloseFile ==
    /\ proc = "running" /\ loop = "close"
    /\ FlushOk \/ FlushFails
    /\ fd' = Closed /\ loop' = "rename"
    /\ UNCHANGED <<exists, proc, after, msg, size, stamp, queue, tasks, worldVars, starts, base,
                   checkVars, refusals>>

(* ... rollOverRename, which replaces a file of the new name ...           *)
RenameFile ==
    /\ proc = "running" /\ loop = "rename"
    /\ Live \in exists
    /\ RenameLive(stamp)
    /\ loop' = "create"
    /\ UNCHANGED <<proc, after, msg, fileVars, queue, tasks, worldVars, bounds>>

RenameFails ==
    /\ proc = "running" /\ loop = "rename"
    /\ IF Live \in exists THEN Fault ELSE UNCHANGED faults
    /\ FailRoll /\ msg' = {}
    /\ UNCHANGED <<dirVars, proc, after, fileVars, queue, tasks, worldVars, starts, base, checkVars,
                   refusals>>

(* ... and Initialize again: a live file that a -check run has created is  *)
(* renamed first ...                                                       *)
RenameOld ==
    /\ proc = "running" /\ loop = "create"
    /\ Live \in exists
    /\ Fresh # {} /\ RenameLive(Pick(Fresh))
    /\ loop' = "recreate"
    /\ UNCHANGED <<proc, after, msg, fileVars, queue, tasks, worldVars, bounds>>

(* ... the new one is created, and uploadOne started.                      *)
CreateFile ==
    /\ proc = "running" /\ loop \in {"create", "recreate"}
    /\ Live \notin exists /\ exists' = exists \cup {Live}
    /\ Fresh # {} /\ stamp' \in {Pick(Fresh)} \cup (IF FreshStamps THEN {} ELSE {stamp})
    /\ Spawn(stamp)
    /\ fd' = Live /\ size' = 0
    /\ loop' = after
    /\ UNCHANGED <<data, framed, proc, after, msg, buffer, queue, worldVars, bounds>>

(* Initialize gives up when the file cannot be created, or is there again. *)
CreateFails ==
    /\ proc = "running" /\ loop \in {"create", "recreate"}
    /\ IF loop = "recreate" /\ Live \in exists THEN UNCHANGED faults ELSE Fault
    /\ Fresh # {} /\ stamp' = Pick(Fresh)
    /\ FailRoll /\ msg' = {}
    /\ UNCHANGED <<dirVars, proc, after, fd, buffer, size, queue, tasks, worldVars, starts, base,
                   checkVars, refusals>>

(* The ticker: the rollover if bundle_send_timeout has elapsed, then one   *)
(* of the queued bundles.                                                  *)
Tick(elapsed) ==
    /\ AtSelect /\ Room
    /\ IF elapsed THEN RollThen("pop") ELSE queue # <<>> /\ loop' = "pop" /\ UNCHANGED after
    /\ UNCHANGED <<dirVars, proc, msg, fileVars, queue, tasks, worldVars, bounds>>

\* Mutant: the bundle stays in filesToUpload.
PopStragglerKeeps ==
    /\ proc = "running" /\ loop = "pop"
    /\ IF queue = <<>> THEN UNCHANGED tasks ELSE Spawn(Head(queue))
    /\ loop' = "select"
    /\ UNCHANGED <<dirVars, proc, after, msg, fileVars, queue, worldVars, bounds>>

PopStraggler ==
    /\ proc = "running" /\ loop = "pop"
    /\ IF queue = <<>> THEN UNCHANGED <<queue, tasks>>
       ELSE Spawn(Head(queue)) /\ queue' = Tail(queue)
    /\ loop' = "select"
    /\ UNCHANGED <<dirVars, proc, after, msg, fileVars, worldVars, bounds>>

(* SIGHUP rolls over at once; SIGTERM and SIGINT make the loop return.     *)
Hup ==
    /\ AtSelect /\ Room
    /\ size > 0 \/ UploadEmptyFiles    \* otherwise rollOver has no effect
    /\ RollThen("select")
    /\ UNCHANGED <<dirVars, proc, msg, fileVars, queue, tasks, worldVars, bounds>>

Term ==
    /\ AtSelect /\ MayStop
    /\ loop' = "defer"
    /\ UNCHANGED <<dirVars, proc, after, msg, fileVars, queue, tasks, worldVars, bounds>>

\* Mutant: the deferred calls run in the opposite order.
DeferredFlushSignalsFirst ==
    /\ proc = "running" /\ loop = "defer"
    /\ proc' = "exiting" /\ loop' = "select"
    /\ UNCHANGED <<dirVars, after, msg, fileVars, queue, tasks, worldVars, bounds>>

(* The deferred calls of the returning loop, last one first: the error of  *)
(* flushOutput(true) is dropped ...                                        *)
DeferredFlush ==
    /\ proc = "running" /\ loop = "defer"
    /\ FlushOk \/ FlushFails
    /\ loop' = "closing"
    /\ UNCHANGED <<exists, proc, after, msg, fd, size, stamp, queue, tasks, worldVars,
                   starts, base, checkVars, refusals>>

(* ... closeFile flushes once more if the file is still open ...           *)
DeferredClose ==
    /\ proc = "running" /\ loop = "closing"
    /\ FlushOk \/ FlushFails
    /\ fd' = Closed /\ loop' = "signal"
    /\ UNCHANGED <<exists, proc, after, msg, size, stamp, queue, tasks, worldVars,
                   starts, base, checkVars, refusals>>

(* ... and SignalExitCond lets main leave.                                 *)
SignalExit ==
    /\ proc = "running" /\ loop = "signal"
    /\ proc' = "exiting" /\ loop' = "select"
    /\ UNCHANGED <<dirVars, after, msg, fileVars, queue, tasks, worldVars, bounds>>

-----------------------------------------------------------------------------
(* uploadOne                                                               *)

Alive == proc # "down"
SetPhase(t, p) == tasks' = [tasks EXCEPT ![t].phase = p]

(* Open and Stat; a file of no bytes is not uploaded unless empty ones are *)
(* sent, and goes straight to its removal.                                 *)
OpenBundle(t) ==
    /\ Alive /\ tasks[t].phase = "start"
    /\ LET n == tasks[t].name IN
          /\ n \in exists
          /\ tasks' = [tasks EXCEPT ![t] =
                [phase |-> IF data[n] # {} \/ n \in framed \/ UploadEmptyFiles
                           THEN "sending" ELSE "remove",
                 name |-> n, data |-> data[n]]]
    /\ UNCHANGED <<dirVars, proc, loop, after, msg, fileVars, queue, worldVars, bounds>>

OpenFails(t) ==
    /\ Alive /\ tasks[t].phase = "start"
    /\ SetPhase(t, "err")
    /\ UNCHANGED <<dirVars, proc, loop, after, msg, fileVars, queue, worldVars, bounds>>

(* What a request puts on the wire. The scanner that splits a bundle into  *)
(* lines stops for good at a line longer than its buffer; which events     *)
(* precede that line is open here. A compressed file whose header is torn, *)
(* which the decompressor refuses, has no event in it.                     *)
Sendable(evs) == IF evs \cap LongLine = {} THEN {evs} ELSE SUBSET (evs \ LongLine)

(* Behavior.Upload: accepted (200), refused as a bad request (400), or     *)
(* failed in any other way, which may be after the service took the data.  *)
UploadOk(t) ==
    /\ Alive /\ tasks[t].phase = "sending"
    /\ \E sent \in Sendable(tasks[t].data) : received' = received \cup sent
    /\ SetPhase(t, "ok")
    /\ UNCHANGED <<dirVars, proc, loop, after, msg, fileVars, queue, debug, accepted, refused,
                   moved, crashes, bounds>>

UploadBad(t) ==
    /\ Alive /\ tasks[t].phase = "sending"
    /\ refusals < MaxRefusals /\ refusals' = refusals + 1
    /\ SetPhase(t, "bad")
    /\ UNCHANGED <<dirVars, proc, loop, after, msg, fileVars, queue, worldVars, starts, base,
                   faults, checkVars>>

UploadErr(t) ==
    /\ Alive /\ tasks[t].phase = "sending"
    /\ \E sent \in SUBSET tasks[t].data : received' = received \cup sent
    /\ SetPhase(t, "err")
    /\ UNCHANGED <<dirVars, proc, loop, after, msg, fileVars, queue, debug, accepted, refused,
                   moved, crashes, bounds>>

(* The file leaves the directory.                                          *)
Unlink(n) ==
    /\ exists' = exists \ {n}
    /\ data' = [data EXCEPT ![n] = {}]
    /\ framed' = framed \ {n}

(* The loop takes a result from fileResultChan: a success lets uploadOne   *)
(* go on to the removal, an error queues the bundle again, a refused one   *)
(* goes to the debug store if debugging is on.                             *)
TakeOk(t) ==
    /\ AtSelect /\ tasks[t].phase = "ok"
    /\ SetPhase(t, "remove")
    /\ UNCHANGED <<dirVars, proc, loop, after, msg, fileVars, queue, worldVars, bounds>>

\* Mutant: a failed upload is only logged.
TakeErrForgets(t) ==
    /\ AtSelect /\ tasks[t].phase = "err"
    /\ tasks' = [tasks EXCEPT ![t] = IdleTask]
    /\ UNCHANGED <<dirVars, proc, loop, after, msg, fileVars, queue, worldVars, bounds>>

TakeErr(t) ==
    /\ AtSelect /\ tasks[t].phase = "err"
    /\ queue' = Append(queue, tasks[t].name)
    /\ tasks' = [tasks EXCEPT ![t] = IdleTask]
    /\ UNCHANGED <<dirVars, proc, loop, after, msg, fileVars, worldVars, bounds>>

\* Mutant: status 400 is queued again like every other error.
TakeBadRetries(t) ==
    /\ AtSelect /\ tasks[t].phase = "bad"
    /\ refused' = refused \cup {<<tasks[t].name, starts>>} /\ queue' = Append(queue, tasks[t].name)
    /\ tasks' = [tasks EXCEPT ![t] = IdleTask]
    /\ UNCHANGED <<dirVars, proc, loop, after, msg, fileVars, received, debug, accepted, moved,
                   crashes, bounds>>

TakeBad(t) ==
    /\ AtSelect /\ tasks[t].phase = "bad"
    /\ refused' = refused \cup {<<tasks[t].name, starts>>}
    /\ IF DebugFlag /\ tasks[t].name \in exists
       THEN /\ debug' = debug \cup data[tasks[t].name] /\ Unlink(tasks[t].name)
            /\ moved' = moved \cup {tasks[t].name}
       ELSE UNCHANGED <<debug, dirVars, moved>>
    /\ tasks' = [tasks EXCEPT ![t] = IdleTask]
    /\ UNCHANGED <<proc, loop, after, msg, fileVars, queue, received, accepted, crashes, bounds>>

(* The rename to the debug store fails, which is only logged (the store    *)
(* may be on another file system): the bundle stays where it is.           *)
MoveFails(t) ==
    /\ AtSelect /\ tasks[t].phase = "bad"
    /\ refused' = refused \cup {<<tasks[t].name, starts>>}
    /\ DebugFlag /\ tasks[t].name \in exists /\ Fault
    /\ tasks' = [tasks EXCEPT ![t] = IdleTask]
    /\ UNCHANGED <<dirVars, proc, loop, after, msg, fileVars, queue, received, debug, accepted,
                   moved, crashes, starts, base, checkVars, refusals>>

(* os.Remove; an error is only logged.                                     *)
RemoveBundle(t) ==
    /\ Alive /\ tasks[t].phase = "remove"
    /\ Unlink(tasks[t].name)
    /\ tasks' = [tasks EXCEPT ![t] = IdleTask]
    /\ UNCHANGED <<proc, loop, after, msg, fileVars, queue, worldVars, bounds>>

RemoveFails(t) ==
    /\ Alive /\ tasks[t].phase = "remove"
    /\ Fault
    /\ tasks' = [tasks EXCEPT ![t] = IdleTask]
    /\ UNCHANGED <<dirVars, proc, loop, after, msg, fileVars, queue, worldVars, starts, base,
                   checkVars, refusals>>

-----------------------------------------------------------------------------
LoopStep == ListBundles \/ WriteMessage \/ CloseFile \/ RenameFile \/ RenameFails \/ RenameOld
            \/ CreateFile \/ CreateFails \/ PopStraggler
            \/ DeferredFlush \/ DeferredClose \/ SignalExit

TakeResult(t) == TakeOk(t) \/ TakeErr(t) \/ TakeBad(t) \/ MoveFails(t)

(* A -check run has ended the last process that the bound allows.          *)
Over == proc = "down" /\ ~MayStop /\ UNCHANGED vars

UploadStep(t) ==
    \/ OpenBundle(t) \/ OpenFails(t)
    \/ UploadOk(t) \/ UploadBad(t) \/ UploadErr(t)
    \/ TakeResult(t)
    \/ RemoveBundle(t) \/ RemoveFails(t)

Next ==
    \/ Start \/ StartRenames \/ Crash \/ Exit \/ CheckRenames \/ CheckCreates
    \/ \E e \in Event : ReceiveMessage(e)
    \/ \E elapsed \in BOOLEAN : Tick(elapsed)
    \/ Hup \/ Term \/ LoopStep
    \/ \E t \in Task : UploadStep(t)
    \/ Over

Spec == Init /\ [][Next]_vars

(* Go's select picks among the ready cases at random, so a case that is    *)
(* ready again and again is taken; goroutines are scheduled fairly. That   *)
(* opening a file and uploading it succeed in the end is what the remote   *)
(* service and the operating system are assumed to do, as is the restart   *)
(* of a process that has gone down.                                        *)
Fairness ==
    /\ WF_vars(Start \/ StartRenames) /\ WF_vars(Exit) /\ WF_vars(LoopStep)
    /\ SF_vars(Tick(TRUE))
    /\ \A t \in Task :
          /\ SF_vars(TakeResult(t)) /\ SF_vars(OpenBundle(t)) /\ SF_vars(UploadOk(t))
          /\ WF_vars(RemoveBundle(t))

FairSpec == Spec /\ Fairness

-----------------------------------------------------------------------------
(* Properties                                                              *)

TaskRecord == {IdleTask} \cup [phase : {"start", "sending", "ok", "err", "bad", "remove"},
                               name : Stamp, data : SUBSET Event]

(* The type invariant.                                                     *)
TypeOK ==
    /\ exists \subseteq FileId /\ data \in [FileId -> SUBSET Event] /\ framed \subseteq FileId
    /\ proc \in {"down", "running", "exiting"}
    /\ loop \in {"list", "select", "write", "close", "rename", "create", "recreate", "pop",
                "defer", "closing", "signal"}
    /\ after \in {"select", "write", "pop"}
    /\ msg \subseteq Event
    /\ fd \in FileId \cup {Closed}
    /\ buffer \subseteq Event /\ size \in Nat /\ stamp \in Stamp
    /\ queue \in Seq(Stamp)
    /\ tasks \in [Task -> TaskRecord]
    /\ received \subseteq Event /\ debug \subseteq Event /\ accepted \subseteq Event
    /\ refused \subseteq Stamp \X Nat /\ moved \subseteq Stamp /\ crashes \in Nat
    /\ check \in {"idle", "renamed"}
    /\ starts \in Nat /\ base \in Nat /\ faults \in Nat /\ checks \in Nat /\ refusals \in Nat

OnDisk == UNION {data[f] : f \in FileId}
Held == OnDisk \cup received \cup debug

(* Who has an event.                                                       *)
StatusOf(e) ==
    IF e \in received THEN "delivered"
    ELSE IF e \in debug THEN "aside"
    ELSE IF e \in OnDisk THEN "disk"
    ELSE IF e \in buffer \cup msg THEN "memory"
    ELSE IF e \in accepted THEN "lost" ELSE "new"

Custody == INSTANCE EventCustody WITH status <- [e \in Event |-> StatusOf(e)]

(* The output implements EventCustody: through flushes that fail half way, *)
(* rollovers interrupted at any point, uploads whose answer is lost,       *)
(* crashes and restarts, no event that reached a file is ever lost         *)
(* (uploadOne removes a file only after its upload succeeded).             *)
KeepsCustody == Custody!Spec

Lost == {e \in Event : StatusOf(e) = "lost"}

(* No file system call fails; dry_run, which lets the loop go on without a *)
(* file, is off.                                                           *)
Undisturbed == faults = 0 /\ ~DryRun

(* A process that is only ever stopped by SIGTERM loses no event, also     *)
(* those in the buffer (the deferred flushOutput(true) and closeFile),     *)
(* except one for each -check run at most: a rollover that meets the run   *)
(* half way, with the live file away or there again, drops the message in  *)
(* hand and ends the loop.                                                 *)
LostOnlyToChecks == crashes = 0 /\ Undisturbed => Cardinality(Lost) <= checks

(* What a "check of the configuration file" should leave of it: no loss.   *)
CleanStopLosesNothing == crashes = 0 /\ Undisturbed => Lost = {}

(* How far the loop is, and what it holds in memory only, as the process   *)
(* around it sees them.                                                    *)
Phase ==
    IF proc = "down" THEN "down"
    ELSE IF proc = "exiting" THEN "stopped"
    ELSE IF loop \in {"defer", "closing", "signal"} THEN "cleanup" ELSE "select"
InMemory == IF proc = "running" THEN buffer \cup msg ELSE {}
FaultSeen == Phase # "down" /\ faults > base
Promise == INSTANCE OutputPromise WITH phase <- Phase, held <- InMemory, failed <- FaultSeen

(* The output implements OutputPromise: SignalExitCond, on which main      *)
(* leaves, comes only after everything taken from the channel is in a      *)
(* file, unless a file system call has failed in this process; every       *)
(* process starts afresh, whatever happened to the ones before it.         *)
KeepsPromise == Promise!Spec

(* A bundle the service refused with status 400 is not uploaded again by   *)
(* the process that saw it refused, and one that went to the debug store   *)
(* by no later process either (MoveFileToDebug). One that stayed, because  *)
(* debug is off or the move failed, is a straggler for the next start.     *)
RefusedNotRetried ==
    /\ \A r \in refused : r[2] = starts => r[1] \notin InQueue \cup Uploading
    /\ moved \cap (InQueue \cup Uploading) = {}

(* What the comment on status 400 says ("don't try to upload it again"),   *)
(* of every later process too.                                             *)
RefusedForGood == RefusedNames \cap (InQueue \cup Uploading) = {}

(* A bundle is in the hands of one uploadOne at a time, and is not queued  *)
(* for another meanwhile: no bundle is sent twice by one process unless    *)
(* its upload failed.                                                      *)
OneUploaderPerBundle ==
    /\ \A t, u \in Task \ Free : tasks[t].name = tasks[u].name => t = u
    /\ \A i, j \in 1..Len(queue) : queue[i] = queue[j] => i = j
    /\ Uploading \cap InQueue = {}

(* The file being written is never handed to an uploader.                  *)
OpenFileNotUploaded == fd # Closed => fd \notin InQueue \cup Uploading

(* The length of a file that is not compressed: output adds a newline to   *)
(* every message, which currentFileSize does not count.                    *)
FileSize(f) == Bytes[data[f]] + Cardinality(data[f])

(* bundle_size_max: no bundle of two events or more outgrows the maximum   *)
(* by more than these newlines (currentFileSize follows what is in the     *)
(* file and the buffer through rollovers, restarts and -check runs),       *)
(* unless a failed flush carried the buffer over into the next file.       *)
Single(evs) == \A d, e \in evs : d = e
BundleBounded ==
    Undisturbed => \A f \in FileId :
        FileSize(f) <= MaxFileSize + Cardinality(data[f]) \/ Single(data[f])

(* bundle_size_max as the configuration file describes it, "the maximum    *)
(* file size".                                                             *)
BundleWithinMaximum ==
    Undisturbed => \A f \in FileId : FileSize(f) <= MaxFileSize \/ Single(data[f])

(* Data leaves a file only for a reason: the service has all of it, or it  *)
(* went to the debug store ("only remove the old file if there was no      *)
(* error").                                                                *)
RemovedOnlyAfterSuccess == [][OnDisk \subseteq Held']_vars

(* Every event taken from the channel leaves the machine in the end, goes  *)
(* to the debug store, or was lost from memory by a failure.               *)
EveryEventLeaves ==
    \A e \in Event : e \in accepted ~> StatusOf(e) \in {"delivered", "aside", "lost"}

-----------------------------------------------------------------------------
(* The inductive invariant behind KeepsCustody (BundledOutputProofs)       *)

(* The file being written is there, and apart from the bundles being       *)
(* uploaded; so is the one a start has created, when it lists the others.  *)
OpenFileApart ==
    /\ fd # Closed => fd \in exists /\ fd \notin InQueue \cup Uploading
    /\ loop \in {"rename", "create", "recreate", "signal"} => fd = Closed
    /\ loop = "list" => fd = Live
    /\ proc # "running" => fd = Closed /\ loop = "select"

(* So is the name the next bundle will get.                                *)
StampApart ==
    /\ proc = "running" => stamp \notin InQueue \cup Uploading
    /\ proc = "running" /\ loop \notin {"create", "recreate"} => stamp \notin exists

NamesApart == OpenFileApart /\ StampApart

(* A file awaiting removal holds nothing the service does not have, and    *)
(* what an upload is sending is the file as it still is.                   *)
UploadsFaithful ==
    /\ \A f \in FileId \ exists : data[f] = {}
    /\ \A t \in Task :
          /\ tasks[t].phase = "sending" => /\ data[tasks[t].name] \subseteq tasks[t].data
                                           /\ tasks[t].data \subseteq Held
          /\ tasks[t].phase \in {"ok", "remove"} => data[tasks[t].name] \subseteq received

(* Nothing is held that did not come from the channel.                     *)
NothingInvented == Held \cup buffer \cup msg \subseteq accepted

IInv == TypeOK /\ NamesApart /\ UploadsFaithful /\ NothingInvented

(* What a process leaves to the next one, until that one has listed the    *)
(* directory: files, and nothing else.                                     *)
NothingLeft == proc = "down" \/ loop = "list" => queue = <<>> /\ Free = Task

UploaderInv == TypeOK /\ NamesApart /\ NothingLeft /\ OneUploaderPerBundle

(* A bundle in the debug store is not in the directory any more, where the *)
(* next start would queue it, and no name of a refused one is used again:  *)
(* behind RefusedNotRetried.                                               *)
RefusedGone ==
    /\ moved \cap exists = {} /\ moved \subseteq RefusedNames
    /\ \A r \in refused : r[2] <= starts
    /\ loop = "list" => \A r \in refused : r[2] < starts
    /\ proc = "running" => stamp \notin RefusedNames

(* The loop has a message in hand from its receipt to its write, and       *)
(* nowhere else.                                                           *)
InHand == loop = "write" \/ (loop \in {"close", "rename", "create", "recreate"} /\ after = "write")
MessageInHand ==
    IF proc = "running" /\ InHand THEN \E e \in Event : msg = {e} ELSE msg = {}

(* As long as no file system call fails, the loop is without a file only   *)
(* in a rollover and at its end, and then the buffer is empty.             *)
SpoolClosed ==
    fd = Closed =>
        buffer = {} /\ loop \in {"rename", "create", "recreate", "defer", "closing", "signal"}

(* A -check run that the next rollover may miss: the live file is away, or *)
(* is or will be there again when the rollover has just renamed it.        *)
MissAhead ==
    /\ proc = "running"
    /\ \/ loop \in {"list", "select", "write", "close", "rename", "pop"} /\ Live \notin exists
       \/ loop = "recreate" /\ (check = "renamed" \/ Live \in exists)

(* What holds as long as nothing has failed: behind LostOnlyToChecks.      *)
CleanInv ==
    crashes = 0 /\ Undisturbed =>
        /\ Cardinality(Lost) + (IF MissAhead THEN 1 ELSE 0) <= checks
        /\ proc # "running" => buffer = {}
        /\ proc = "running" => SpoolClosed
        /\ proc = "running" /\ loop = "create" /\ check = "renamed" => Live \notin exists

(* currentFileSize follows what is written to the open file and what waits *)
(* in the buffer, as long as no file system call fails, and a message is   *)
(* only written where there is room for it: behind BundleBounded.          *)
Written == data[fd] \cup buffer
SizeFollows ==
    Undisturbed =>
        /\ proc # "running" => buffer = {}
        /\ proc = "running" =>
              /\ SpoolClosed
              /\ fd # Closed => Bytes[Written] <= size /\ (size <= MaxFileSize \/ Single(Written))
              /\ loop = "write" =>
                    \A e \in msg : size + EventLen[e] <= MaxFileSize \/ Written = {}

(* Files, buffer and message hold finitely many events, all of them from   *)
(* the channel; a live file that does not exist holds none.                *)
ContentsFinite ==
    /\ IsFiniteSet(accepted) /\ buffer \cup msg \subseteq accepted
    /\ \A f \in FileId : data[f] \subseteq accepted
    /\ Live \notin exists => data[Live] = {}

SizeInv ==
    TypeOK /\ OpenFileApart /\ ContentsFinite /\ MessageInHand /\ SizeFollows /\ BundleBounded

(* Behind KeepsPromise: in a process none of whose file system calls has   *)
(* failed, a closed file means an empty buffer.                            *)
CleanProcess ==
    /\ base <= faults
    /\ proc = "down" => buffer = {}
    /\ proc = "running" /\ faults = base => SpoolClosed
PromiseInv == TypeOK /\ OpenFileApart /\ MessageInHand /\ CleanProcess
=============================================================================
