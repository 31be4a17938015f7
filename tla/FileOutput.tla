------------------------------ MODULE FileOutput ------------------------------
(***************************************************************************)
(* The file output as an output of its own (file_output.go): a goroutine   *)
(* that buffers events, writes the buffer to the live file at most ten     *)
(* times a second, and rolls the file over when the day changes or on      *)
(* SIGHUP. Nothing removes a file; the only way to lose what is on disk is *)
(* a rename onto a name that is in use.                                    *)
(*                                                                         *)
(* The time is a number of milliseconds, DayLength of them to a day, so    *)
(* that days follow one another; that Day() is a day of the month matters  *)
(* only to a process whose ticks stop for a month. The contents of a file  *)
(* are the set of the events in it; compression is left out. A process     *)
(* keeps writing to the file it has opened, whatever its name has become.  *)
(***************************************************************************)
EXTENDS Integers, FiniteSets

CONSTANTS
    Event,
    DayLength,
    DryRun,       \* an error of output is ignored
    Monotonic,    \* the local time does not go back
    FreshStamps,  \* no two rollovers by SIGHUP, or restarts, fall into one millisecond
    MaxTime,      \* bound: of the clock
    MaxStarts,    \* bound: starts of the process
    MaxHups,      \* bound: SIGHUPs
    MaxTroubles   \* bound: failing calls of the file system, and runs of a second process
                  \* with -check

ASSUME FileSizes == DayLength \in Nat \ {0} /\ MaxTime \in Nat
ASSUME FileConfig == {DryRun, Monotonic, FreshStamps} \subseteq BOOLEAN
ASSUME FileBounds == {MaxStarts, MaxHups, MaxTroubles} \subseteq Nat

Time == 0 .. MaxTime
Day(t) == t \div DayLength

(* The formats of rollOverRename: a day, or a millisecond.                 *)
Live == <<"live", 0>>
Stamp(format, t) == <<format, IF format = "daily" THEN Day(t) ELSE t>>
Name == {Live} \cup ({"daily", "hup", "restart"} \X Time)
NoFile == <<"nil", 0>>      \* outputFile is nil
NoName == <<"unlinked", 0>>   \* outputFile is open, and another file has taken its name

VARIABLES
    exists, data,    \* the directory: names in use, and what is in each file
    now,
    loop,            \* "down", "select", "output"; "rename", "open", "reopen": in a rollover or
                     \* in Initialize; "return", "close", "signal": the deferred
                     \* calls; "stopped"
    why,             \* what is being done: "start", "daily", "hup"
    fd,              \* the name of the file that outputFile is
    buffer,
    lastRolledOver,
    check,           \* the second process: "idle", or "renamed" in its Initialize
    taken,           \* events taken from the channel
    failed,          \* a call has failed since the start
    clean,           \* no call has failed yet, and no process has been killed
    starts, hups, troubles   \* what is spent of the bounds

disk == <<exists, data>>
mine == <<loop, why, fd, buffer, lastRolledOver>>
bounds == <<starts, hups, troubles>>
vars == <<disk, now, mine, check, taken, failed, clean, bounds>>

OnDisk == UNION {data[n] : n \in exists}
Running == loop \notin {"down", "stopped"}

Init ==
    /\ exists = {} /\ data = [n \in Name |-> {}]
    /\ now = 0
    /\ loop = "down" /\ why = "start" /\ fd = NoFile /\ buffer = {} /\ lastRolledOver = 0
    /\ check = "idle"
    /\ taken = {} /\ failed = FALSE /\ clean = TRUE
    /\ starts = 0 /\ hups = 0 /\ troubles = 0

-----------------------------------------------------------------------------
(* The clock                                                               *)

Advance ==
    /\ \E t \in Time : t # now /\ (Monotonic => t > now) /\ now' = t
    /\ UNCHANGED <<disk, mine, check, taken, failed, clean, bounds>>

-----------------------------------------------------------------------------
(* The file system                                                         *)

Fault ==
    /\ troubles < MaxTroubles /\ troubles' = troubles + 1
    /\ failed' = TRUE /\ clean' = FALSE
    /\ UNCHANGED <<starts, hups>>

NoFault == UNCHANGED <<failed, clean, bounds>>

(* Rename replaces a file of the new name; a process that has it open      *)
(* writes to a file without a name from then on.                           *)
Rename(new) ==
    /\ exists' = (exists \ {Live}) \cup {new}
    /\ data' = [data EXCEPT ![new] = data[Live], ![Live] = {}]
    /\ fd' = CASE fd = Live -> new [] fd = new -> NoName [] OTHER -> fd

Write(b) == data' = [data EXCEPT ![fd] = @ \cup b] /\ UNCHANGED exists

(* flushOutput writes the whole buffer and empties it, if there is a file, *)
FlushOk(b) ==
    /\ IF fd \in exists THEN Write(b) ELSE UNCHANGED disk
    /\ buffer' = IF fd = NoFile THEN b ELSE {}

(* or fails after a part of it, and keeps it.                              *)
FlushFails(b) ==
    /\ fd # NoFile
    /\ \E part \in SUBSET b : IF fd \in exists THEN Write(part) ELSE UNCHANGED disk
    /\ buffer' = b

-----------------------------------------------------------------------------
(* Initialize: when the process starts, and at the end of a rollover       *)

Start ==
    /\ ~Running /\ starts < MaxStarts /\ starts' = starts + 1
    /\ FreshStamps => Stamp("restart", now) \notin exists
    /\ loop' = "open" /\ why' = "start" /\ failed' = FALSE
    /\ UNCHANGED <<disk, now, fd, buffer, lastRolledOver, check, taken, clean, hups, troubles>>

(* The live file is created ...                                            *)
Create ==
    /\ loop \in {"open", "reopen"} /\ Live \notin exists
    /\ exists' = exists \cup {Live} /\ fd' = Live
    /\ lastRolledOver' = now /\ loop' = "select"
    /\ UNCHANGED <<data, now, why, buffer, check, taken>> /\ NoFault

(* ... or one is there, is renamed, and the creation tried once more.      *)
RenameOld ==
    /\ loop = "open" /\ Live \in exists
    /\ FreshStamps => Stamp("restart", now) \notin exists
    /\ lastRolledOver' = now /\ Rename(Stamp("restart", now)) /\ loop' = "reopen"
    /\ UNCHANGED <<now, why, buffer, check, taken>> /\ NoFault

(* An error when the process starts ends it at once; one in a rollover     *)
(* makes the loop return. A rename that fails leaves the old file in place *)
(* and the second creation fails on it.                                    *)
InitializeFails ==
    /\ loop \in {"open", "reopen"}
    /\ IF loop = "reopen" /\ Live \in exists THEN NoFault ELSE Fault
    /\ loop' = IF why = "start" THEN "down" ELSE "return"
    /\ buffer' = IF why = "start" THEN {} ELSE buffer
    /\ lastRolledOver' = now
    /\ UNCHANGED <<disk, now, why, fd, check, taken>>

(* A second process with -check initializes the same output and exits; if  *)
(* it then finds a file of the first, its Initialize fails.                *)
CheckRenames ==
    /\ check = "idle" /\ now < MaxTime
    /\ troubles < MaxTroubles /\ troubles' = troubles + 1
    /\ FreshStamps => Stamp("restart", now) \notin exists
    /\ IF Live \in exists THEN Rename(Stamp("restart", now)) ELSE UNCHANGED <<disk, fd>>
    /\ check' = "renamed"
    /\ UNCHANGED <<now, loop, why, buffer, lastRolledOver, taken, failed, clean, starts, hups>>

CheckCreates ==
    /\ check = "renamed" /\ check' = "idle"
    /\ exists' = exists \cup {Live}
    /\ UNCHANGED <<data, now, mine, taken, failed, clean, bounds>>

-----------------------------------------------------------------------------
(* The loop                                                                *)

(* output: the event is buffered, ...                                      *)
TakeMessage(e) ==
    /\ loop = "select" /\ e \notin taken
    /\ taken' = taken \cup {e} /\ buffer' = buffer \cup {e} /\ loop' = "output"
    /\ UNCHANGED <<disk, now, why, fd, lastRolledOver, check>> /\ NoFault

(* ... and flushed, unless that was done in the last tenth of a second.    *)
OutputNotDue ==
    /\ loop = "output" /\ loop' = "select"
    /\ UNCHANGED <<disk, now, why, fd, buffer, lastRolledOver, check, taken>> /\ NoFault

\* Mutant: the buffer is emptied without being written.
OutputFlushesNot ==
    /\ loop = "output" /\ loop' = "select" /\ buffer' = {}
    /\ UNCHANGED <<disk, now, why, fd, lastRolledOver, check, taken>> /\ NoFault

OutputFlushes ==
    /\ loop = "output" /\ loop' = "select" /\ FlushOk(buffer)
    /\ UNCHANGED <<now, why, fd, lastRolledOver, check, taken>> /\ NoFault

(* An error ends the loop.                                                 *)
OutputFails ==
    /\ loop = "output" /\ loop' = IF DryRun THEN "select" ELSE "return"
    /\ FlushFails(buffer) /\ Fault
    /\ UNCHANGED <<now, why, fd, lastRolledOver, check, taken>>

SameDay == Day(lastRolledOver) = Day(now)

\* Mutant: the tick only looks at the date.
TickDateOnly == loop = "select" /\ SameDay /\ UNCHANGED vars

(* A tick flushes what is due ...                                          *)
Tick ==
    /\ loop = "select" /\ SameDay /\ FlushOk(buffer)
    /\ UNCHANGED <<now, loop, why, fd, lastRolledOver, check, taken>> /\ NoFault

(* ... and takes no notice of an error.                                    *)
TickFails ==
    /\ loop = "select" /\ SameDay /\ FlushFails(buffer) /\ Fault
    /\ UNCHANGED <<now, loop, why, fd, lastRolledOver, check, taken>>

(* closeFile flushes, ignores an error, and closes.                        *)
CloseFile ==
    /\ \/ FlushOk(buffer) /\ UNCHANGED <<failed, clean, troubles>>
       \/ /\ FlushFails(buffer) /\ troubles < MaxTroubles /\ troubles' = troubles + 1
          /\ failed' = TRUE /\ clean' = FALSE
    /\ fd' = NoFile

(* rollOverFile: a tick on another day than that of the last rollover, ... *)
RollDaily ==
    /\ loop = "select" /\ ~SameDay
    /\ CloseFile /\ loop' = "rename" /\ why' = "daily"
    /\ UNCHANGED <<now, lastRolledOver, check, taken, starts, hups>>

\* Mutant: a file rolled over by SIGHUP is named as one of a day.
RollHupDaily ==
    /\ loop = "select" /\ hups < MaxHups /\ hups' = hups + 1
    /\ CloseFile /\ loop' = "rename" /\ why' = "daily"
    /\ UNCHANGED <<now, lastRolledOver, check, taken, starts>>

(* ... or SIGHUP.                                                          *)
RollHup ==
    /\ loop = "select" /\ hups < MaxHups /\ hups' = hups + 1
    /\ FreshStamps => Stamp("hup", lastRolledOver) \notin exists
    /\ CloseFile /\ loop' = "rename" /\ why' = "hup"
    /\ UNCHANGED <<now, lastRolledOver, check, taken, starts>>

(* The name is that of the time the file was begun.                        *)
RenameLive ==
    /\ loop = "rename" /\ Live \in exists
    /\ Rename(Stamp(why, lastRolledOver)) /\ loop' = "open"
    /\ UNCHANGED <<now, why, buffer, lastRolledOver, check, taken>> /\ NoFault

RenameFails ==
    /\ loop = "rename"
    /\ IF Live \in exists THEN Fault ELSE NoFault
    /\ loop' = "return"
    /\ UNCHANGED <<disk, now, why, fd, buffer, lastRolledOver, check, taken>>

Term ==
    /\ loop = "select" /\ loop' = "return"
    /\ UNCHANGED <<disk, now, why, fd, buffer, lastRolledOver, check, taken>> /\ NoFault

-----------------------------------------------------------------------------
(* The end of the process                                                  *)

(* The deferred calls: flushOutput(true), whose error is ignored, ...      *)
ExitFlush ==
    /\ loop = "return" /\ loop' = "close"
    /\ \/ FlushOk(buffer) /\ NoFault
       \/ FlushFails(buffer) /\ Fault
    /\ UNCHANGED <<now, why, fd, lastRolledOver, check, taken>>

(* ... closeFile, which flushes again, ...                                 *)
ExitClose ==
    /\ loop = "close" /\ loop' = "signal" /\ CloseFile
    /\ UNCHANGED <<now, why, lastRolledOver, check, taken, starts, hups>>

\* Mutant: the deferred calls run in the other order.
BroadcastEarly ==
    /\ loop \in {"return", "close", "signal"} /\ loop' = "stopped" /\ buffer' = {} /\ fd' = NoFile
    /\ UNCHANGED <<disk, now, why, lastRolledOver, check, taken>> /\ NoFault

(* ... and SignalExitCond, on which the process exits.                     *)
Broadcast ==
    /\ loop = "signal" /\ loop' = "stopped" /\ buffer' = {}
    /\ UNCHANGED <<disk, now, why, fd, lastRolledOver, check, taken>> /\ NoFault

Crash ==
    /\ Running
    /\ loop' = "down" /\ fd' = NoFile /\ buffer' = {} /\ clean' = FALSE
    /\ UNCHANGED <<disk, now, why, lastRolledOver, check, taken, failed, bounds>>

(* The bounds are spent.                                                   *)
Over == ~Running /\ (starts = MaxStarts \/ now = MaxTime) /\ UNCHANGED vars

Next ==
    \/ Advance
    \/ Start \/ Create \/ RenameOld \/ InitializeFails
    \/ CheckRenames \/ CheckCreates
    \/ (\E e \in Event : TakeMessage(e)) \/ OutputNotDue \/ OutputFlushes \/ OutputFails
    \/ Tick \/ TickFails \/ RollDaily \/ RollHup \/ RenameLive \/ RenameFails
    \/ Term \/ ExitFlush \/ ExitClose \/ Broadcast
    \/ Crash \/ Over

Spec == Init /\ [][Next]_vars

(* Fairness: the goroutine goes on, its select takes a tick again and      *)
(* again, and the clock runs.                                              *)
FairSpec ==
    /\ Spec
    /\ WF_vars(OutputNotDue \/ OutputFlushes \/ OutputFails)
    /\ SF_vars(Tick) /\ SF_vars(RollDaily)
    /\ WF_vars(RenameLive \/ RenameFails) /\ WF_vars(Create \/ RenameOld \/ InitializeFails)
    /\ WF_vars(ExitFlush) /\ WF_vars(ExitClose) /\ WF_vars(Broadcast)
    /\ WF_vars(Advance)

-----------------------------------------------------------------------------
(* Properties                                                              *)

(* Types; outputFile is nil wherever no file may be written.               *)
TypeOK ==
    /\ exists \subseteq Name /\ data \in [Name -> SUBSET Event]
    /\ now \in Time /\ lastRolledOver \in Time
    /\ loop \in {"down", "select", "output", "rename", "open", "reopen", "return", "close", "signal", "stopped"}
    /\ why \in {"start", "daily", "hup"}
    /\ fd \in Name \cup {NoFile, NoName}
    /\ loop \in {"down", "rename", "open", "reopen", "signal", "stopped"} => fd = NoFile
    /\ buffer \subseteq Event /\ taken \subseteq Event
    /\ check \in {"idle", "renamed"}
    /\ failed \in BOOLEAN /\ clean \in BOOLEAN
    /\ starts \in Nat /\ hups \in Nat /\ troubles \in Nat

(* As long as no call fails and no process is killed, nothing is lost:     *)
(* what was taken is in a file or in the buffer, and in a file once the    *)
(* output has stopped; through rollovers, restarts and a -check run.       *)
CleanStopLosesNothing ==
    clean => taken \subseteq IF Running THEN OnDisk \cup buffer ELSE OnDisk

(* Who has an event.                                                       *)
StatusOf(e) ==
    CASE e \in OnDisk -> "disk"
      [] e \notin OnDisk /\ e \in buffer -> "memory"
      [] e \notin OnDisk \cup buffer /\ e \in taken -> "lost"
      [] OTHER -> "new"

(* The output keeps custody of every event that is in a file: no rollover, *)
(* restart or -check run puts a file in the place of another.              *)
Custody == INSTANCE EventCustody WITH status <- [e \in Event |-> StatusOf(e)]
KeepsCustody == Custody!Spec

(* The output keeps the promise the process relies on: after it has left   *)
(* its loop it takes nothing, and it broadcasts its exit with an empty     *)
(* buffer unless a call has failed.                                        *)
Phase ==
    CASE loop \in {"select", "output", "rename"} \/ (loop \in {"open", "reopen"} /\ why # "start") -> "select"
      [] loop \in {"return", "close", "signal"} -> "cleanup"
      [] loop = "stopped" -> "stopped"
      [] OTHER -> "down"
Promise == INSTANCE OutputPromise WITH
    phase <- Phase, held <- buffer, failed <- Phase # "down" /\ failed
KeepsPromise == Promise!Spec

(* What is buffered reaches a file, without further events to push it: the *)
(* tick flushes, and a failed flush is repeated.                           *)
BufferReachesDisk ==
    \A e \in Event : (e \in buffer) ~> (e \in OnDisk \/ ~Running)

-----------------------------------------------------------------------------
(* The inductive invariant behind the safety properties (FileOutputProofs) *)

(* The names of days: each is past, and past also for the file that is     *)
(* open or about to be renamed.                                            *)
DaysArePast ==
    /\ lastRolledOver <= now
    /\ \A d \in Time : <<"daily", d>> \in exists =>
          /\ d < Day(now)
          /\ loop \in {"select", "output", "rename"} => d < Day(lastRolledOver)
    /\ loop = "rename" => /\ why = "daily" => Day(lastRolledOver) < Day(now)
                          /\ why = "hup" => Stamp("hup", lastRolledOver) \notin exists

(* The open file has a name, and the live file is empty before it exists.  *)
FilesHaveNames ==
    /\ fd # NoFile => fd \in exists
    /\ Live \notin exists => data[Live] = {}

(* Where the buffer may hold something.                                    *)
BufferAccounted ==
    /\ loop \in {"select", "output"} => fd # NoFile
    /\ ~Running => buffer = {}
    /\ loop \in {"open", "reopen"} /\ why = "start" => buffer = {} /\ ~failed
    /\ fd = NoFile => buffer = {} \/ failed
    /\ clean => ~failed

NothingInvented == OnDisk \cup buffer \subseteq taken

IInv ==
    /\ TypeOK /\ (loop = "rename" => why # "start")
    /\ DaysArePast /\ FilesHaveNames /\ BufferAccounted /\ NothingInvented /\ CleanStopLosesNothing
=============================================================================
