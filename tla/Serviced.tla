------------------------------ MODULE Serviced ------------------------------
(***************************************************************************)
(* go-serviced, which starts and stops the forwarder in a container        *)
(* (cmd/go-serviced/main.go): the handlers of its web service and the main *)
(* goroutine, which restarts a forwarder that has ended.                   *)
(*                                                                         *)
(* A forwarder is known by the pid it writes to the pid file. A process    *)
(* that has ended is a zombie until somebody waits for it, and kill -0     *)
(* still finds it. The state file survives go-serviced.                    *)
(*                                                                         *)
(* Left out: the handlers that only write files, a state file that cannot  *)
(* be written, a pid file that does not hold a number, and a forwarder     *)
(* that runs on without a pid file it could not write (handlePidFile only  *)
(* warns of it).                                                           *)
(***************************************************************************)
EXTENDS Integers, FiniteSets

CONSTANTS
    Request,      \* requests to the web service, each handled by a goroutine of its own
    Pid,          \* process ids
    Prompt,       \* what is begun before a launch ends in the three seconds after it, and
                  \* the forwarder has written its pid by then
    MaxCrashes    \* bound: forwarders that end by themselves

Main == "main"
NoPid == "none"           \* servicePid = -1, or no pid file
Released == "released"    \* process.Process after Release
Actor == Request \cup {Main}

ASSUME ServicedNames == {NoPid, Released} \cap Pid = {} /\ {Main, "free"} \cap Request = {}
ASSUME ServicedConfig == Prompt \in BOOLEAN /\ MaxCrashes \in Nat

VARIABLES
    alive,        \* forwarders that run
    starting,     \* those that have not yet written the pid file
    zombie,       \* those that have ended and have not been waited for
    pidfile,
    stateFile,    \* "absent", "started" or "stopped"
    servicePid,
    process,      \* the global process: NoPid before the first start
    mutex,        \* serviceMutex: an actor or "free"
    pc,           \* where each actor is
    seen,         \* pid that a status check looks at
    crashes

procVars == <<alive, starting, zombie, pidfile, crashes>>
vars == <<procVars, stateFile, servicePid, process, mutex, pc, seen>>

Running == pc[Main] # "exited"
Goto(a, l) == pc' = [pc EXCEPT ![a] = l]

Init ==
    /\ alive = {} /\ starting = {} /\ zombie = {} /\ pidfile = NoPid
    /\ stateFile \in {"absent", "started", "stopped"}
    /\ servicePid = NoPid /\ process = NoPid /\ mutex = "free"
    /\ pc = [a \in Actor |-> IF a = Main THEN "boot" ELSE "idle"]
    /\ seen = [a \in Actor |-> NoPid] /\ crashes = 0

(* ReadStateFile: what cannot be read counts as started.                   *)
ReadStateFile == IF stateFile = "stopped" THEN "stopped" ELSE "started"

(* checkPid: kill -0 finds a process that runs, and a zombie.              *)
CheckPid(p) == p \in alive \cup zombie

\* Where an request inside GetProcessStatus(false) is, without the mutex.
Checking == {"checking", "responding", "getting"}

Fresh == Pid \ (alive \cup zombie \cup {pidfile, servicePid, process} \cup {seen[a] : a \in Actor})

-----------------------------------------------------------------------------
(* The forwarders                                                          *)

WritePid(p) ==
    /\ p \in starting
    /\ starting' = starting \ {p} /\ pidfile' = p
    /\ UNCHANGED <<alive, zombie, crashes, stateFile, servicePid, process, mutex, pc, seen>>

Dies(p) ==
    /\ Running /\ p \in alive /\ crashes < MaxCrashes /\ crashes' = crashes + 1
    /\ alive' = alive \ {p} /\ starting' = starting \ {p} /\ zombie' = zombie \cup {p}
    /\ UNCHANGED <<pidfile, stateFile, servicePid, process, mutex, pc, seen>>

-----------------------------------------------------------------------------
(* StartService and StopService, under serviceMutex                        *)

\* Where an actor goes on after either.
Return(a) == Goto(a, IF a # Main THEN "respond" ELSE IF pc[Main] \in {"stop", "stopping"} THEN "shutdown" ELSE "loop")

AlreadyRunning(a) ==
    /\ Running /\ pc[a] = "start" /\ mutex = "free" /\ CheckPid(servicePid)
    /\ Return(a)
    /\ UNCHANGED <<procVars, stateFile, servicePid, process, mutex, seen>>

\* Mutant: StartService does not look whether the service runs.
LaunchAlways(a) ==
    /\ Running /\ pc[a] = "start" /\ mutex = "free"
    /\ LET p == CHOOSE q \in Fresh : TRUE IN
          /\ Fresh # {}
          /\ alive' = alive \cup {p} /\ starting' = starting \cup {p} /\ process' = p
    /\ servicePid' = NoPid /\ mutex' = a /\ Goto(a, "sleep")
    /\ UNCHANGED <<zombie, pidfile, crashes, stateFile, seen>>

(* The forwarder is launched; the mutex is kept while StartService sleeps. *)
Launch(a) ==
    /\ Running /\ pc[a] = "start" /\ mutex = "free" /\ ~CheckPid(servicePid)
    /\ LET p == CHOOSE q \in Fresh : TRUE IN
          /\ Fresh # {}
          /\ alive' = alive \cup {p} /\ starting' = starting \cup {p} /\ process' = p
    /\ servicePid' = NoPid /\ mutex' = a /\ Goto(a, "sleep")
    /\ UNCHANGED <<zombie, pidfile, crashes, stateFile, seen>>

\* exec fails: log.Fatal ends go-serviced.
LaunchFails(a) ==
    /\ Running /\ pc[a] = "start" /\ mutex = "free" /\ ~CheckPid(servicePid)
    /\ Goto(Main, "exited")
    /\ UNCHANGED <<procVars, stateFile, servicePid, process, mutex, seen>>

\* Mutant: the state file is not written.
FinishStartUnwritten(a) ==
    /\ Running /\ pc[a] = "sleep"
    /\ Prompt => starting = {} /\ \A r \in Request : pc[r] \notin Checking
    /\ servicePid' = IF pidfile = NoPid THEN servicePid ELSE pidfile
    /\ mutex' = "free" /\ Return(a)
    /\ UNCHANGED <<procVars, stateFile, process, seen>>

(* Three seconds later: the pid file is read, whoever wrote it; without    *)
(* one, StartService returns.                                              *)
FinishStart(a) ==
    /\ Running /\ pc[a] = "sleep"
    /\ Prompt => starting = {} /\ \A r \in Request : pc[r] \notin Checking
    /\ IF pidfile = NoPid THEN UNCHANGED <<servicePid, stateFile>>
                          ELSE servicePid' = pidfile /\ stateFile' = "started"
    /\ mutex' = "free" /\ Return(a)
    /\ UNCHANGED <<procVars, process, seen>>

AlreadyStopped(a) ==
    /\ Running /\ pc[a] = "stop" /\ mutex = "free" /\ ~CheckPid(servicePid)
    /\ servicePid' = NoPid /\ Return(a)
    /\ UNCHANGED <<procVars, stateFile, process, mutex, seen>>

(* SIGKILL, and the global process is released ...                         *)
Kill(a) ==
    /\ Running /\ pc[a] = "stop" /\ mutex = "free" /\ CheckPid(servicePid)
    /\ alive' = alive \ {servicePid} /\ starting' = starting \ {servicePid}
    /\ zombie' = zombie \cup {servicePid}
    /\ process' = Released /\ servicePid' = NoPid
    /\ mutex' = a /\ Goto(a, "stopping")
    /\ UNCHANGED <<pidfile, crashes, stateFile, seen>>

\* Mutant: the mutex is not given back.
FinishStopLocked(a) ==
    /\ Running /\ pc[a] = "stopping"
    /\ stateFile' = "stopped" /\ Return(a)
    /\ UNCHANGED <<procVars, servicePid, process, mutex, seen>>

(* ... and the state file is written.                                      *)
FinishStop(a) ==
    /\ Running /\ pc[a] = "stopping"
    /\ stateFile' = "stopped" /\ mutex' = "free" /\ Return(a)
    /\ UNCHANGED <<procVars, servicePid, process, seen>>

-----------------------------------------------------------------------------
(* The handlers: ChangeService looks at the status, starts or stops, and   *)
(* looks again; GetStatusResponse looks without and then with the mutex.   *)

BeginCheck(r) ==
    /\ Running
    /\ \/ pc[r] = "idle" /\ pc[Main] # "shutdown" /\ (Goto(r, "checking") \/ Goto(r, "getting"))
       \/ pc[r] = "respond" /\ Goto(r, "responding")
    /\ seen' = [seen EXCEPT ![r] = servicePid]
    /\ UNCHANGED <<procVars, stateFile, servicePid, process, mutex>>

\* Where a handler goes on after the check.
AfterCheck(l, found) ==
    CASE l = "responding" -> "done"
      [] l = "getting"    -> "lock"
      [] l = "checking"   -> IF found THEN "stop" ELSE "start"

(* servicePid is read once for the test and once for kill; kill with -1,   *)
(* when it was cleared in between, succeeds.                               *)
EndCheck(r) ==
    /\ Running /\ pc[r] \in Checking
    /\ \E p \in {seen[r], servicePid} :
          LET found == seen[r] # NoPid /\ (p = NoPid \/ CheckPid(p))
          IN  /\ servicePid' = IF seen[r] = NoPid \/ found THEN servicePid ELSE NoPid
              /\ Goto(r, AfterCheck(pc[r], found))
    /\ seen' = [seen EXCEPT ![r] = NoPid]
    /\ UNCHANGED <<procVars, stateFile, process, mutex>>

(* GetProcessStatus(true)                                                  *)
LockedCheck(r) ==
    /\ Running /\ pc[r] = "lock" /\ mutex = "free"
    /\ servicePid' = IF CheckPid(servicePid) THEN servicePid ELSE NoPid
    /\ Goto(r, "done")
    /\ UNCHANGED <<procVars, stateFile, process, mutex, seen>>

-----------------------------------------------------------------------------
(* The main goroutine                                                      *)

Boot ==
    /\ pc[Main] = "boot"
    /\ Goto(Main, IF ReadStateFile = "started" THEN "start" ELSE "loop")
    /\ UNCHANGED <<procVars, stateFile, servicePid, process, mutex, seen>>

(* ensureServiceIsRunning, every ten seconds ...                           *)
Tick ==
    /\ pc[Main] = "loop" /\ ReadStateFile = "started"
    /\ Goto(Main, "wait")
    /\ UNCHANGED <<procVars, stateFile, servicePid, process, mutex, seen>>

(* ... waits for the process. Wait fails at once on one that is released   *)
(* or was waited for before.                                               *)
Wait ==
    /\ pc[Main] = "wait"
    /\ IF process \notin alive \cup zombie THEN Goto(Main, "waited") /\ UNCHANGED seen
       ELSE Goto(Main, "waiting") /\ seen' = [seen EXCEPT ![Main] = process]
    /\ UNCHANGED <<procVars, stateFile, servicePid, process, mutex>>

Reap ==
    /\ pc[Main] = "waiting" /\ seen[Main] \in zombie
    /\ zombie' = zombie \ {seen[Main]}
    /\ seen' = [seen EXCEPT ![Main] = NoPid] /\ Goto(Main, "waited")
    /\ UNCHANGED <<alive, starting, pidfile, crashes, stateFile, servicePid, process, mutex>>

ReadAgain ==
    /\ pc[Main] = "waited"
    /\ Goto(Main, IF ReadStateFile = "started" THEN "release" ELSE "loop")
    /\ UNCHANGED <<procVars, stateFile, servicePid, process, mutex, seen>>

\* Mutant: the pid is overwritten instead of the process.
ReleaseProcessPid ==
    /\ pc[Main] = "release"
    /\ servicePid' = Released /\ Goto(Main, "start")
    /\ UNCHANGED <<procVars, stateFile, process, mutex, seen>>

ReleaseProcess ==
    /\ pc[Main] = "release"
    /\ process' = Released /\ Goto(Main, "start")
    /\ UNCHANGED <<procVars, stateFile, servicePid, mutex, seen>>

\* SIGINT, seen only between two ticks.
Interrupt ==
    /\ pc[Main] = "loop"
    /\ Goto(Main, "stop")
    /\ UNCHANGED <<procVars, stateFile, servicePid, process, mutex, seen>>

(* The rest of ShutdownService: the listener is closed, and requests under *)
(* way have five seconds. One that starts a forwarder leaves it running.   *)
Shutdown ==
    /\ pc[Main] = "shutdown"
    /\ Goto(Main, "exited")
    /\ UNCHANGED <<procVars, stateFile, servicePid, process, mutex, seen>>

-----------------------------------------------------------------------------
LockStep(a) == AlreadyRunning(a) \/ Launch(a) \/ AlreadyStopped(a) \/ Kill(a)
FinishStep(a) == FinishStart(a) \/ FinishStop(a)
MainStep == Boot \/ Tick \/ Wait \/ Reap \/ ReadAgain \/ ReleaseProcess \/ Shutdown
RequestStep(r) == BeginCheck(r) \/ EndCheck(r) \/ LockedCheck(r)

Next ==
    \/ \E p \in Pid : WritePid(p) \/ Dies(p)
    \/ \E a \in Actor : LockStep(a) \/ LaunchFails(a) \/ FinishStep(a)
    \/ MainStep \/ Interrupt
    \/ \E r \in Request : RequestStep(r)
    \/ ~Running /\ UNCHANGED vars

Spec == Init /\ [][Next]_vars

(* Goroutines are scheduled fairly, the ticker ticks, the mutex is given   *)
(* to everyone who waits, a check that has begun ends, and a forwarder     *)
(* that runs writes its pid file.                                          *)
Fairness ==
    /\ WF_vars(MainStep)
    /\ \A p \in Pid : WF_vars(WritePid(p))
    /\ \A a \in Actor : SF_vars(LockStep(a)) /\ SF_vars(FinishStep(a))
    /\ \A r \in Request :
          /\ WF_vars(EndCheck(r)) /\ WF_vars(pc[r] = "respond" /\ BeginCheck(r))
          /\ SF_vars(LockedCheck(r))

FairSpec == Spec /\ Fairness

-----------------------------------------------------------------------------
(* Properties                                                              *)

(* The type invariant.                                                     *)
TypeOK ==
    /\ alive \subseteq Pid /\ starting \subseteq alive /\ zombie \subseteq Pid
    /\ pidfile \in Pid \cup {NoPid} /\ servicePid \in Pid \cup {NoPid}
    /\ stateFile \in {"absent", "started", "stopped"}
    /\ process \in Pid \cup {NoPid, Released} /\ mutex \in Actor \cup {"free"}
    /\ pc \in [Actor -> {"boot", "loop", "wait", "waiting", "waited", "release", "shutdown", "exited", "idle",
                         "checking", "start", "sleep", "stop", "stopping", "respond", "responding",
                         "getting", "lock", "done"}]
    /\ seen \in [Actor -> Pid \cup {NoPid}] /\ crashes \in Nat

(* Two forwarders never run at once, and between two operations the one    *)
(* that runs is the one StopService would kill: starts by requests, by the *)
(* crash check and at boot, and checks that take no lock, do not make      *)
(* go-serviced lose track of it.                                           *)
OneInstance ==
    /\ Cardinality(alive) <= 1
    /\ mutex = "free" => alive \subseteq {servicePid}

(* The state file, which decides what a restarted go-serviced does, says   *)
(* "stopped" only when nothing runs.                                       *)
StateFileTruthful == mutex = "free" /\ stateFile = "stopped" => alive = {}

(* Every request is answered in the end.                                   *)
RequestsEnd == \A r \in Request : pc[r] # "idle" ~> pc[r] = "done" \/ ~Running

(* A forwarder that has ended is started again, unless a request has       *)
(* stopped the service (ensureServiceIsRunning).                           *)
CrashedIsRestarted ==
    alive = {} /\ stateFile = "started" ~> alive # {} \/ stateFile = "stopped" \/ ~Running

-----------------------------------------------------------------------------
(* The inductive invariant behind OneInstance and StateFileTruthful, when  *)
(* Prompt holds (ServicedProofs)                                           *)

(* The mutex is with the actor that is inside StartService or StopService. *)
MutexHeld == \A a \in Actor : pc[a] \in {"sleep", "stopping"} <=> mutex = a

(* Who runs is known by servicePid or, in the three seconds after a        *)
(* launch, will be by the pid file.                                        *)
InstanceKnown ==
    /\ \A p, q \in alive : p = q
    /\ mutex = "free" => alive \subseteq {servicePid}
    /\ \A a \in Actor :
          /\ pc[a] = "sleep" => servicePid = NoPid /\ alive \subseteq starting \cup {pidfile}
          /\ pc[a] = "stopping" => servicePid = NoPid /\ alive = {}

(* A check without the lock cannot clear the pid of a later forwarder.     *)
ChecksRecent ==
    \A r \in Request : pc[r] \in Checking => servicePid \in {seen[r], NoPid}

IInv == TypeOK /\ MutexHeld /\ InstanceKnown /\ ChecksRecent /\ StateFileTruthful
=============================================================================
