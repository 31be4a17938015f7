--------------------------- MODULE ServicedProofs ---------------------------
(* Proofs about Serviced: go-serviced keeps track of the one forwarder.    *)
EXTENDS Serviced, FiniteSetTheorems, TLAPS

LEMMA FreshPids == Fresh \subseteq Pid
BY DEF Fresh

LEMMA TypeInit == Init => TypeOK
BY DEF Init, TypeOK, Actor

LEMMA TypeNext == TypeOK /\ [Next]_vars => TypeOK'
<1> SUFFICES ASSUME TypeOK, [Next]_vars PROVE TypeOK' OBVIOUS
<1> USE DEF TypeOK, procVars, Goto, Actor, Main
<1>1. ASSUME NEW p \in Pid, WritePid(p) \/ Dies(p) PROVE TypeOK'
    BY <1>1 DEF WritePid, Dies
<1>2. ASSUME NEW a \in Actor, LockStep(a) \/ LaunchFails(a) \/ FinishStep(a) PROVE TypeOK'
    <2>1. CASE AlreadyRunning(a)
        BY <2>1, <1>2 DEF AlreadyRunning, Return
    <2>2. CASE Launch(a)
        <3>1. PICK p \in Pid : alive' = alive \cup {p} /\ starting' = starting \cup {p} /\ process' = p
            BY <2>2, FreshPids DEF Launch
        <3> QED BY <2>2, <1>2, <3>1 DEF Launch
    <2>3. CASE LaunchFails(a)
        BY <2>3 DEF LaunchFails
    <2>4. CASE FinishStart(a)
        BY <2>4, <1>2 DEF FinishStart, Return
    <2>5. CASE AlreadyStopped(a)
        BY <2>5, <1>2 DEF AlreadyStopped, Return
    <2>6. CASE Kill(a)
        <3>1. servicePid \in Pid
            BY <2>6, ServicedNames DEF Kill, CheckPid
        <3> QED BY <2>6, <1>2, <3>1 DEF Kill
    <2>7. CASE FinishStop(a)
        BY <2>7, <1>2 DEF FinishStop, Return
    <2> QED BY <1>2, <2>1, <2>2, <2>3, <2>4, <2>5, <2>6, <2>7 DEF LockStep, FinishStep
<1>3. CASE MainStep \/ Interrupt
    <2>1. CASE Wait
        BY <2>1 DEF Wait
    <2>2. CASE Boot \/ Tick \/ Reap \/ ReadAgain \/ ReleaseProcess \/ Shutdown \/ Interrupt
        BY <2>2 DEF Boot, Tick, Reap, ReadAgain, ReleaseProcess, Shutdown, Interrupt
    <2> QED BY <1>3, <2>1, <2>2 DEF MainStep
<1>4. ASSUME NEW r \in Request, RequestStep(r) PROVE TypeOK'
    <2>1. CASE BeginCheck(r)
        BY <2>1, <1>4 DEF BeginCheck
    <2>2. CASE EndCheck(r)
        BY <2>2, <1>4 DEF EndCheck, AfterCheck, Checking
    <2>3. CASE LockedCheck(r)
        BY <2>3, <1>4 DEF LockedCheck
    <2> QED BY <1>4, <2>1, <2>2, <2>3 DEF RequestStep
<1>5. CASE UNCHANGED vars
    BY <1>5 DEF vars
<1> QED BY <1>1, <1>2, <1>3, <1>4, <1>5 DEF Next

(* The type invariant holds throughout.                                    *)
THEOREM TypeCorrect == Spec => []TypeOK
BY TypeInit, TypeNext, PTL DEF Spec

-----------------------------------------------------------------------------
LEMMA IInvInit == Init => IInv
<1> SUFFICES ASSUME Init PROVE IInv OBVIOUS
<1>1. \A a \in Actor : pc[a] \in {"boot", "idle"} /\ mutex # a
    BY ServicedNames DEF Init, Actor, Main
<1> QED
    BY <1>1, TypeInit DEF Init, IInv, MutexHeld, InstanceKnown, ChecksRecent, StateFileTruthful, Actor

Inside == {"sleep", "stopping"}

LEMMA ReturnGoes ==
    ASSUME NEW a, Return(a)
    PROVE  \E l \in {"respond", "shutdown", "loop"} : pc' = [pc EXCEPT ![a] = l]
BY DEF Return, Goto

(* A step that only moves an actor that is outside StartService and        *)
(* StopService, and does not begin a check.                                *)
LEMMA QuietStep ==
    ASSUME IInv, TypeOK', NEW a \in Actor, NEW l, l \notin Inside \cup Checking,
           pc[a] \notin Inside, pc' = [pc EXCEPT ![a] = l],
           UNCHANGED <<alive, starting, pidfile, stateFile, servicePid, mutex>>,
           \A r \in Request : pc'[r] \in Checking => seen'[r] = seen[r]
    PROVE  IInv'
<1>1. \A b \in Actor : pc'[b] = IF b = a THEN l ELSE pc[b]
    BY DEF IInv, TypeOK
<1>2. \A r \in Request : pc'[r] \in Checking => pc[r] \in Checking
    BY <1>1 DEF Actor
<1>3. MutexHeld'
    BY <1>1 DEF IInv, MutexHeld, Inside
<1>4. InstanceKnown' /\ StateFileTruthful'
    BY <1>1 DEF IInv, InstanceKnown, StateFileTruthful, Inside
<1>5. ChecksRecent'
    BY <1>2 DEF IInv, ChecksRecent, Checking
<1> QED BY <1>3, <1>4, <1>5 DEF IInv

(* While the mutex is free nobody is inside.                               *)
LEMMA NobodyInside ==
    ASSUME IInv, mutex = "free"
    PROVE  \A a \in Actor : pc[a] \notin Inside
BY ServicedNames DEF IInv, MutexHeld, Inside, Actor, Main

LEMMA IInvNext ==
    ASSUME Prompt, IInv, [Next]_vars
    PROVE  IInv'
<1>type. TypeOK /\ TypeOK'
    BY TypeNext DEF IInv
<1>free. "free" \notin Actor
    BY ServicedNames DEF Actor, Main
<1>names. "free" \notin Actor /\ NoPid \notin Pid /\ Main \notin Request /\ Main \in Actor /\ Request \subseteq Actor
    BY <1>free, ServicedNames DEF Actor
<1> USE DEF procVars
<1>1. ASSUME NEW p \in Pid, WritePid(p) PROVE IInv'
    BY <1>1, <1>type DEF WritePid, TypeOK, IInv, MutexHeld, InstanceKnown, ChecksRecent, StateFileTruthful
<1>2. ASSUME NEW p \in Pid, Dies(p) PROVE IInv'
    BY <1>2, <1>type DEF Dies, TypeOK, IInv, MutexHeld, InstanceKnown, ChecksRecent, StateFileTruthful
<1>3. ASSUME NEW a \in Actor, AlreadyRunning(a) PROVE IInv'
    <2>1. PICK l \in {"respond", "shutdown", "loop"} : pc' = [pc EXCEPT ![a] = l]
        BY <1>3, ReturnGoes DEF AlreadyRunning
    <2> QED BY <1>3, <2>1, <1>type, QuietStep DEF AlreadyRunning, Inside, Checking
<1>4. ASSUME NEW a \in Actor, LaunchFails(a) PROVE IInv'
    <2>1. pc[Main] \notin Inside
        BY <1>4, <1>names, NobodyInside DEF LaunchFails
    <2> QED BY <1>4, <2>1, <1>type, <1>names, QuietStep DEF LaunchFails, Goto, Inside, Checking
<1>5. ASSUME NEW a \in Actor, Launch(a) PROVE IInv'
    <2>1. PICK p \in Pid : alive' = alive \cup {p} /\ starting' = starting \cup {p}
        BY <1>5, FreshPids DEF Launch
    <2>2. alive = {}
        BY <1>5 DEF Launch, CheckPid, IInv, InstanceKnown
    <2>3. \A b \in Actor : pc'[b] = IF b = a THEN "sleep" ELSE pc[b]
        BY <1>5, <1>type DEF Launch, Goto, TypeOK
    <2>4. \A b \in Actor : pc[b] \notin Inside
        BY <1>5, NobodyInside DEF Launch
    <2>5. MutexHeld'
        BY <1>5, <2>3, <2>4 DEF Launch, MutexHeld, Inside
    <2>6. InstanceKnown'
        BY <1>5, <1>names, <2>1, <2>2, <2>3, <2>4 DEF Launch, InstanceKnown, Inside
    <2>7. ChecksRecent' /\ StateFileTruthful'
        BY <1>5, <1>names, <2>3 DEF Launch, ChecksRecent, StateFileTruthful
    <2> QED BY <1>type, <2>5, <2>6, <2>7 DEF IInv
<1>6. ASSUME NEW a \in Actor, FinishStart(a) PROVE IInv'
    <2>1. PICK l \in {"respond", "shutdown", "loop"} : pc' = [pc EXCEPT ![a] = l]
        BY <1>6, ReturnGoes DEF FinishStart
    <2>2. \A b \in Actor : pc'[b] = IF b = a THEN l ELSE pc[b]
        BY <2>1, <1>type DEF TypeOK
    <2>3. mutex = a /\ \A b \in Actor \ {a} : pc[b] \notin Inside
        BY <1>6 DEF FinishStart, IInv, MutexHeld, Inside
    <2>4. starting = {} /\ \A r \in Request : pc[r] \notin Checking
        BY <1>6 DEF FinishStart, Checking
    <2>5. servicePid = NoPid /\ alive \subseteq {pidfile}
        BY <1>6, <2>4 DEF FinishStart, IInv, InstanceKnown
    <2>6. pidfile = NoPid => alive = {}
        BY <2>5, <1>names, <1>type DEF TypeOK
    <2>7. MutexHeld'
        BY <1>6, <1>names, <2>2, <2>3 DEF FinishStart, MutexHeld, Inside
    <2>8. InstanceKnown'
        BY <1>6, <2>2, <2>3, <2>5, <2>6 DEF FinishStart, IInv, InstanceKnown, Inside
    <2>9. ChecksRecent'
        BY <1>names, <2>2, <2>4 DEF ChecksRecent, Checking
    <2>10. StateFileTruthful'
        BY <1>6, <2>6 DEF FinishStart, StateFileTruthful
    <2> QED BY <1>type, <2>7, <2>8, <2>9, <2>10 DEF IInv
<1>7. ASSUME NEW a \in Actor, AlreadyStopped(a) PROVE IInv'
    <2>1. PICK l \in {"respond", "shutdown", "loop"} : pc' = [pc EXCEPT ![a] = l]
        BY <1>7, ReturnGoes DEF AlreadyStopped
    <2>2. \A b \in Actor : pc'[b] = IF b = a THEN l ELSE pc[b]
        BY <2>1, <1>type DEF TypeOK
    <2>3. alive = {}
        BY <1>7 DEF AlreadyStopped, CheckPid, IInv, InstanceKnown
    <2>4. \A b \in Actor : pc[b] \notin Inside
        BY <1>7, NobodyInside DEF AlreadyStopped
    <2>5. MutexHeld' /\ InstanceKnown' /\ StateFileTruthful'
        BY <1>7, <1>names, <2>2, <2>3, <2>4
           DEF AlreadyStopped, IInv, MutexHeld, InstanceKnown, StateFileTruthful, Inside
    <2>6. ChecksRecent'
        BY <1>7 DEF AlreadyStopped, ChecksRecent
    <2> QED BY <1>type, <2>5, <2>6 DEF IInv
<1>8. ASSUME NEW a \in Actor, Kill(a) PROVE IInv'
    <2>1. alive' = {}
        BY <1>8 DEF Kill, IInv, InstanceKnown
    <2>2. \A b \in Actor : pc'[b] = IF b = a THEN "stopping" ELSE pc[b]
        BY <1>8, <1>type DEF Kill, Goto, TypeOK
    <2>3. \A b \in Actor : pc[b] \notin Inside
        BY <1>8, NobodyInside DEF Kill
    <2>4. MutexHeld'
        BY <1>8, <2>2, <2>3 DEF Kill, MutexHeld, Inside
    <2>5. InstanceKnown' /\ ChecksRecent' /\ StateFileTruthful'
        BY <1>8, <2>1, <2>2, <2>3 DEF Kill, InstanceKnown, ChecksRecent, StateFileTruthful, Inside
    <2> QED BY <1>type, <2>4, <2>5 DEF IInv
<1>9. ASSUME NEW a \in Actor, FinishStop(a) PROVE IInv'
    <2>1. PICK l \in {"respond", "shutdown", "loop"} : pc' = [pc EXCEPT ![a] = l]
        BY <1>9, ReturnGoes DEF FinishStop
    <2>2. \A b \in Actor : pc'[b] = IF b = a THEN l ELSE pc[b]
        BY <2>1, <1>type DEF TypeOK
    <2>3. mutex = a /\ \A b \in Actor \ {a} : pc[b] \notin Inside
        BY <1>9 DEF FinishStop, IInv, MutexHeld, Inside
    <2>4. servicePid = NoPid /\ alive = {}
        BY <1>9 DEF FinishStop, IInv, InstanceKnown
    <2>5. MutexHeld'
        BY <1>9, <1>names, <2>2, <2>3 DEF FinishStop, MutexHeld, Inside
    <2>6. InstanceKnown' /\ ChecksRecent' /\ StateFileTruthful'
        BY <1>9, <2>2, <2>3, <2>4 DEF FinishStop, InstanceKnown, ChecksRecent, StateFileTruthful, Inside
    <2> QED BY <1>type, <2>5, <2>6 DEF IInv
<1>10. CASE MainStep \/ Interrupt
    <2>1. PICK l \in {"start", "loop", "wait", "waited", "waiting", "release", "stop", "exited"} :
              pc' = [pc EXCEPT ![Main] = l]
        BY <1>10 DEF MainStep, Interrupt, Boot, Tick, Wait, Reap, ReadAgain, ReleaseProcess, Shutdown, Goto
    <2>2. pc[Main] \notin Inside
        BY <1>10 DEF MainStep, Interrupt, Boot, Tick, Wait, Reap, ReadAgain, ReleaseProcess, Shutdown, Inside
    <2>3. UNCHANGED <<alive, starting, pidfile, stateFile, servicePid, mutex>>
        BY <1>10 DEF MainStep, Interrupt, Boot, Tick, Wait, Reap, ReadAgain, ReleaseProcess, Shutdown
    <2>4. \A r \in Request : seen'[r] = seen[r]
        BY <1>10, <1>names, <1>type
           DEF MainStep, Interrupt, Boot, Tick, Wait, Reap, ReadAgain, ReleaseProcess, Shutdown, TypeOK
    <2> QED BY <2>1, <2>2, <2>3, <2>4, <1>names, <1>type, QuietStep DEF Inside, Checking
<1>11. ASSUME NEW r \in Request, BeginCheck(r) PROVE IInv'
    <2>1. PICK l \in Checking : \A b \in Actor : pc'[b] = IF b = r THEN l ELSE pc[b]
        BY <1>11, <1>type DEF BeginCheck, Goto, TypeOK, Checking
    <2>2. \A s \in Request : seen'[s] = IF s = r THEN servicePid ELSE seen[s]
        BY <1>11, <1>names, <1>type DEF BeginCheck, TypeOK
    <2>3. ChecksRecent'
        BY <1>11, <1>names, <2>1, <2>2 DEF BeginCheck, IInv, ChecksRecent
    <2>4. MutexHeld' /\ InstanceKnown' /\ StateFileTruthful'
        BY <1>11, <1>names, <2>1
           DEF BeginCheck, IInv, MutexHeld, InstanceKnown, StateFileTruthful, Checking
    <2> QED BY <1>type, <2>3, <2>4 DEF IInv
<1>12. ASSUME NEW r \in Request, EndCheck(r) PROVE IInv'
    <2>1. PICK l \in {"done", "lock", "stop", "start"} : \A b \in Actor : pc'[b] = IF b = r THEN l ELSE pc[b]
        BY <1>12, <1>type, <1>names DEF EndCheck, AfterCheck, Checking, Goto, TypeOK
    <2>2. \A s \in Request : s # r => seen'[s] = seen[s]
        BY <1>12, <1>names, <1>type DEF EndCheck, TypeOK
    <2>3. servicePid' # servicePid => servicePid' = NoPid /\ servicePid \notin alive
        BY <1>12 DEF EndCheck, CheckPid, IInv, ChecksRecent
    <2>4. servicePid' \in {servicePid, NoPid}
        BY <1>12 DEF EndCheck
    <2>5. MutexHeld' /\ StateFileTruthful'
        BY <1>12, <1>names, <2>1 DEF EndCheck, Checking, IInv, MutexHeld, StateFileTruthful
    <2>6. InstanceKnown'
        BY <1>12, <1>names, <2>1, <2>3, <2>4 DEF EndCheck, Checking, IInv, InstanceKnown
    <2>7. ChecksRecent'
        BY <1>names, <2>1, <2>2, <2>4 DEF IInv, ChecksRecent, Checking
    <2> QED BY <1>type, <2>5, <2>6, <2>7 DEF IInv
<1>13. ASSUME NEW r \in Request, LockedCheck(r) PROVE IInv'
    <2>1. \A b \in Actor : pc'[b] = IF b = r THEN "done" ELSE pc[b]
        BY <1>13, <1>type, <1>names DEF LockedCheck, Goto, TypeOK
    <2>2. \A b \in Actor : pc[b] \notin Inside
        BY <1>13, NobodyInside DEF LockedCheck
    <2>3. servicePid' \in {servicePid, NoPid} /\ alive \subseteq {servicePid'}
        BY <1>13 DEF LockedCheck, CheckPid, IInv, InstanceKnown
    <2>4. MutexHeld' /\ StateFileTruthful'
        BY <1>13, <1>names, <2>1, <2>2 DEF LockedCheck, IInv, MutexHeld, StateFileTruthful, Inside
    <2>5. InstanceKnown'
        BY <1>13, <1>names, <2>1, <2>2, <2>3 DEF LockedCheck, IInv, InstanceKnown, Inside
    <2>6. ChecksRecent'
        BY <1>13, <1>names, <2>1, <2>3 DEF LockedCheck, IInv, ChecksRecent, Checking
    <2> QED BY <1>type, <2>4, <2>5, <2>6 DEF IInv
<1>14. CASE UNCHANGED vars
    BY <1>14, <1>type DEF vars, IInv, MutexHeld, InstanceKnown, ChecksRecent, StateFileTruthful
<1> QED
    BY <1>1, <1>2, <1>3, <1>4, <1>5, <1>6, <1>7, <1>8, <1>9, <1>10, <1>11, <1>12, <1>13, <1>14
       DEF Next, LockStep, FinishStep, RequestStep

LEMMA KnownIsOne ==
    ASSUME InstanceKnown
    PROVE  OneInstance
<1>1. CASE alive = {}
    BY <1>1, FS_EmptySet DEF OneInstance
<1>2. ASSUME NEW p \in alive PROVE OneInstance
    <2>1. alive = {p}
        BY <1>2 DEF InstanceKnown
    <2>2. Cardinality(alive) = 1
        BY <2>1, FS_Singleton
    <2> QED BY <2>2 DEF InstanceKnown, OneInstance
<1> QED BY <1>1, <1>2

(* OneInstance, for any number of requests and crashes: if what is begun   *)
(* before a launch ends in the three seconds after it, two forwarders      *)
(* never run at once and go-serviced does not lose track of the one that   *)
(* runs.                                                                   *)
THEOREM OneForwarder ==
    ASSUME Prompt
    PROVE  Spec => []OneInstance
<1>1. IInv /\ [Next]_vars => IInv'
    BY IInvNext
<1>2. IInv => OneInstance
    BY KnownIsOne DEF IInv
<1> QED BY <1>1, <1>2, IInvInit, PTL DEF Spec

(* StateFileTruthful, likewise: what a restarted go-serviced reads as      *)
(* "stopped" was stopped.                                                  *)
THEOREM StoppedMeansStopped ==
    ASSUME Prompt
    PROVE  Spec => []StateFileTruthful
<1>1. IInv /\ [Next]_vars => IInv'
    BY IInvNext
<1>2. IInv => StateFileTruthful
    BY DEF IInv
<1> QED BY <1>1, <1>2, IInvInit, PTL DEF Spec
=============================================================================
