------------------------ MODULE KataDriverExitProofs ------------------------
(***************************************************************************)
(* The driver's view of its containers, as long as DestroyTask sees the    *)
(* exits it waits for: a container runs only while the goroutine of its    *)
(* task is at a stage that goes with it or the driver has lost sight of    *)
(* it, which over any crashes is the contract of the task.  While the      *)
(* plugin lives somebody waits for every container in sight, so a VM that  *)
(* is torn down has none of them.  Kills need not be prompt.               *)
(***************************************************************************)
EXTENDS KataDriverVerdictProofs

\* No two tasks share a container ID.
DistinctContainers == \A t, u \in Callers : ContainerID[t] = ContainerID[u] => t = u

\* Somebody waits for the exit of every container that runs, unless the wait
\* failed.
RunningIsAwaited ==
    \A t \in Callers :
        task[cid(t)] \in Alive => t \in unseen \/ \E k \in Slots : run[t][k] = "wait"

-----------------------------------------------------------------------------
(* What a step does to the container of a task.                            *)

\* Nothing is added under the ID, what is alive stays so, and a container goes
\* only without a task.
Keeps(x) ==
    /\ task'[x] \in Alive <=> task[x] \in Alive
    /\ task'[x] # "none" => task[x] # "none"
    /\ x \in containers' => x \in containers
    /\ x \in containers \ containers' => task'[x] = "none"

\* The two steps that add something.
Creates(t) ==
    /\ pc[t] = "acquire" /\ pc' = [pc EXCEPT ![t] = "launch"]
    /\ cid(t) \notin containers /\ containers' = containers \cup {cid(t)}
    /\ UNCHANGED <<task, h, run>>

Starts(t, k) ==
    /\ RunMove(t, k, "open", "wait")
    /\ cid(t) \in containers /\ task[cid(t)] = "none" /\ task[sid(t)] = "running"
    /\ task' = [task EXCEPT ![cid(t)] = "running"]
    /\ UNCHANGED <<containers, pc, h, unseen>>

\* Most operations of containerd keep what is under an ID, the others keep what
\* is under another ID or when they fail.
LEMMA OpKeeps ==
    ASSUME CtrTypeOK, NEW x \in Ids, NEW id \in Ids, NEW ok \in BOOLEAN,
           \/ KillTask(id) \/ DeleteTask(id) \/ DeleteContainer(id)
           \/ DeleteSandboxMetadata(id) \/ CreateSandboxMetadata(id, ok) \/ UNCHANGED ctrVars
           \/ /\ id # x \/ ~ok
              /\ CreateContainer(id, ok) \/ StartTaskDetached(id, ok)
    PROVE  Keeps(x)
<1> USE DEF CtrTypeOK, Keeps, Alive
<1>1. CASE KillTask(id) \/ DeleteTask(id)
  BY <1>1 DEF KillTask, DeleteTask
<1>2. CASE DeleteContainer(id)
  BY <1>2 DEF DeleteContainer
<1>3. CASE DeleteSandboxMetadata(id) \/ CreateSandboxMetadata(id, ok) \/ UNCHANGED ctrVars
  BY <1>3 DEF DeleteSandboxMetadata, CreateSandboxMetadata, ctrVars
<1>4. CASE (id # x \/ ~ok) /\ CreateContainer(id, ok)
  BY <1>4 DEF CreateContainer
<1>5. CASE (id # x \/ ~ok) /\ StartTaskDetached(id, ok)
  BY <1>5 DEF StartTaskDetached
<1> QED
  BY <1>1, <1>2, <1>3, <1>4, <1>5

\* A step of a driver call adds nothing, except for the creation of the task's
\* own container.
LEMMA CallKeeps ==
    ASSUME DistinctIds, DistinctContainers, CtrTypeOK, LocalTypeOK,
           NEW u \in Callers, CallInProgress(u), NEW t \in Callers
    PROVE  Keeps(cid(t)) \/ (t = u /\ Creates(u))
<1> DEFINE x == cid(t)
<1>x. x \in Ids /\ sid(u) \in Ids /\ cid(u) \in Ids /\ sid(u) # x
  BY IdTypes DEF DistinctIds, cid, sid
<1>1. CASE CleanupContainer(u) \/ DestroyContainer(u) \/ ReleaseSandbox(u) \/ StopReturns(u)
  <2>1. \E id \in Ids : \/ KillTask(id) \/ DeleteTask(id) \/ DeleteContainer(id)
                        \/ DeleteSandboxMetadata(id) \/ UNCHANGED ctrVars
    BY <1>1, <1>x DEF CleanupContainer, DestroyContainer, ReleaseSandbox, StopReturns
  <2> QED
    BY <2>1, <1>x, OpKeeps, TRUE \in BOOLEAN
<1>2. CASE Acquire(u)
  <2>1. \E ok \in BOOLEAN :
           \/ CreateContainer(sid(u), ok) \/ CreateSandboxMetadata(sid(u), ok)
           \/ StartTaskDetached(sid(u), ok) \/ DeleteSandboxMetadata(sid(u))
           \/ DeleteContainer(sid(u)) \/ UNCHANGED ctrVars
    BY <1>2, OutcomeBoolean, TRUE \in BOOLEAN DEF Acquire
  <2> QED
    BY <2>1, <1>x, OpKeeps
<1>3. CASE CreateTask(u)
  <2>1. CASE UNCHANGED ctrVars
    BY <2>1, <1>x, OpKeeps, TRUE \in BOOLEAN
  <2>2. ASSUME NEW ok \in CreateResults(cid(u)), CreateContainer(cid(u), ok),
               IF ok THEN Move(u, "acquire", "launch") ELSE Move(u, "acquire", "release")
        PROVE  Keeps(x) \/ (t = u /\ Creates(u))
    <3>1. CASE cid(u) # x \/ ~ok
      BY <2>2, <3>1, <1>x, OpKeeps, OutcomeBoolean
    <3>2. CASE cid(u) = x /\ ok
      <4>1. t = u
        BY <3>2 DEF DistinctContainers, cid
      <4>2. Creates(u)
        BY <1>3, <2>2, <3>2 DEF Creates, CreateTask, CreateResults, CreateContainer, Move, handleVars
      <4> QED
        BY <4>1, <4>2
    <3> QED
      BY <3>1, <3>2
  <2> QED
    BY <1>3, <2>1, <2>2 DEF CreateTask
<1>4. CASE StartFails(u) \/ Launch(u) \/ AwaitKill(u) \/ Return(u) \/ Reattach(u)
  BY <1>4, <1>x, OpKeeps, TRUE \in BOOLEAN DEF StartFails, Launch, AwaitKill, Return, Reattach
<1> QED
  BY <1>1, <1>2, <1>3, <1>4 DEF CallInProgress

\* A step of a goroutine adds nothing, except for the start of the task's own
\* container.
LEMMA HandleKeeps ==
    ASSUME DistinctIds, DistinctContainers, CtrTypeOK, LocalTypeOK,
           NEW u \in Callers, NEW k \in Slots, HandleStep(u, k), NEW t \in Callers
    PROVE  Keeps(cid(t)) \/ (t = u /\ Starts(u, k))
<1> DEFINE x == cid(t)
<1>x. x \in Ids /\ sid(u) \in Ids /\ cid(u) \in Ids
  BY IdTypes
<1>1. CASE Run(u, k)
  <2>1. CASE UNCHANGED ctrVars
    BY <2>1, <1>x, OpKeeps, TRUE \in BOOLEAN
  <2>2. ASSUME NEW ok \in IF task[sid(u)] = "running" THEN StartResults(cid(u)) ELSE {FALSE},
               StartTaskDetached(cid(u), ok),
               RunMove(u, k, "open", IF ok THEN "wait" ELSE "failed")
        PROVE  Keeps(x) \/ (t = u /\ Starts(u, k))
    <3>1. CASE cid(u) # x \/ ~ok
      BY <2>2, <3>1, <1>x, OpKeeps, OutcomeBoolean
    <3>2. CASE cid(u) = x /\ ok
      <4>1. t = u
        BY <3>2 DEF DistinctContainers, cid
      <4>2. Starts(u, k)
        BY <1>1, <2>2, <3>2 DEF Starts, Run, StartResults, StartTaskDetached, envVars
      <4> QED
        BY <4>1, <4>2
    <3> QED
      BY <3>1, <3>2
  <2> QED
    BY <1>1, <2>1, <2>2 DEF Run
<1>2. CASE MarkCleanup(u, k)
  BY <1>2, <1>x, OpKeeps, TRUE \in BOOLEAN DEF MarkCleanup
<1>3. CASE WaitFails(u, k) \/ MonitorRecovered(u, k) \/ RecordExit(u, k) \/ WriteMarker(u, k) \/ SetExit(u, k)
  BY <1>3, <1>x, OpKeeps, TRUE \in BOOLEAN DEF WaitFails, MonitorRecovered, RecordExit, WriteMarker, SetExit
<1> QED
  BY <1>1, <1>2, <1>3 DEF HandleStep

\* The beginning of a call adds nothing.
LEMMA BeginKeeps ==
    ASSUME CtrTypeOK, NEW u \in Callers,
           StartTask(u) \/ StopTask(u) \/ DestroyTask(u) \/ RecoverTask(u), NEW t \in Callers
    PROVE  Keeps(cid(t))
<1>1. KillTask(cid(u)) \/ UNCHANGED ctrVars
  BY DEF StartTask, StopTask, DestroyTask, RecoverTask
<1> QED
  BY <1>1, IdTypes, OpKeeps, TRUE \in BOOLEAN

\* The end of a container or of a VM ends what is under the IDs of some tasks.
LEMMA EndKeeps ==
    ASSUME DistinctIds, CtrTypeOK, LocalTypeOK,
           \/ \E u \in Callers : TaskExits(u)
           \/ \E a \in Allocs : VMExits(a) \/ VMDies(a),
           NEW t \in Callers
    PROVE  /\ task'[cid(t)] \in Alive => task[cid(t)] \in Alive
           /\ task'[cid(t)] # "none" => task[cid(t)] # "none"
           /\ UNCHANGED <<containers, pc, h>>
           /\ \A k \in Slots :
                 \/ run'[t][k] = run[t][k]
                 \/ /\ run[t][k] = "wait" /\ run'[t][k] \in {"exit", "failed"}
                    /\ task'[cid(t)] \notin Alive
<1>x. cid(t) \in Ids /\ \A a \in Allocs : cid(t) # SandboxID[a]
  BY IdTypes DEF DistinctIds, cid
<1>1. ASSUME NEW u \in Callers, TaskExits(u)
      PROVE  /\ task' = [task EXCEPT ![cid(u)] = "stopped"] /\ task[cid(u)] \in Alive
             /\ UNCHANGED <<containers, pc, h>>
             /\ \A k \in Slots : \/ run'[t][k] = run[t][k]
                                \/ /\ t = u /\ run[t][k] = "wait"
                                   /\ run'[t][k] \in {"exit", "failed"}
  <2>1. PICK seen \in {"exit", "failed"} :
            run' = [run EXCEPT ![u] = [k \in Slots |->
                       IF run[u][k] = "wait" THEN seen ELSE run[u][k]]]
    BY <1>1 DEF TaskExits
  <2> QED
    BY <1>1, <2>1 DEF TaskExits, LocalTypeOK
<1>2. ASSUME NEW a \in Allocs, NEW s \in {"stopped", "dead"}, VMDown(a, s)
      PROVE  /\ task'[cid(t)] = task[cid(t)] \/ (task[cid(t)] \in Alive /\ task'[cid(t)] = "stopped")
             /\ UNCHANGED <<containers, pc, h>>
             /\ \A k \in Slots :
                   \/ run'[t][k] = run[t][k]
                   \/ /\ run[t][k] = "wait" /\ run'[t][k] = "failed" /\ task'[cid(t)] \notin Alive
  <2>1. task'[cid(t)] = IF task[cid(t)] \in Alive /\ \E u \in Callers : AllocOf[u] = a /\ cid(u) = cid(t)
                        THEN "stopped" ELSE task[cid(t)]
    BY <1>2, <1>x DEF VMDown
  <2>2. \A k \in Slots : run'[t][k] = IF AllocOf[t] = a /\ run[t][k] = "wait" THEN "failed"
                                      ELSE run[t][k]
    BY <1>2 DEF VMDown
  <2> QED
    BY <1>2, <2>1, <2>2 DEF VMDown, Alive
<1>3. CASE \E u \in Callers : TaskExits(u)
  BY <1>1, <1>3, <1>x DEF CtrTypeOK, Alive
<1>4. CASE \E a \in Allocs : VMExits(a) \/ VMDies(a)
  BY <1>2, <1>4 DEF VMExits, VMDies, Alive
<1> QED
  BY <1>3, <1>4

\* A goroutine waits on only for a container that has not ended.
LEMMA EndWaits ==
    ASSUME DistinctIds, DistinctContainers, CtrTypeOK, LocalTypeOK,
           \/ \E u \in Callers : TaskExits(u)
           \/ \E a \in Allocs : VMExits(a) \/ VMDies(a),
           NEW t \in Callers, NEW k \in Slots, run'[t][k] = "wait", task[cid(t)] \in Alive
    PROVE  task'[cid(t)] \in Alive
<1>x. cid(t) \in Ids /\ \A a \in Allocs : cid(t) # SandboxID[a]
  BY IdTypes DEF DistinctIds, cid
<1>1. ASSUME NEW u \in Callers, TaskExits(u) PROVE task'[cid(t)] \in Alive
  <2>1. PICK seen \in {"exit", "failed"} :
            run' = [run EXCEPT ![u] = [j \in Slots |->
                       IF run[u][j] = "wait" THEN seen ELSE run[u][j]]]
    BY <1>1 DEF TaskExits
  <2>2. t # u
    BY <2>1 DEF LocalTypeOK
  <2>3. cid(t) # cid(u)
    BY <2>2 DEF DistinctContainers, cid
  <2> QED
    BY <1>1, <1>x, <2>3 DEF TaskExits, CtrTypeOK
<1>2. ASSUME NEW a \in Allocs, NEW s \in {"stopped", "dead"}, VMDown(a, s)
      PROVE  task'[cid(t)] \in Alive
  <2>1. AllocOf[t] # a
    BY <1>2 DEF VMDown
  <2>2. ~ \E u \in Callers : AllocOf[u] = a /\ cid(u) = cid(t)
    BY <2>1 DEF DistinctContainers, cid
  <2> QED
    BY <1>2, <1>x, <2>2 DEF VMDown
<1> QED
  BY <1>1, <1>2 DEF VMExits, VMDies

\* Calls have no part in what the driver loses sight of; a goroutine loses sight
\* of its own task at most; the end of a container is the end of it.
LEMMA CallsSee ==
    ASSUME NEW u \in Callers,
           \/ CallInProgress(u)
           \/ StartTask(u) \/ StopTask(u) \/ DestroyTask(u) \/ RecoverTask(u)
    PROVE  UNCHANGED unseen
<1> USE DEF envVars, driverVars
<1>1. CASE StartTask(u) \/ StopTask(u) \/ DestroyTask(u) \/ RecoverTask(u)
  BY <1>1 DEF StartTask, StopTask, DestroyTask, RecoverTask
<1>2. CASE CallInProgress(u)
  BY <1>2
  DEF CallInProgress, CleanupContainer, Acquire, StartFails, CreateTask, Launch, StopReturns,
      AwaitKill, DestroyContainer, ReleaseSandbox, Return, Reattach
<1> QED
  BY <1>1, <1>2

LEMMA HandleSees ==
    ASSUME NEW u \in Callers, NEW k \in Slots, HandleStep(u, k)
    PROVE  unseen \subseteq unseen' /\ unseen' \subseteq unseen \cup {u}
BY DEF HandleStep, Run, WaitFails, MonitorRecovered, RecordExit, WriteMarker, MarkCleanup, SetExit, envVars

LEMMA EndSees ==
    ASSUME \/ \E u \in Callers : TaskExits(u)
           \/ \E a \in Allocs : VMExits(a) \/ VMDies(a)
    PROVE  unseen' = StillUnseen
BY DEF TaskExits, VMExits, VMDies, VMDown

\* While the plugin lives, a container out of sight is so until it ends.
LEMMA UnseenKept ==
    ASSUME MaxCrashes = 0, LocalTypeOK, [Next]_vars,
           NEW t \in Callers, t \in unseen, task'[cid(t)] \in Alive
    PROVE  t \in unseen'
<1>1. CASE \/ \E u \in Callers : TaskExits(u)
           \/ \E a \in Allocs : VMExits(a) \/ VMDies(a)
  BY <1>1, EndSees DEF StillUnseen
<1>2. CASE Crash
  BY <1>2 DEF Crash, LocalTypeOK
<1>3. CASE Quiescent \/ UNCHANGED vars
  BY <1>3 DEF Quiescent, vars
<1> QED
  BY <1>1, <1>2, <1>3, CallsSee, HandleSees DEF Next

\* So every step adds nothing, or creates or starts the task's own container.
NothingNew(x) ==
    /\ task'[x] \in Alive => task[x] \in Alive
    /\ task'[x] # "none" => task[x] # "none"
    /\ x \in containers' => x \in containers
    /\ x \in containers \ containers' => task'[x] = "none"

LEMMA StepAdds ==
    ASSUME DistinctIds, DistinctContainers, CtrTypeOK, LocalTypeOK, [Next]_vars, NEW t \in Callers
    PROVE  NothingNew(cid(t)) \/ Creates(t) \/ \E k \in Slots : Starts(t, k)
<1>0. Keeps(cid(t)) => NothingNew(cid(t))
  BY DEF Keeps, NothingNew
<1>1. ASSUME NEW u \in Callers, CallInProgress(u) PROVE NothingNew(cid(t)) \/ Creates(t)
  BY <1>0, <1>1, CallKeeps
<1>2. ASSUME NEW u \in Callers, NEW k \in Slots, HandleStep(u, k)
      PROVE  NothingNew(cid(t)) \/ Starts(t, k)
  BY <1>0, <1>2, HandleKeeps
<1>3. ASSUME NEW u \in Callers, StartTask(u) \/ StopTask(u) \/ DestroyTask(u) \/ RecoverTask(u)
      PROVE  NothingNew(cid(t))
  BY <1>0, <1>3, BeginKeeps
<1>4. CASE \/ \E u \in Callers : TaskExits(u)
           \/ \E a \in Allocs : VMExits(a) \/ VMDies(a)
  BY <1>4, EndKeeps DEF NothingNew
<1>5. CASE Crash \/ Quiescent \/ UNCHANGED vars
  BY <1>5 DEF Crash, Quiescent, vars, ctrVars, NothingNew
<1> QED
  BY <1>1, <1>2, <1>3, <1>4, <1>5 DEF Next

\* A task's container starts to run in a VM that runs, in the step with which
\* its goroutine begins to wait.
LEMMA StartIsAwaited ==
    ASSUME DistinctIds, DistinctContainers, CtrTypeOK, LocalTypeOK, [Next]_vars,
           NEW t \in Callers, task[cid(t)] \notin Alive, task'[cid(t)] \in Alive
    PROVE  task[sid(t)] = "running" /\ \E k \in Slots : run'[t][k] = "wait"
<1>1. PICK k \in Slots : Starts(t, k)
  BY StepAdds DEF NothingNew, Creates
<1> QED
  BY <1>1 DEF Starts, RunMove, LocalTypeOK

\* A goroutine stops to wait in the step in which its container stops, or loses
\* sight of it.
LEMMA WaitEndsWithTask ==
    ASSUME DistinctIds, MaxCrashes = 0, CtrTypeOK, LocalTypeOK, [Next]_vars,
           NEW t \in Callers, NEW k \in Slots, run[t][k] = "wait", run'[t][k] # "wait"
    PROVE  task'[cid(t)] \notin Alive \/ t \in unseen'
<1>1. ASSUME NEW u \in Callers, NEW j \in Slots, HandleStep(u, j) PROVE t \in unseen'
  <2>1. CASE WaitFails(u, j)
    BY <2>1 DEF WaitFails, RunMove, LocalTypeOK
  <2>2. ASSUME NEW from, NEW to, from # "wait", RunMove(u, j, from, to) PROVE FALSE
    BY <2>2 DEF RunMove, LocalTypeOK
  <2>3. CASE Run(u, j) \/ MonitorRecovered(u, j) \/ RecordExit(u, j)
    BY <2>2, <2>3, MonitorMoves DEF Run, RecordExit
  <2>4. CASE WriteMarker(u, j) \/ MarkCleanup(u, j) \/ SetExit(u, j)
    BY <2>2, <2>4 DEF WriteMarker, MarkCleanup, SetExit
  <2> QED
    BY <1>1, <2>1, <2>3, <2>4 DEF HandleStep
<1>2. ASSUME NEW u \in Callers, CallInProgress(u) PROVE FALSE
  <2>1. CASE Launch(u) \/ Reattach(u)
    <3>1. PICK j \in Slots, s \in {"open", "reopen"} :
              run[u][j] = "none" /\ run' = [run EXCEPT ![u][j] = s]
      BY <2>1 DEF Launch, Reattach, NewHandle
    <3> QED
      BY <3>1 DEF LocalTypeOK
  <2>2. CASE Return(u)
    BY <2>2 DEF Return, LocalTypeOK
  <2>3. CASE CleanupContainer(u) \/ Acquire(u) \/ StartFails(u) \/ CreateTask(u) \/ StopReturns(u)
             \/ AwaitKill(u) \/ DestroyContainer(u) \/ ReleaseSandbox(u)
    BY <2>3
    DEF CleanupContainer, Acquire, StartFails, CreateTask, StopReturns, AwaitKill,
        DestroyContainer, ReleaseSandbox, handleVars, driverVars
  <2> QED
    BY <1>2, <2>1, <2>2, <2>3 DEF CallInProgress
<1>3. ASSUME NEW u \in Callers, StartTask(u) \/ StopTask(u) \/ DestroyTask(u) \/ RecoverTask(u)
      PROVE  FALSE
  BY <1>3 DEF StartTask, StopTask, DestroyTask, RecoverTask, handleVars
<1>4. CASE \/ \E u \in Callers : TaskExits(u)
           \/ \E a \in Allocs : VMExits(a) \/ VMDies(a)
  BY <1>4, EndKeeps
<1>5. CASE Crash
  BY <1>5 DEF Crash, LocalTypeOK
<1>6. CASE Quiescent \/ UNCHANGED vars
  BY <1>6 DEF Quiescent, vars
<1> QED
  BY <1>1, <1>2, <1>3, <1>4, <1>5, <1>6 DEF Next

-----------------------------------------------------------------------------
(* The container at each stage of its task.                                *)

\* The container of a goroutine at this stage has ended or is out of sight.
Over == {"failed", "exit", "done"} \cup Marking

ContainerFits(t) ==
    /\ task[cid(t)] # "none" => cid(t) \in containers
    /\ pc[t] = "launch" => task[cid(t)] = "none"
    /\ \A k \in Slots : run[t][k] = "open" => task[cid(t)] = "none"
    /\ \A k \in Slots : run[t][k] = "wait" => task[cid(t)] \in Alive
    /\ \A k \in Slots : run[t][k] \in Over => task[cid(t)] \notin Alive \/ t \in unseen
    /\ h[t] # 0 => run[t][h[t]] # "none"

ContainersFit == \A t \in Callers : ContainerFits(t)

\* What adds nothing and enters no stage that says more keeps it so.
LEMMA FitsKept ==
    ASSUME NEW t \in Callers, ContainerFits(t), Keeps(cid(t)), t \in unseen => t \in unseen',
           pc'[t] = "launch" => pc[t] = "launch",
           \A k \in Slots : run'[t][k] = run[t][k] \/ run'[t][k] \notin {"open", "wait"} \cup Over,
           h'[t] # 0 => run'[t][h'[t]] # "none"
    PROVE  ContainerFits(t)'
BY DEF ContainerFits, Keeps, cid

\* The steps of a driver call and the beginnings of calls are about one task.
LEMMA OtherRunners ==
    ASSUME LocalTypeOK, NEW u \in Callers,
           \/ CallInProgress(u)
           \/ StartTask(u) \/ StopTask(u) \/ DestroyTask(u) \/ RecoverTask(u),
           NEW t \in Callers, t # u
    PROVE  pc'[t] = pc[t] /\ h'[t] = h[t] /\ run'[t] = run[t]
<1> USE DEF LocalTypeOK, Move, handleVars
<1>1. CASE StartTask(u) \/ StopTask(u) \/ DestroyTask(u) \/ RecoverTask(u)
  BY <1>1 DEF StartTask, StopTask, DestroyTask, RecoverTask
<1>2. CASE CleanupContainer(u) \/ StartFails(u) \/ CreateTask(u) \/ StopReturns(u) \/ AwaitKill(u)
           \/ DestroyContainer(u)
  BY <1>2 DEF CleanupContainer, StartFails, CreateTask, StopReturns, AwaitKill, DestroyContainer
<1>3. CASE Acquire(u) \/ ReleaseSandbox(u)
  BY <1>3 DEF Acquire, ReleaseSandbox, driverVars
<1>4. CASE Launch(u) \/ Reattach(u) \/ Return(u)
  BY <1>4 DEF Launch, Reattach, Return, NewHandle
<1> QED
  BY <1>1, <1>2, <1>3, <1>4 DEF CallInProgress

\* A step of a driver call.
LEMMA CallFits ==
    ASSUME DistinctIds, DistinctContainers, CtrTypeOK, LocalTypeOK, ContainersFit,
           NEW u \in Callers, CallInProgress(u), NEW t \in Callers
    PROVE  ContainerFits(t)'
<1>f. ContainerFits(t)
  BY DEF ContainersFit
<1>u. UNCHANGED unseen
  BY CallsSee
<1>1. CASE t # u
  <2>1. Keeps(cid(t))
    BY <1>1, CallKeeps
  <2>2. pc'[t] = pc[t] /\ h'[t] = h[t] /\ run'[t] = run[t]
    BY <1>1, OtherRunners
  <2> QED
    BY <1>f, <1>u, <2>1, <2>2, FitsKept DEF ContainerFits
<1>2. CASE t = u /\ Creates(u)
  BY <1>f, <1>u, <1>2, IdTypes DEF ContainerFits, Creates, cid, LocalTypeOK, Alive
<1>3. CASE t = u /\ Keeps(cid(t))
  <2>1. CASE Launch(u)
    <3>1. PICK k \in Slots : h'[t] = k /\ run'[t][k] = "open" /\ \A j \in Slots : j # k => run'[t][j] = run[t][j]
      BY <1>3, <2>1 DEF Launch, NewHandle, LocalTypeOK
    <3>2. pc[t] = "launch" /\ pc'[t] = "running" /\ UNCHANGED ctrVars
      BY <1>3, <2>1 DEF Launch, Move, LocalTypeOK
    <3> QED
      BY <1>f, <1>u, <3>1, <3>2 DEF ContainerFits, ctrVars, cid, Over, Marking, Alive
  <2>2. CASE Reattach(u)
    <3>1. PICK k \in Slots : h'[t] = k /\ run'[t][k] = "reopen" /\ \A j \in Slots : j # k => run'[t][j] = run[t][j]
      BY <1>3, <2>2 DEF Reattach, NewHandle, LocalTypeOK
    <3>2. pc'[t] = "running"
      BY <1>3, <2>2 DEF Reattach, Move, LocalTypeOK
    <3> QED
      BY <1>3, <1>f, <1>u, <3>1, <3>2, FitsKept DEF Over, Marking
  <2>3. CASE Return(u)
    <3>1. pc'[t] = "idle" /\ h'[t] = 0
          /\ \A k \in Slots : run'[t][k] = run[t][k] \/ run'[t][k] = "none"
      BY <1>3, <2>3 DEF Return, Move, LocalTypeOK
    <3> QED
      BY <1>3, <1>f, <1>u, <3>1, FitsKept DEF Over, Marking
  <2>4. CASE CreateTask(u)
    <3>1. UNCHANGED <<h, run>>
      BY <2>4 DEF CreateTask, handleVars
    <3>2. pc'[t] = "launch" => \E ok \in CreateResults(cid(u)) : ok /\ CreateContainer(cid(u), ok)
      BY <1>3, <2>4 DEF CreateTask, Move, LocalTypeOK
    <3>3. pc'[t] # "launch"
      BY <1>3, <3>2 DEF Keeps, CreateResults, CreateContainer
    <3> QED
      BY <1>3, <1>f, <1>u, <3>1, <3>3, FitsKept DEF ContainerFits
  <2>5. CASE CleanupContainer(u) \/ StartFails(u) \/ StopReturns(u) \/ AwaitKill(u) \/ DestroyContainer(u)
    <3>1. UNCHANGED <<h, run>> /\ pc'[t] # "launch"
      BY <1>3, <2>5
      DEF CleanupContainer, StartFails, StopReturns, AwaitKill, DestroyContainer, handleVars, Move,
          LocalTypeOK
    <3> QED
      BY <1>3, <1>f, <1>u, <3>1, FitsKept DEF ContainerFits
  <2>6. CASE Acquire(u) \/ ReleaseSandbox(u)
    <3>1. UNCHANGED <<pc, h, run>>
      BY <2>6 DEF Acquire, ReleaseSandbox, driverVars
    <3> QED
      BY <1>3, <1>f, <1>u, <3>1, FitsKept DEF ContainerFits
  <2> QED
    BY <2>1, <2>2, <2>3, <2>4, <2>5, <2>6 DEF CallInProgress
<1> QED
  BY <1>1, <1>2, <1>3, CallKeeps

\* A step of a goroutine.
LEMMA HandleFits ==
    ASSUME DistinctIds, DistinctContainers, CtrTypeOK, LocalTypeOK, GoroutineOwned, ContainersFit,
           NEW u \in Callers, NEW k \in Slots, HandleStep(u, k), NEW t \in Callers
    PROVE  ContainerFits(t)'
<1>f. ContainerFits(t)
  BY DEF ContainersFit
<1>m. PICK from \in Runs \ {"none", "done"}, to \in Runs \ {"open", "reopen"} :
          RunMove(u, k, from, to) /\ UNCHANGED <<pc, h>>
  BY HandleMove
<1>1. /\ run[u][k] = from /\ run'[u][k] = to
      /\ \A v \in Callers, j \in Slots : v # u \/ j # k => run'[v][j] = run[v][j]
  BY <1>m DEF RunMove, LocalTypeOK
<1>w. \A v, w : RunMove(u, k, v, w) => v = from /\ w = to
  BY <1>1 DEF RunMove, LocalTypeOK
<1>h. h[u] = k /\ pc[u] \in Pending
  BY <1>1 DEF GoroutineOwned
<1>u. t \in unseen => t \in unseen'
  BY HandleSees
<1>2. CASE t # u
  <2>1. Keeps(cid(t))
    BY <1>2, HandleKeeps
  <2>2. h[t] # 0 => h[t] \in Slots
    BY BoundsAssumption DEF LocalTypeOK, Slots
  <2> QED
    BY <1>f, <1>m, <1>1, <1>u, <1>2, <2>1, <2>2, FitsKept DEF ContainerFits
<1>3. CASE t = u /\ Starts(u, k)
  <2>1. to = "wait" /\ UNCHANGED containers /\ cid(t) \in containers
    BY <1>1, <1>3 DEF Starts, RunMove, LocalTypeOK
  <2>2. \A j \in Slots : j # k => run[t][j] = "none"
    BY <1>h, <1>3 DEF GoroutineOwned
  <2>3. task'[cid(t)] \in Alive
    BY <1>3, IdTypes DEF Starts, CtrTypeOK, Alive
  <2> QED
    BY <1>m, <1>1, <1>h, <1>3, <2>1, <2>2, <2>3 DEF ContainerFits, cid, Pending, Over, Marking
<1>4. CASE t = u /\ Keeps(cid(t))
  <2>1. /\ to \in Over => task'[cid(t)] \notin Alive \/ t \in unseen'
        /\ to = "wait" => task'[cid(t)] \in Alive
    <3>1. CASE Run(u, k)
      <4>1. from = "open" /\ task[cid(t)] = "none"
        BY <1>f, <1>1, <1>4, <1>w, <3>1 DEF Run, ContainerFits
      <4>2. to # "wait"
        <5>1. ASSUME NEW ok, ok = TRUE, StartTaskDetached(cid(u), ok) PROVE FALSE
          BY <1>4, <4>1, <5>1, IdTypes DEF StartTaskDetached, Keeps, CtrTypeOK, Alive
        <5>2. CASE RunMove(u, k, "open", Recorded(u, k))
          BY <1>w, <5>2 DEF Recorded
        <5>3. ASSUME NEW ok \in BOOLEAN, RunMove(u, k, "open", IF ok THEN "wait" ELSE "failed"),
                     StartTaskDetached(cid(u), ok)
              PROVE  to # "wait"
          <6>1. ok = FALSE /\ RunMove(u, k, "open", "failed")
            BY <5>1, <5>3
          <6> QED
            BY <1>w, <6>1
        <5> QED
          BY <3>1, <5>2, <5>3, OutcomeBoolean DEF Run
      <4> QED
        BY <1>4, <4>1, <4>2 DEF Keeps, Alive
    <3>2. CASE WaitFails(u, k)
      BY <1>4, <1>w, <3>2 DEF WaitFails
    <3>3. CASE MonitorRecovered(u, k)
      <4>1. UNCHANGED task /\ UNCHANGED cid(t)
        BY <3>3 DEF MonitorRecovered, ctrVars, cid
      <4>2. to # "wait" /\ task[cid(t)] \in Alive => t \in unseen'
        BY <1>4, <1>w, <3>3 DEF MonitorRecovered
      <4>3. to = "wait" => task[cid(t)] \in Alive
        BY <1>4, <1>w, <3>3 DEF MonitorRecovered, MonitorTask, Recorded
      <4> QED
        BY <4>1, <4>2, <4>3 DEF Over, Marking
    <3>4. CASE RecordExit(u, k) \/ WriteMarker(u, k) \/ MarkCleanup(u, k) \/ SetExit(u, k)
      <4>1. from \in {"failed", "exit"} \cup Marking /\ to # "wait"
        BY <1>w, <3>4 DEF RecordExit, WriteMarker, MarkCleanup, SetExit, Recorded, Marking
      <4> QED
        BY <1>f, <1>1, <1>u, <1>4, <4>1 DEF ContainerFits, Keeps, Over
    <3> QED
      BY <3>1, <3>2, <3>3, <3>4 DEF HandleStep
  <2>2. to # "none"
    <3>1. CASE Run(u, k) \/ WaitFails(u, k) \/ MonitorRecovered(u, k) \/ SetExit(u, k)
      <4>1. \E v, w : /\ RunMove(u, k, v, w)
                      /\ w \in {"wait", "exit", "failed", Recorded(u, k)}
        BY <3>1 DEF Run, WaitFails, MonitorRecovered, MonitorTask, SetExit
      <4> QED
        BY <1>w, <1>h, <4>1 DEF Recorded
    <3>2. CASE RecordExit(u, k) \/ WriteMarker(u, k) \/ MarkCleanup(u, k)
      BY <1>w, <3>2 DEF RecordExit, WriteMarker, MarkCleanup
    <3> QED
      BY <3>1, <3>2 DEF HandleStep
  <2> QED
    BY <1>f, <1>m, <1>1, <1>h, <1>u, <1>4, <2>1, <2>2 DEF ContainerFits, Keeps, cid, Pending
<1> QED
  BY <1>2, <1>3, <1>4, HandleKeeps

\* Every step.
LEMMA NextFits ==
    ASSUME DistinctIds, DistinctContainers, CtrTypeOK, LocalTypeOK, GoroutineOwned, ContainersFit,
           [Next]_vars
    PROVE  ContainersFit'
<1> SUFFICES ASSUME NEW t \in Callers PROVE ContainerFits(t)'
  BY DEF ContainersFit
<1>f. ContainerFits(t)
  BY DEF ContainersFit
<1>1. ASSUME NEW u \in Callers, StartTask(u) \/ StopTask(u) \/ DestroyTask(u) \/ RecoverTask(u)
      PROVE  ContainerFits(t)'
  <2>1. UNCHANGED <<h, run>> /\ (pc'[t] = "launch" => pc[t] = "launch")
    BY <1>1 DEF StartTask, StopTask, DestroyTask, RecoverTask, Move, LocalTypeOK, handleVars
  <2> QED
    BY <1>f, <1>1, <2>1, BeginKeeps, CallsSee, FitsKept DEF ContainerFits
<1>2. ASSUME \/ \E u \in Callers : TaskExits(u)
             \/ \E a \in Allocs : VMExits(a) \/ VMDies(a)
      PROVE  ContainerFits(t)'
  <2>1. h[t] # 0 => h[t] \in Slots
    BY BoundsAssumption DEF LocalTypeOK, Slots
  <2> QED
    <3>1. t \in unseen => t \in unseen' \/ task'[cid(t)] \notin Alive
      BY <1>2, EndSees DEF StillUnseen
    <3>2. \A k \in Slots : run'[t][k] = "wait" => task'[cid(t)] \in Alive
      BY <1>f, <1>2, EndKeeps, EndWaits DEF ContainerFits
    <3> QED
      BY <1>f, <1>2, <2>1, <3>1, <3>2, EndKeeps DEF ContainerFits, cid, Over, Marking
<1>3. CASE Crash
  BY <1>f, <1>3 DEF Crash, ContainerFits, ctrVars, cid, Over, Marking
<1>4. CASE Quiescent \/ UNCHANGED vars
  BY <1>f, <1>4 DEF Quiescent, vars, ContainerFits, cid
<1> QED
  BY <1>1, <1>2, <1>3, <1>4, CallFits, HandleFits DEF Next

\* As long as DestroyTask sees the exits it waits for and IDs are distinct, the
\* container of a task is as the stage of its goroutine has it, or out of sight
\* where that says it has ended, whatever fails and however often the plugin
\* crashes.
THEOREM DriverContainersFit ==
    ASSUME DistinctIds, DistinctContainers, ~KillTimeouts
    PROVE  Spec => []ContainersFit
<1>1. Init => ContainersFit
  BY IdTypes DEF Init, CtrInit, ContainersFit, ContainerFits, Over, Marking
<1>2. TypeOK => CtrTypeOK /\ LocalTypeOK
  BY DEF TypeOK, LocalTypeOK
<1>3. CtrTypeOK /\ LocalTypeOK /\ GoroutineOwned /\ ContainersFit /\ [Next]_vars => ContainersFit'
  BY NextFits
<1> QED
  BY <1>1, <1>2, <1>3, DriverTypes, DriverGoroutines, PTL DEF Spec

-----------------------------------------------------------------------------
\* As long as the plugin lives and IDs are distinct, every container that runs
\* is waited for or has been lost sight of by a wait that failed, restarts, lost
\* VMs and expired waits included.
THEOREM DriverRunningIsAwaited ==
    ASSUME DistinctIds, DistinctContainers, MaxCrashes = 0
    PROVE  Spec => []RunningIsAwaited
<1>1. Init => RunningIsAwaited
  BY IdTypes DEF Init, CtrInit, RunningIsAwaited, Alive
<1>2. CtrTypeOK /\ LocalTypeOK /\ RunningIsAwaited /\ [Next]_vars => RunningIsAwaited'
  <2> SUFFICES ASSUME CtrTypeOK, LocalTypeOK, RunningIsAwaited, [Next]_vars,
                      NEW t \in Callers, task'[cid(t)] \in Alive
               PROVE  t \in unseen' \/ \E k \in Slots : run'[t][k] = "wait"
    BY DEF RunningIsAwaited, cid
  <2>1. CASE task[cid(t)] \notin Alive
    BY <2>1, StartIsAwaited
  <2>2. CASE t \in unseen
    BY <2>2, UnseenKept
  <2>3. ASSUME NEW k \in Slots, run[t][k] = "wait"
        PROVE  t \in unseen' \/ run'[t][k] = "wait"
    BY <2>3, WaitEndsWithTask
  <2> QED
    BY <2>1, <2>2, <2>3 DEF RunningIsAwaited
<1>3. TypeOK => CtrTypeOK /\ LocalTypeOK
  BY DEF TypeOK, LocalTypeOK
<1> QED
  BY <1>1, <1>2, <1>3, DriverTypes, PTL DEF Spec

\* What a container in sight says of its task: the handle's goroutine is the one
\* that waits, and the sandbox is held.
LEMMA AwaitedIsHeld ==
    ASSUME LocalTypeOK, RunnerMatchesCall, GoroutineOwned, RunningIsAwaited,
           NEW t \in Callers, task[cid(t)] = "running", t \notin unseen
    PROVE  h[t] \in Slots /\ run[t][h[t]] = "wait" /\ call[t] = "in"
<1>1. PICK k \in Slots : run[t][k] = "wait"
  BY DEF RunningIsAwaited, Alive
<1>2. h[t] = k /\ pc[t] \in Pending
  BY <1>1 DEF GoroutineOwned
<1> QED
  BY <1>1, <1>2 DEF RunnerMatchesCall, Pending, Handled

\* As long as DestroyTask sees the exits it waits for and IDs are distinct, a
\* handle whose exit is recorded has no running container but one whose wait or
\* attaching failed, over restarts, crashes, recoveries and losses of the VM.
THEOREM DriverExitWasSeen ==
    ASSUME DistinctIds, DistinctContainers, ~KillTimeouts
    PROVE  Spec => []ExitWasSeen
<1>1. TypeOK => LocalTypeOK
  BY DEF TypeOK, LocalTypeOK
<1>2. LocalTypeOK /\ ContainersFit => ExitWasSeen
  BY BoundsAssumption
  DEF LocalTypeOK, Slots, ContainersFit, ContainerFits, ExitWasSeen, Exited, Over
<1> QED
  BY <1>1, <1>2, DriverTypes, DriverContainersFit, PTL

\* Nor does the driver kill a healthy VM in which a container in sight runs,
\* unless the allocation is condemned.
THEOREM DriverKillsOnlyIdleVM ==
    ASSUME DistinctIds, DistinctContainers, ~KillTimeouts, MaxCrashes = 0
    PROVE  Spec => KillsOnlyIdleVM
<1> DEFINE Inv == /\ SMInv /\ CtrTypeOK /\ LocalTypeOK /\ MarkerFirst
                  /\ RunnerMatchesCall /\ GoroutineOwned /\ RunningIsAwaited
<1>1. Inv /\ [Next]_vars =>
          [\A a \in Allocs :
             task[SandboxID[a]] = "running" /\ task'[SandboxID[a]] = "dying"
             => \/ a \in dead
                \/ /\ Holders(a) = {}
                   /\ \A t \in Mates(a) : task[cid(t)] = "running" => t \in unseen]_vars
  <2> SUFFICES ASSUME Inv, [Next]_vars, NEW a \in Allocs, a \notin dead,
                      task[SandboxID[a]] = "running", task'[SandboxID[a]] = "dying"
               PROVE  /\ Holders(a) = {}
                      /\ \A t \in Mates(a) : task[cid(t)] = "running" => t \in unseen
    OBVIOUS
  <2>1. Holders(a) = {}
    BY KillStep
  <2>2. ASSUME NEW t \in Mates(a), task[cid(t)] = "running", t \notin unseen PROVE FALSE
    BY <2>1, <2>2, AwaitedIsHeld DEF Mates, Holders, Using
  <2> QED
    BY <2>1, <2>2
<1>2. TypeOK => CtrTypeOK /\ LocalTypeOK
  BY DEF TypeOK, LocalTypeOK
<1>3. Spec => []Inv
  BY <1>2, DriverTypes, DriverMarkerFirst, DriverMatchesCall, DriverGoroutines,
     DriverRunningIsAwaited, DriverUsesManager, ManagerInvariant, PTL
<1> QED
  BY <1>1, <1>3, PTL DEF Spec, KillsOnlyIdleVM

-----------------------------------------------------------------------------
(* The contract with Nomad.                                                *)

\* A step that moves what is told of one task.
LEMMA ToldMoves ==
    ASSUME NEW t \in Callers, NEW to, Told(t)' = to,
           \A u \in Callers : u # t => Told(u)' = Told(u)
    PROVE  ToldOfAll' = [ToldOfAll EXCEPT ![t] = to]
BY DEF ToldOfAll

\* Nothing is told and nothing ends or starts.
LEMMA ContractStutters ==
    ASSUME \A t \in Callers : Told(t)' = Told(t), UNCHANGED LiveTasks, UNCHANGED unseen
    PROVE  UNCHANGED Contract!contractVars
BY DEF Contract!contractVars, ToldOfAll

\* What is told depends on the handle, its goroutine and whether it is lost.
LEMMA SameTold ==
    ASSUME NEW t \in Callers, h'[t] = h[t], run'[t] = run[t],
           pc'[t] \in {"lost", "recover"} <=> pc[t] \in {"lost", "recover"}
    PROVE  Told(t)' = Told(t)
BY DEF Told

\* What keeps every container neither starts nor ends one.
LEMMA LiveKept ==
    ASSUME \A t \in Callers : Keeps(cid(t)) PROVE UNCHANGED LiveTasks
BY DEF Keeps, LiveTasks, cid

\* A step of a driver call.
LEMMA CallContract ==
    ASSUME DistinctIds, DistinctContainers, CtrTypeOK, LocalTypeOK, RunnerMatchesCall,
           GoroutineOwned, ContainersFit, NEW u \in Callers, CallInProgress(u)
    PROVE  [Contract!Next]_Contract!contractVars
<1>1. UNCHANGED LiveTasks /\ UNCHANGED unseen
  <2>1. CASE Creates(u)
    BY <2>1, CallsSee DEF Creates, LiveTasks, cid
  <2> QED
    BY <2>1, CallKeeps, CallsSee, LiveKept
<1>2. \A t \in Callers : t # u => Told(t)' = Told(t)
  BY OtherRunners, SameTold
<1>3. CASE Launch(u)
  <2>1. pc[u] = "launch" /\ h[u] = 0 /\ u \notin LiveTasks
    BY <1>3 DEF Launch, Move, RunnerMatchesCall, ContainersFit, ContainerFits, LiveTasks, Alive
  <2>2. pc'[u] = "running" /\ h'[u] # 0 /\ run'[u][h'[u]] = "open"
    BY <1>3, BoundsAssumption DEF Launch, Move, NewHandle, LocalTypeOK, Slots
  <2>3. Told(u) = "absent" /\ Told(u)' = "starting"
    BY <2>1, <2>2 DEF Told
  <2>4. Contract!Start(u)
    BY <1>1, <1>2, <2>1, <2>3, ToldMoves DEF Contract!Start, Contract!Moves, ToldOfAll
  <2> QED
    BY <2>4 DEF Contract!Next
<1>4. CASE Reattach(u)
  <2>1. pc[u] = "recover"
    BY <1>4 DEF Reattach, Move
  <2>2. pc'[u] = "running" /\ h'[u] # 0 /\ run'[u][h'[u]] = "reopen"
    BY <1>4, BoundsAssumption DEF Reattach, Move, NewHandle, LocalTypeOK, Slots
  <2>3. Told(u) = "lost" /\ Told(u)' = "recovered"
    BY <2>1, <2>2 DEF Told
  <2>4. Contract!Recover(u)
    BY <1>1, <1>2, <2>3, ToldMoves DEF Contract!Recover, Contract!Moves, ToldOfAll
  <2> QED
    BY <2>4 DEF Contract!Next
<1>5. CASE Return(u)
  <2>1. pc[u] = "release" /\ pc'[u] = "idle" /\ h'[u] = 0
    BY <1>5 DEF Return, Move, LocalTypeOK
  <2>2. Told(u)' = "absent"
    BY <2>1 DEF Told
  <2>3. CASE h[u] = 0
    <3>1. Told(u) = "absent"
      BY <2>1, <2>3 DEF Told
    <3> QED
      BY <1>1, <1>2, <2>2, <3>1, ContractStutters
  <2>4. CASE h[u] # 0
    <3>1. h[u] \in Slots /\ run[u][h[u]] # "none"
      BY <2>4, BoundsAssumption DEF LocalTypeOK, Slots, ContainersFit, ContainerFits
    <3>2. run[u][h[u]] = "done"
      BY <2>1, <3>1 DEF GoroutineOwned, Pending
    <3>3. Told(u) = "exited"
      BY <2>1, <2>4, <3>2 DEF Told
    <3>4. Contract!Destroy(u)
      BY <1>1, <1>2, <2>2, <3>3, ToldMoves DEF Contract!Destroy, Contract!Moves, ToldOfAll
    <3> QED
      BY <3>4 DEF Contract!Next
  <2> QED
    BY <2>3, <2>4
<1>6. CASE CleanupContainer(u) \/ StartFails(u) \/ CreateTask(u) \/ StopReturns(u) \/ AwaitKill(u)
           \/ DestroyContainer(u)
  <2>1. UNCHANGED <<h, run>> /\ pc[u] \notin {"lost", "recover"} /\ pc'[u] \notin {"lost", "recover"}
    BY <1>6
    DEF CleanupContainer, StartFails, CreateTask, StopReturns, AwaitKill, DestroyContainer,
        handleVars, Move, LocalTypeOK
  <2> QED
    BY <1>1, <1>2, <2>1, SameTold, ContractStutters
<1>7. CASE Acquire(u) \/ ReleaseSandbox(u)
  <2>1. UNCHANGED <<pc, h, run>>
    BY <1>7 DEF Acquire, ReleaseSandbox, driverVars
  <2> QED
    BY <1>1, <2>1, SameTold, ContractStutters
<1> QED
  BY <1>3, <1>4, <1>5, <1>6, <1>7 DEF CallInProgress

\* The beginning of a call.
LEMMA BeginContract ==
    ASSUME CtrTypeOK, LocalTypeOK, RunnerMatchesCall, NEW u \in Callers,
           StartTask(u) \/ StopTask(u) \/ DestroyTask(u) \/ RecoverTask(u)
    PROVE  [Contract!Next]_Contract!contractVars
<1>1. UNCHANGED LiveTasks /\ UNCHANGED unseen /\ \A t \in Callers : t # u => Told(t)' = Told(t)
  BY BeginKeeps, LiveKept, CallsSee, OtherRunners, SameTold
<1>2. UNCHANGED <<h, run>>
  BY DEF StartTask, StopTask, DestroyTask, RecoverTask, handleVars
<1>3. CASE \/ StartTask(u) \/ StopTask(u) \/ DestroyTask(u)
           \/ RecoverTask(u) /\ pc'[u] = "recover"
  <2>1. pc'[u] \in {"lost", "recover"} <=> pc[u] \in {"lost", "recover"}
    BY <1>3 DEF StartTask, StopTask, DestroyTask, RecoverTask, Move, LocalTypeOK
  <2> QED
    BY <1>1, <1>2, <2>1, SameTold, ContractStutters
<1>4. CASE RecoverTask(u) /\ pc'[u] # "recover"
  <2>1. pc[u] = "lost" /\ pc'[u] = "idle" /\ h[u] = 0
    BY <1>4 DEF RecoverTask, Move, LocalTypeOK, RunnerMatchesCall, NoCall
  <2>2. Told(u) = "lost" /\ Told(u)' = "absent"
    BY <1>2, <2>1 DEF Told
  <2>3. Contract!GiveUp(u)
    BY <1>1, <2>2, ToldMoves DEF Contract!GiveUp, Contract!Moves, ToldOfAll
  <2> QED
    BY <2>3 DEF Contract!Next
<1> QED
  BY <1>3, <1>4

\* A step of a goroutine.
LEMMA HandleContract ==
    ASSUME DistinctIds, DistinctContainers, CtrTypeOK, LocalTypeOK, GoroutineOwned, ContainersFit,
           NEW u \in Callers, NEW k \in Slots, HandleStep(u, k)
    PROVE  [Contract!Next]_Contract!contractVars
<1>f. ContainerFits(u)
  BY DEF ContainersFit
<1>m. PICK from \in Runs \ {"none", "done"}, to \in Runs \ {"open", "reopen"} :
          RunMove(u, k, from, to) /\ UNCHANGED <<pc, h>>
  BY HandleMove
<1>1. /\ run[u][k] = from /\ run'[u][k] = to
      /\ \A v \in Callers : v # u => run'[v] = run[v]
  BY <1>m DEF RunMove, LocalTypeOK
<1>w. \A v, w : RunMove(u, k, v, w) => v = from /\ w = to
  BY <1>1 DEF RunMove, LocalTypeOK
<1>h. h[u] = k /\ k # 0 /\ pc[u] \in Pending
  BY <1>1 DEF GoroutineOwned, Slots
<1>2. \A t \in Callers : t # u => Told(t)' = Told(t)
  BY <1>m, <1>1, SameTold
<1>3. /\ Told(u) = CASE from = "open" -> "starting" [] from = "reopen" -> "recovered"
                      [] OTHER -> "running"
      /\ Told(u)' = IF to = "done" THEN "exited" ELSE "running"
  BY <1>m, <1>1, <1>h DEF Told, Pending
<1>4. CASE Starts(u, k)
  <2>1. from = "open" /\ to = "wait" /\ UNCHANGED unseen
    BY <1>w, <1>4 DEF Starts
  <2>2. LiveTasks' = LiveTasks \cup {u}
    BY <1>4, IdTypes DEF Starts, LiveTasks, CtrTypeOK, DistinctContainers, cid, Alive
  <2>3. Contract!Launch(u)
    BY <1>2, <1>3, <2>1, <2>2, ToldMoves DEF Contract!Launch, Contract!Moves, ToldOfAll
  <2> QED
    BY <2>3 DEF Contract!Next
<1>5. CASE ~Starts(u, k)
  <2>l. UNCHANGED LiveTasks
    BY <1>5, HandleKeeps, LiveKept
  <2>1. CASE Run(u, k)
    <3>1. from = "open" /\ task[cid(u)] = "none" /\ UNCHANGED unseen
      BY <1>f, <1>1, <1>w, <2>1 DEF Run, ContainerFits, envVars
    <3>2. CASE to = "done"
      <4>1. Contract!Report(u)
        BY <1>2, <1>3, <2>l, <3>1, <3>2, ToldMoves
        DEF Contract!Report, ToldOfAll, LiveTasks, Alive
      <4> QED
        BY <4>1 DEF Contract!Next
    <3>3. CASE to # "done"
      <4>1. Contract!Launch(u)
        BY <1>2, <1>3, <2>l, <3>1, <3>3, ToldMoves DEF Contract!Launch, Contract!Moves, ToldOfAll
      <4> QED
        BY <4>1 DEF Contract!Next
    <3> QED
      BY <3>2, <3>3
  <2>2. CASE WaitFails(u, k)
    <3>1. from = "wait" /\ to = "failed" /\ unseen' = unseen \cup {u}
      BY <1>w, <2>2 DEF WaitFails
    <3>2. u \in LiveTasks
      BY <1>f, <1>1, <3>1 DEF ContainerFits, LiveTasks
    <3>3. ToldOfAll[u] = "running" /\ UNCHANGED ToldOfAll
      BY <1>2, <1>3, <3>1 DEF ToldOfAll
    <3>4. Contract!Lose(u)
      BY <2>l, <3>1, <3>2, <3>3 DEF Contract!Lose
    <3> QED
      BY <3>4 DEF Contract!Next
  <2>3. CASE MonitorRecovered(u, k)
    <3>1. from = "reopen" /\ to \in {"done", "wait", "failed", "exit"}
      BY <1>w, <1>h, <2>3 DEF MonitorRecovered, MonitorTask, Recorded
    <3>2. unseen' = IF to = "wait" THEN unseen ELSE unseen \cup ({u} \cap LiveTasks)
      BY <1>w, <2>3 DEF MonitorRecovered, LiveTasks
    <3>3. Contract!Attach(u)
      BY <1>2, <1>3, <2>l, <3>1, <3>2, ToldMoves DEF Contract!Attach, Contract!Moves, ToldOfAll
    <3> QED
      BY <3>3 DEF Contract!Next
  <2>4. CASE RecordExit(u, k) \/ WriteMarker(u, k) \/ MarkCleanup(u, k)
    <3>1. from \notin {"open", "reopen"} /\ to # "done" /\ UNCHANGED unseen
      BY <1>w, <2>4 DEF RecordExit, WriteMarker, MarkCleanup, envVars
    <3> QED
      BY <1>2, <1>3, <2>l, <3>1, ContractStutters
  <2>5. CASE SetExit(u, k)
    <3>1. from = "exit" /\ to = "done" /\ UNCHANGED unseen
      BY <1>w, <1>h, <2>5 DEF SetExit, Recorded, envVars
    <3>2. u \in LiveTasks => u \in unseen
      BY <1>f, <1>1, <3>1 DEF LiveTasks, ContainerFits, Over
    <3>3. Contract!Report(u)
      BY <1>2, <1>3, <2>l, <3>1, <3>2, ToldMoves DEF Contract!Report, ToldOfAll
    <3> QED
      BY <3>3 DEF Contract!Next
  <2> QED
    BY <2>1, <2>2, <2>3, <2>4, <2>5 DEF HandleStep
<1> QED
  BY <1>4, <1>5

\* Every step of the driver and its world is a step of the contract or a stutter.
LEMMA NextContract ==
    ASSUME DistinctIds, DistinctContainers, CtrTypeOK, LocalTypeOK, RunnerMatchesCall,
           GoroutineOwned, ContainersFit, [Next]_vars
    PROVE  [Contract!Next]_Contract!contractVars
<1>1. CASE \/ \E u \in Callers : TaskExits(u)
           \/ \E a \in Allocs : VMExits(a) \/ VMDies(a)
  <2>1. LiveTasks' \subseteq LiveTasks
    BY <1>1, EndKeeps DEF LiveTasks, cid
  <2>2. \A t \in Callers : h[t] # 0 => h[t] \in Slots
    BY BoundsAssumption DEF LocalTypeOK, Slots
  <2>3. ASSUME NEW t \in Callers PROVE Told(t)' = Told(t)
    <3>1. UNCHANGED <<pc, h>>
      BY <1>1, EndKeeps
    <3>2. h[t] # 0 => \/ run'[t][h[t]] = run[t][h[t]]
                      \/ run[t][h[t]] = "wait" /\ run'[t][h[t]] \in {"exit", "failed"}
      BY <1>1, <2>2, EndKeeps
    <3> QED
      BY <3>1, <3>2 DEF Told
  <2>4. unseen' = unseen \cap LiveTasks'
    BY <1>1, EndSees DEF StillUnseen, LiveTasks, LocalTypeOK, cid
  <2>5. Contract!End
    BY <2>1, <2>3, <2>4 DEF Contract!End, ToldOfAll
  <2> QED
    BY <2>5 DEF Contract!Next
<1>2. CASE Crash
  <2> DEFINE kept == {t \in Callers : pc'[t] = "lost"}
  <2>1. UNCHANGED LiveTasks /\ unseen' = {}
    BY <1>2 DEF Crash, ctrVars, LiveTasks, cid
  <2>2. \A t \in Callers : Told(t)' = IF t \in kept THEN "lost" ELSE "absent"
    BY <1>2 DEF Crash, Told
  <2>3. \A t \in kept : Told(t) # "absent"
    <3>1. ASSUME NEW t \in kept PROVE pc[t] \in {"lost", "recover"} \/ h[t] # 0
      BY <1>2, <3>1 DEF Crash, RunnerMatchesCall, Handled
    <3> QED
      BY <3>1 DEF Told
  <2>4. kept \in SUBSET {t \in Callers : ToldOfAll[t] # "absent"}
    BY <2>3 DEF ToldOfAll
  <2>5. ToldOfAll' = [t \in Callers |-> IF t \in kept THEN "lost" ELSE "absent"]
    BY <2>2 DEF ToldOfAll
  <2> HIDE DEF kept
  <2>6. Contract!Crash
    BY <2>1, <2>4, <2>5 DEF Contract!Crash
  <2> QED
    BY <2>6 DEF Contract!Next
<1>3. CASE Quiescent \/ UNCHANGED vars
  BY <1>3 DEF Quiescent, vars, Contract!contractVars, ToldOfAll, Told, LiveTasks, cid
<1> QED
  BY <1>1, <1>2, <1>3, CallContract, BeginContract, HandleContract DEF Next

\* As long as DestroyTask sees the exits it waits for and IDs are distinct, the
\* driver keeps its contract with Nomad, whatever fails, is lost or crashes.
THEOREM DriverKeepsContract ==
    ASSUME DistinctIds, DistinctContainers, ~KillTimeouts
    PROVE  Spec => KeepsContract
<1>1. Init => Contract!Init
  BY IdTypes DEF Init, CtrInit, Contract!Init, ToldOfAll, Told, LiveTasks, Alive
<1>2. /\ CtrTypeOK /\ LocalTypeOK /\ RunnerMatchesCall /\ GoroutineOwned /\ ContainersFit
      /\ [Next]_vars
      => [Contract!Next]_Contract!contractVars
  BY NextContract
<1>3. TypeOK => CtrTypeOK /\ LocalTypeOK
  BY DEF TypeOK, LocalTypeOK
<1> QED
  BY <1>1, <1>2, <1>3, DriverTypes, DriverMatchesCall, DriverGoroutines, DriverContainersFit, PTL
  DEF Spec, KeepsContract, Contract!Safety
=============================================================================
