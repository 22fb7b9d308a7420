----------------------- MODULE KataDriverVerdictProofs -----------------------
(***************************************************************************)
(* What the driver concludes from the end of a task, as long as            *)
(* DestroyTask sees the exits it waits for: which goroutines exist, that a *)
(* restart finds the verdict on the previous run, and that only a lost VM  *)
(* condemns its allocation.                                                *)
(***************************************************************************)
EXTENDS KataDriverProofs

-----------------------------------------------------------------------------
(* Goroutines and handles.                                                 *)

\* Where the runner of a task stands while the goroutine of its handle works.
Pending == {"running", "stopping", "stopped", "awaitKill"}

\* A goroutine belongs to the handle in the task store, and is at work only
\* before the destroy goes beyond its wait.
GoroutineOwned ==
    \A t \in Callers, k \in Slots :
        run[t][k] # "none" => h[t] = k /\ (run[t][k] = "done" \/ pc[t] \in Pending)

\* A runner moves on from Pending only when its goroutine is done.
LEMMA OwnedMove ==
    ASSUME LocalTypeOK, GoroutineOwned, UNCHANGED <<h, run>>,
           NEW t \in Callers, NEW from, NEW to, Move(t, from, to),
           from \notin Pending \/ to \in Pending \/ Exited(t)
    PROVE  GoroutineOwned'
<1> SUFFICES ASSUME NEW u \in Callers, NEW k \in Slots, run'[u][k] # "none"
             PROVE  h'[u] = k /\ (run'[u][k] = "done" \/ pc'[u] \in Pending)
  BY DEF GoroutineOwned
<1>1. h'[u] = k /\ (run[u][k] = "done" \/ pc[u] \in Pending)
  BY DEF GoroutineOwned
<1>2. CASE u # t
  BY <1>1, <1>2 DEF Move, LocalTypeOK
<1>3. CASE u = t
  <2>1. pc[t] = from /\ pc'[t] = to
    BY DEF Move, LocalTypeOK
  <2> QED
    BY <1>1, <1>3, <2>1 DEF Exited
<1> QED
  BY <1>2, <1>3

\* A goroutine at work may go anywhere while its runner stands still.
LEMMA OwnedWork ==
    ASSUME GoroutineOwned, UNCHANGED <<pc, h>>,
           \A t \in Callers, k \in Slots :
               run'[t][k] = run[t][k] \/ run[t][k] \notin {"none", "done"}
    PROVE  GoroutineOwned'
BY DEF GoroutineOwned

\* A runner without a handle has no goroutine.
LEMMA NoHandleNoGoroutine ==
    ASSUME GoroutineOwned, NEW t \in Callers, h[t] = 0, NEW k \in Slots
    PROVE  run[t][k] = "none"
BY BoundsAssumption DEF GoroutineOwned, Slots

\* A new handle is the only one of its task.
LEMMA OwnedNew ==
    ASSUME LocalTypeOK, RunnerMatchesCall, GoroutineOwned,
           NEW t \in Callers, NEW from \in {"launch", "recover"}, Move(t, from, "running"),
           NEW s \in Runs, NewHandle(t, s)
    PROVE  GoroutineOwned'
<1>1. h[t] = 0
  BY DEF Move, RunnerMatchesCall, NoCall
<1>2. PICK k \in Slots : h' = [h EXCEPT ![t] = k] /\ run' = [run EXCEPT ![t][k] = s]
  BY DEF NewHandle
<1>3. /\ h'[t] = k /\ pc'[t] = "running"
      /\ \A j \in Slots : j # k => run'[t][j] = "none"
  BY <1>1, <1>2, NoHandleNoGoroutine DEF LocalTypeOK, Move
<1>4. \A u \in Callers : u # t => h'[u] = h[u] /\ pc'[u] = pc[u] /\ run'[u] = run[u]
  BY <1>2 DEF LocalTypeOK, Move
<1> QED
  BY <1>3, <1>4 DEF GoroutineOwned, Pending

\* A step of a goroutine moves it on and leaves everything else of the driver
\* where it is.
LEMMA HandleMove ==
    ASSUME NEW t \in Callers, NEW k \in Slots, HandleStep(t, k)
    PROVE  /\ UNCHANGED <<pc, h>>
           /\ \E from \in Runs \ {"none", "done"}, to \in Runs \ {"open", "reopen"} :
                 RunMove(t, k, from, to)
<1>1. UNCHANGED <<pc, h>>
  BY DEF HandleStep, Run, WaitFails, MonitorRecovered, RecordExit, WriteMarker, MarkCleanup, SetExit
<1>2. CASE Run(t, k) \/ RecordExit(t, k) \/ WriteMarker(t, k)
  BY <1>1, <1>2 DEF Run, RecordExit, WriteMarker, Recorded, Runs, Marking
<1>3. CASE WaitFails(t, k) \/ MonitorRecovered(t, k) \/ SetExit(t, k)
  BY <1>1, <1>3, MonitorMoves DEF WaitFails, SetExit, Recorded, Runs
<1>4. CASE MarkCleanup(t, k)
  BY <1>1, <1>4 DEF MarkCleanup, Runs, Marking
<1> QED
  BY <1>2, <1>3, <1>4 DEF HandleStep

\* A step of a handle's goroutine.
LEMMA OwnedHandle ==
    ASSUME LocalTypeOK, GoroutineOwned, NEW t \in Callers, NEW k \in Slots, HandleStep(t, k)
    PROVE  GoroutineOwned'
<1>1. PICK from \in Runs \ {"none", "done"}, to \in Runs : RunMove(t, k, from, to)
  BY HandleMove
<1>2. \A u \in Callers, j \in Slots :
          run'[u][j] = run[u][j] \/ run[u][j] \notin {"none", "done"}
  BY <1>1 DEF RunMove, LocalTypeOK
<1> QED
  BY <1>2, HandleMove, OwnedWork

\* A step of a driver call, when the wait of DestroyTask does not expire.
LEMMA OwnedCall ==
    ASSUME ~KillTimeouts, LocalTypeOK, RunnerMatchesCall, GoroutineOwned,
           NEW t \in Callers, CallInProgress(t)
    PROVE  GoroutineOwned'
<1>1. CASE CleanupContainer(t) \/ StartFails(t) \/ CreateTask(t) \/ DestroyContainer(t)
  <2>1. PICK from \in Runners \ Pending, to \in Runners : Move(t, from, to)
    BY <1>1
    DEF CleanupContainer, StartFails, CreateTask, DestroyContainer, Runners, Pending
  <2>2. UNCHANGED <<h, run>>
    BY <1>1 DEF CleanupContainer, StartFails, CreateTask, DestroyContainer, handleVars
  <2> QED
    BY <2>1, <2>2, OwnedMove
<1>2. CASE Acquire(t) \/ ReleaseSandbox(t)
  BY <1>2 DEF Acquire, ReleaseSandbox, driverVars, GoroutineOwned
<1>3. CASE Launch(t) \/ Reattach(t)
  BY <1>3, OwnedNew DEF Launch, Reattach, Runs
<1>4. CASE StopReturns(t)
  BY <1>4, OwnedMove DEF StopReturns, handleVars, Pending
<1>5. CASE AwaitKill(t)
  BY <1>5, OwnedMove DEF AwaitKill, handleVars
<1>6. CASE Return(t)
  <2>1. /\ pc[t] = "release"
        /\ \A u \in Callers : u # t => pc'[u] = pc[u] /\ h'[u] = h[u] /\ run'[u] = run[u]
        /\ \A k \in Slots :
              run'[t][k] = IF k = h[t] /\ run[t][k] = "done" THEN "none" ELSE run[t][k]
    BY <1>6 DEF Return, Move, LocalTypeOK
  <2>2. \A k \in Slots : run'[t][k] = "none"
    BY <2>1 DEF GoroutineOwned, Pending
  <2> QED
    BY <2>1, <2>2 DEF GoroutineOwned
<1> QED
  BY <1>1, <1>2, <1>3, <1>4, <1>5, <1>6 DEF CallInProgress

\* Every step keeps goroutines with their handles.
LEMMA NextOwned ==
    ASSUME ~KillTimeouts
    PROVE  LocalTypeOK /\ RunnerMatchesCall /\ GoroutineOwned /\ [Next]_vars => GoroutineOwned'
<1> SUFFICES ASSUME LocalTypeOK, RunnerMatchesCall, GoroutineOwned, [Next]_vars
             PROVE  GoroutineOwned'
  OBVIOUS
<1>1. ASSUME NEW t \in Callers, StartTask(t) \/ RecoverTask(t) PROVE GoroutineOwned'
  <2>1. PICK from \in {"idle", "lost"}, to \in Runners : Move(t, from, to)
    BY <1>1 DEF StartTask, RecoverTask, Runners
  <2> QED
    BY <1>1, <2>1, OwnedMove DEF StartTask, RecoverTask, handleVars, Pending
<1>2. ASSUME NEW t \in Callers, StopTask(t) PROVE GoroutineOwned'
  BY <1>2, OwnedMove DEF StopTask, handleVars, Pending
<1>3. ASSUME NEW t \in Callers, DestroyTask(t) PROVE GoroutineOwned'
  BY <1>3, OwnedMove DEF DestroyTask, handleVars, Pending
<1>4. ASSUME NEW t \in Callers, TaskExits(t) PROVE GoroutineOwned'
  <2>1. \A u \in Callers, k \in Slots : run'[u][k] = run[u][k] \/ run[u][k] = "wait"
    BY <1>4 DEF TaskExits, LocalTypeOK
  <2> QED
    BY <1>4, <2>1, OwnedWork DEF TaskExits
<1>5. ASSUME NEW a \in Allocs, VMExits(a) \/ VMDies(a) PROVE GoroutineOwned'
  <2>1. \A u \in Callers, k \in Slots : run'[u][k] = run[u][k] \/ run[u][k] = "wait"
    BY <1>5 DEF VMExits, VMDies, VMDown
  <2> QED
    BY <1>5, <2>1, OwnedWork DEF VMExits, VMDies, VMDown
<1>6. CASE Crash
  BY <1>6 DEF Crash, GoroutineOwned
<1>7. CASE Quiescent \/ UNCHANGED vars
  BY <1>7 DEF Quiescent, vars, GoroutineOwned
<1> QED
  BY <1>1, <1>2, <1>3, <1>4, <1>5, <1>6, <1>7, OwnedHandle, OwnedCall DEF Next

\* A goroutine outlives neither its handle nor the wait of DestroyTask.
THEOREM DriverGoroutines ==
    ASSUME ~KillTimeouts PROVE Spec => []GoroutineOwned
<1>1. Init => GoroutineOwned
  BY DEF Init, GoroutineOwned
<1>2. TypeOK => LocalTypeOK
  BY DEF TypeOK, LocalTypeOK
<1> QED
  BY <1>1, <1>2, NextOwned, DriverTypes, DriverMatchesCall, PTL DEF Spec

\* As long as DestroyTask sees the exit it waits for, a task is started again
\* only when the verdict on its previous run is in, whatever fails or crashes.
THEOREM DriverVerdictBeforeRestart ==
    ASSUME ~KillTimeouts PROVE Spec => VerdictBeforeRestart
<1>1. RunnerMatchesCall /\ GoroutineOwned =>
          [\A t \in Callers : pc[t] = "idle" /\ pc'[t] = "kill"
             => \A k \in Slots : run[t][k] \notin {"failed", "exit"} \cup Marking]_vars
  BY NoHandleNoGoroutine DEF RunnerMatchesCall, NoCall, Marking
<1> QED
  BY <1>1, DriverMatchesCall, DriverGoroutines, PTL DEF Spec, VerdictBeforeRestart

-----------------------------------------------------------------------------
(* Verdicts and lost VMs.                                                  *)

\* The VM somebody holds runs, or the host has lost it.
VMUp ==
    \A t \in Callers :
        call[t] \in Using => task[sid(t)] = "running" \/ AllocOf[t] \in died

\* markSandboxDead works on allocations whose VM was lost.
MarksLostVMs ==
    \A t \in Callers, k \in Slots : run[t][k] \in Marking => AllocOf[t] \in died

\* Without a crash there is nothing to recover.
NothingToRecover == \A t \in Callers : pc[t] \notin {"lost", "recover"}

\* What makes OnlyLostVMsCondemned inductive, given the invariants above.
VerdictInv == VMUp /\ OnlyLostVMsCondemned /\ MarksLostVMs /\ NothingToRecover

\* A running VM goes down by being killed, or by being lost.
LEMMA GoesDown ==
    ASSUME DistinctIds, CtrTypeOK, [Next]_vars, NEW a \in Allocs,
           task[SandboxID[a]] = "running", task'[SandboxID[a]] # "running"
    PROVE  task'[SandboxID[a]] = "dying" \/ a \in died'
<1> DEFINE x == SandboxID[a]
<1>x. x \in Ids
  BY IdsAssumption
<1> USE IdTypes DEF CtrTypeOK
<1>1. ASSUME NEW id \in Ids, NEW ok \in BOOLEAN,
             \/ KillTask(id) \/ DeleteTask(id) \/ DeleteContainer(id)
             \/ DeleteSandboxMetadata(id) \/ CreateContainer(id, ok)
             \/ StartTaskDetached(id, ok) \/ CreateSandboxMetadata(id, ok)
             \/ UNCHANGED ctrVars
      PROVE  task'[x] = "dying"
  <2>1. CASE KillTask(id)
    BY <2>1, <1>x DEF KillTask
  <2>2. CASE DeleteTask(id)
    BY <2>2, <1>x DEF DeleteTask, Alive
  <2>3. CASE StartTaskDetached(id, ok)
    BY <2>3, <1>x DEF StartTaskDetached
  <2> QED
    BY <1>1, <2>1, <2>2, <2>3
    DEF DeleteContainer, DeleteSandboxMetadata, CreateContainer, CreateSandboxMetadata, ctrVars
<1>2. ASSUME NEW t \in Callers, CallInProgress(t) PROVE task'[x] = "dying"
  <2>1. CASE CleanupContainer(t) \/ DestroyContainer(t) \/ ReleaseSandbox(t) \/ StopReturns(t)
    BY <2>1, <1>1, TRUE \in BOOLEAN
    DEF CleanupContainer, DestroyContainer, ReleaseSandbox, StopReturns
  <2>2. CASE Acquire(t) \/ CreateTask(t)
    BY <2>2, <1>1, OutcomeBoolean, TRUE \in BOOLEAN DEF Acquire, CreateTask
  <2>3. CASE StartFails(t) \/ Launch(t) \/ AwaitKill(t) \/ Return(t) \/ Reattach(t)
    BY <2>3 DEF StartFails, Launch, AwaitKill, Return, Reattach, ctrVars
  <2> QED
    BY <1>2, <2>1, <2>2, <2>3 DEF CallInProgress
<1>3. ASSUME NEW t \in Callers, NEW k \in Slots, HandleStep(t, k) PROVE task'[x] = "dying"
  <2>1. CASE Run(t, k)
    BY <2>1, <1>1, OutcomeBoolean, TRUE \in BOOLEAN DEF Run
  <2>2. CASE MarkCleanup(t, k)
    BY <2>2, <1>1, TRUE \in BOOLEAN DEF MarkCleanup
  <2>3. CASE WaitFails(t, k) \/ MonitorRecovered(t, k) \/ RecordExit(t, k) \/ WriteMarker(t, k) \/ SetExit(t, k)
    BY <2>3 DEF WaitFails, MonitorRecovered, RecordExit, WriteMarker, SetExit, ctrVars
  <2> QED
    BY <1>3, <2>1, <2>2, <2>3 DEF HandleStep
<1>4. ASSUME NEW t \in Callers, StartTask(t) \/ StopTask(t) \/ DestroyTask(t) \/ RecoverTask(t)
      PROVE  task'[x] = "dying"
  <2>1. KillTask(cid(t)) \/ UNCHANGED ctrVars
    BY <1>4 DEF StartTask, StopTask, DestroyTask, RecoverTask
  <2> QED
    BY <2>1, <1>1, TRUE \in BOOLEAN
<1>5. ASSUME NEW t \in Callers, TaskExits(t) PROVE FALSE
  BY <1>5, <1>x DEF TaskExits
<1>6. ASSUME NEW b \in Allocs, VMExits(b) \/ VMDies(b) PROVE a \in died'
  <2>1. b = a
    <3>1. \A t \in Callers : cid(t) # x
      BY DEF DistinctIds, cid
    <3>2. x = SandboxID[b]
      BY <1>6, <3>1, <1>x DEF VMExits, VMDies, VMDown
    <3> QED
      BY <3>2 DEF DistinctIds
  <2> QED
    BY <1>6, <2>1 DEF VMExits, VMDies
<1>7. CASE Crash \/ Quiescent \/ UNCHANGED vars
  BY <1>7 DEF Crash, Quiescent, vars, ctrVars
<1> QED
  BY <1>2, <1>3, <1>4, <1>5, <1>6, <1>7 DEF Next

\* A lost VM stays lost.
LEMMA DiedGrows == [Next]_vars => died \subseteq died'
<1> SUFFICES ASSUME [Next]_vars PROVE died \subseteq died'
  OBVIOUS
<1>1. ASSUME NEW t \in Callers, CallInProgress(t) PROVE UNCHANGED died
  BY <1>1
  DEF CallInProgress, CleanupContainer, Acquire, StartFails, CreateTask, Launch, StopReturns,
      AwaitKill, DestroyContainer, ReleaseSandbox, Return, Reattach, driverVars, envVars
<1>2. ASSUME NEW t \in Callers, NEW k \in Slots, HandleStep(t, k) PROVE UNCHANGED died
  BY <1>2
  DEF HandleStep, Run, WaitFails, MonitorRecovered, RecordExit, WriteMarker, MarkCleanup, SetExit, envVars
<1>3. ASSUME NEW t \in Callers,
             StartTask(t) \/ StopTask(t) \/ DestroyTask(t) \/ RecoverTask(t) \/ TaskExits(t)
      PROVE  UNCHANGED died
  BY <1>3 DEF StartTask, StopTask, DestroyTask, RecoverTask, TaskExits, envVars
<1>4. ASSUME NEW a \in Allocs, VMExits(a) \/ VMDies(a) PROVE died \subseteq died'
  BY <1>4 DEF VMExits, VMDies
<1>5. CASE Crash \/ Quiescent \/ UNCHANGED vars
  BY <1>5 DEF Crash, Quiescent, vars
<1> QED
  BY <1>1, <1>2, <1>3, <1>4, <1>5 DEF Next

\* A step of the manager moves the call of one task only.
LEMMA OthersStand ==
    ASSUME SMTypeOK, NEW u \in Callers, CallerStep(u), NEW t \in Callers, t # u
    PROVE  call'[t] = call[t]
<1>1. \E to : call' = [call EXCEPT ![u] = to]
  <2>1. CASE GetOrCreateCall(u) \/ ReleaseCall(u) \/ Recover(u) \/ TakeLock(u) \/ TeardownStep(u)
    BY <2>1
    DEF GetOrCreateCall, ReleaseCall, Recover, TakeLock, Reuse, Boot, ReleaseShared, ReleaseLast,
        TeardownStep, KillPause, DeletePauseTask, DeletePauseContainer, DeleteMeta,
        TeardownStage, Step
  <2>2. ASSUME NEW ok \in BOOLEAN, EnsurePauseImage(u, ok) \/ CreatePause(u, ok)
        PROVE  \E to : call' = [call EXCEPT ![u] = to]
    BY <2>2 DEF EnsurePauseImage, CreatePause, BootStage, BootFails, Step
  <2>3. ASSUME NEW ok \in BOOLEAN, CreateMeta(u, ok) \/ StartPause(u, ok)
        PROVE  \E to : call' = [call EXCEPT ![u] = to]
    BY <2>3 DEF CreateMeta, StartPause, BootStage, Step
  <2>4. CASE UndoMeta(u) \/ UndoCreate(u)
    BY <2>4 DEF UndoMeta, UndoCreate, BootStage, BootFails, Step
  <2> QED
    BY <2>1, <2>2, <2>3, <2>4 DEF CallerStep, PullStep, BootStep
<1> QED
  BY <1>1 DEF SMTypeOK

\* A task is handed a sandbox by a reuse, which leaves containerd alone, or by
\* the boot that started the VM.
LEMMA HandedOver ==
    ASSUME SMTypeOK, CtrTypeOK, NothingToRecover, MaxCrashes = 0, LocalTypeOK, [Next]_vars,
           NEW t \in Callers, call[t] \notin Using, call'[t] \in Using
    PROVE  \/ Reuse(t) /\ UNCHANGED <<task, died>>
           \/ task'[sid(t)] = "running"
<1> USE IdTypes DEF Using
<1>1. ASSUME NEW u \in Callers, CallInProgress(u), u # t PROVE FALSE
  BY <1>1, CallManager, OthersStand DEF smVars
<1>2. CASE CallInProgress(t)
  <2>1. CASE CleanupContainer(t)
    BY <2>1 DEF CleanupContainer, GetOrCreateCall, Step, smVars, SMTypeOK
  <2>2. CASE Acquire(t)
    <3>1. CASE Reuse(t) /\ UNCHANGED ctrVars
      BY <2>2, <3>1 DEF Acquire, driverVars, ctrVars
    <3>2. CASE Boot(t) \/ UndoMeta(t) \/ UndoCreate(t)
      BY <3>2 DEF Boot, UndoMeta, UndoCreate, BootStage, BootFails, Step, SMTypeOK
    <3>3. ASSUME NEW ok \in BOOLEAN,
                 EnsurePauseImage(t, ok) \/ CreatePause(t, ok) \/ CreateMeta(t, ok)
          PROVE  FALSE
      BY <3>3 DEF EnsurePauseImage, CreatePause, CreateMeta, BootStage, BootFails, Step, SMTypeOK
    <3>4. ASSUME NEW ok \in BOOLEAN, StartPause(t, ok), StartTaskDetached(sid(t), ok)
          PROVE  task'[sid(t)] = "running"
      <4>1. CASE ok
        BY <3>4, <4>1 DEF StartTaskDetached, CtrTypeOK
      <4>2. CASE ~ok
        BY <3>4, <4>2 DEF StartPause, BootStage, Step, SMTypeOK
      <4> QED
        BY <4>1, <4>2
    <3> QED
      BY <2>2, <3>1, <3>2, <3>3, <3>4, OutcomeBoolean DEF Acquire
  <2>3. CASE CreateTask(t) \/ DestroyContainer(t)
    BY <2>3 DEF CreateTask, DestroyContainer, ReleaseCall, Step, smVars
  <2>4. CASE ReleaseSandbox(t)
    <3>1. PICK to \in {"out", "release"} \cup TearingDown : call' = [call EXCEPT ![t] = to]
      BY <2>4, ReleaseCallStages
    <3>2. to \in {"out"} \cup TearingDown
      BY <2>4, <3>1
      DEF ReleaseSandbox, ReleaseShared, ReleaseLast, KillPause, DeletePauseTask,
          DeletePauseContainer, DeleteMeta, TeardownStage, Step, TearingDown, SMTypeOK
    <3> QED
      BY <3>1, <3>2 DEF SMTypeOK, TearingDown
  <2>5. CASE Reattach(t)
    BY <2>5 DEF Reattach, Move, NothingToRecover
  <2>6. CASE StartFails(t) \/ Launch(t) \/ StopReturns(t) \/ AwaitKill(t) \/ Return(t)
    BY <2>6 DEF StartFails, Launch, StopReturns, AwaitKill, Return, smVars
  <2> QED
    BY <1>2, <2>1, <2>2, <2>3, <2>4, <2>5, <2>6 DEF CallInProgress
<1>3. ASSUME NEW u \in Callers, NEW k \in Slots, HandleStep(u, k) PROVE FALSE
  BY <1>3, HandleManager DEF smVars
<1>4. ASSUME NEW u \in Callers,
             StartTask(u) \/ StopTask(u) \/ DestroyTask(u) \/ RecoverTask(u) \/ TaskExits(u)
      PROVE  FALSE
  BY <1>4 DEF StartTask, StopTask, DestroyTask, RecoverTask, TaskExits, smVars
<1>5. ASSUME NEW a \in Allocs, VMExits(a) \/ VMDies(a) PROVE FALSE
  BY <1>5 DEF VMExits, VMDies, VMDown, smVars
<1>6. CASE Crash
  BY <1>6 DEF Crash, LocalTypeOK
<1>7. CASE Quiescent \/ UNCHANGED vars
  BY <1>7 DEF Quiescent, vars
<1> QED
  BY <1>1, <1>2, <1>3, <1>4, <1>5, <1>6, <1>7 DEF Next

\* Whoever is handed a sandbox holds a VM that runs, until the VM is lost.
LEMMA NextVMUp ==
    ASSUME DistinctIds, MaxCrashes = 0, SMInv, CtrTypeOK, LocalTypeOK, MarkerFirst,
           VerdictInv, [Next]_vars
    PROVE  VMUp'
<1> SUFFICES ASSUME NEW t \in Callers, call'[t] \in Using, AllocOf[t] \notin died'
             PROVE  task'[sid(t)] = "running"
  BY DEF VMUp, sid
<1> DEFINE a == AllocOf[t]
<1> USE IdTypes
<1>1. a \notin died /\ a \notin dead
  BY DiedGrows DEF VerdictInv, OnlyLostVMsCondemned
<1>2. CASE call[t] \in Using
  <2>1. task[SandboxID[a]] = "running"
    BY <1>1, <1>2 DEF VerdictInv, VMUp, sid
  <2>2. t \in Holders(a)
    BY <1>2 DEF Holders
  <2>3. SUFFICES ASSUME task'[SandboxID[a]] # "running" PROVE FALSE
    BY DEF sid
  <2>4. task'[SandboxID[a]] = "dying"
    BY <2>1, <2>3, GoesDown
  <2> QED
    BY <1>1, <2>1, <2>2, <2>4, KillStep
<1>3. CASE call[t] \notin Using
  <2>1. CASE task'[sid(t)] = "running"
    BY <2>1
  <2>2. CASE Reuse(t) /\ UNCHANGED <<task, died>>
    <3>1. a \in sandboxes /\ mu = Nobody
      BY <2>2 DEF Reuse
    <3>2. ~BeingTornDown(a)
      BY <3>1, CallersAssumption DEF SMInv, MutexHeld, BeingTornDown, Critical
    <3>3. PICK u \in Callers : AllocOf[u] = a /\ call[u] \in Using
      BY <3>1, <3>2 DEF SMInv, EntryIffUsed, Holders
    <3>4. task[sid(u)] = "running" /\ sid(u) = sid(t)
      BY <1>1, <3>3 DEF VerdictInv, VMUp, sid
    <3> QED
      BY <2>2, <3>4
  <2> QED
    BY <1>3, <2>1, <2>2, HandedOver DEF SMInv, VerdictInv
<1> QED
  BY <1>2, <1>3

\* A task that fails in a VM that is not running has lost it; errors tell the
\* truth about that when the connection to containerd does not close.
LEMMA VerdictIsTrue ==
    ASSUME "Transport" \notin Faults, LocalTypeOK, RunnerMatchesCall, GoroutineOwned, VMUp,
           NEW t \in Callers, NEW k \in Slots, run[t][k] = "failed",
           NEW s \in TaskState(sid(t)), s \in {"stopped", "lost"}
    PROVE  AllocOf[t] \in died
<1>1. pc[t] \in Pending
  BY DEF GoroutineOwned
<1>2. call[t] \in Using
  BY <1>1 DEF RunnerMatchesCall, Pending, Handled, Using
<1>3. task[sid(t)] # "running"
  BY DEF TaskState, Alive
<1> QED
  BY <1>2, <1>3 DEF VMUp

\* A step of a goroutine begins or continues the work of markSandboxDead only
\* in an allocation whose VM was lost.
LEMMA HandleVerdict ==
    ASSUME "Transport" \notin Faults, LocalTypeOK, RunnerMatchesCall, GoroutineOwned, VerdictInv,
           NEW t \in Callers, NEW k \in Slots, HandleStep(t, k)
    PROVE  OnlyLostVMsCondemned' /\ MarksLostVMs'
<1>1. UNCHANGED died
  BY DEF HandleStep, Run, WaitFails, MonitorRecovered, RecordExit, WriteMarker, MarkCleanup, SetExit, envVars
<1>2. ASSUME NEW from, NEW to, RunMove(t, k, from, to)
      PROVE  /\ run[t][k] = from /\ run'[t][k] = to
             /\ \A u \in Callers, j \in Slots : u # t \/ j # k => run'[u][j] = run[u][j]
  BY <1>2 DEF RunMove, LocalTypeOK
<1>3. ASSUME NEW from, NEW to, RunMove(t, k, from, to),
             to \in Marking => AllocOf[t] \in died
      PROVE  MarksLostVMs'
  BY <1>1, <1>2, <1>3 DEF VerdictInv, MarksLostVMs
<1>4. CASE Run(t, k) \/ WaitFails(t, k) \/ MonitorRecovered(t, k) \/ SetExit(t, k)
  <2>1. PICK from, to \in Runs \ Marking : RunMove(t, k, from, to)
    BY <1>4, MonitorMoves DEF Run, WaitFails, SetExit, Recorded, Runs, Marking
  <2>2. UNCHANGED dead
    BY <1>4 DEF Run, WaitFails, MonitorRecovered, SetExit
  <2> QED
    BY <1>1, <1>3, <2>1, <2>2 DEF VerdictInv, OnlyLostVMsCondemned
<1>5. CASE RecordExit(t, k)
  <2>1. PICK s \in TaskState(sid(t)) :
            RunMove(t, k, "failed", IF s \in {"stopped", "lost"} THEN "verdict" ELSE "exit")
    BY <1>5 DEF RecordExit
  <2>2. s \in {"stopped", "lost"} => AllocOf[t] \in died
    BY <1>2, <2>1, VerdictIsTrue DEF VerdictInv
  <2>3. MarksLostVMs'
    BY <1>3, <2>1, <2>2 DEF Marking
  <2> QED
    BY <1>1, <1>5, <2>3 DEF RecordExit, VerdictInv, OnlyLostVMsCondemned
<1>6. CASE WriteMarker(t, k)
  <2>1. PICK ok \in BOOLEAN :
            /\ RunMove(t, k, "verdict", IF ok THEN "markKill" ELSE "exit")
            /\ dead' = IF ok THEN dead \cup {AllocOf[t]} ELSE dead
    BY <1>6, OutcomeBoolean DEF WriteMarker
  <2>2. AllocOf[t] \in died
    BY <1>2, <2>1 DEF VerdictInv, MarksLostVMs, Marking
  <2> QED
    BY <1>1, <1>3, <2>1, <2>2 DEF VerdictInv, OnlyLostVMsCondemned
<1>7. CASE MarkCleanup(t, k)
  <2>1. PICK from \in Marking, to \in Runs : RunMove(t, k, from, to)
    BY <1>7 DEF MarkCleanup, Marking, Runs
  <2>2. AllocOf[t] \in died
    BY <1>2, <2>1 DEF VerdictInv, MarksLostVMs
  <2>3. UNCHANGED dead
    BY <1>7 DEF MarkCleanup
  <2> QED
    BY <1>1, <1>3, <2>1, <2>2, <2>3 DEF VerdictInv, OnlyLostVMsCondemned
<1> QED
  BY <1>4, <1>5, <1>6, <1>7 DEF HandleStep

\* The steps of everybody else leave the markers alone and begin no verdict.
LEMMA OthersNoVerdict ==
    ASSUME LocalTypeOK, VerdictInv, [Next]_vars,
           ~ \E t \in Callers, k \in Slots : HandleStep(t, k)
    PROVE  OnlyLostVMsCondemned' /\ MarksLostVMs'
<1>1. ASSUME UNCHANGED dead,
             \A t \in Callers, k \in Slots : run'[t][k] = run[t][k] \/ run'[t][k] \notin Marking
      PROVE  OnlyLostVMsCondemned' /\ MarksLostVMs'
  BY <1>1, DiedGrows DEF VerdictInv, OnlyLostVMsCondemned, MarksLostVMs
<1>2. CASE UNCHANGED <<dead, run>>
  BY <1>2, <1>1
<1>3. ASSUME NEW t \in Callers, CallInProgress(t)
      PROVE  OnlyLostVMsCondemned' /\ MarksLostVMs'
  <2>1. CASE Launch(t) \/ Reattach(t)
    <3>1. PICK j \in Slots, s \in {"open", "reopen"} : run' = [run EXCEPT ![t][j] = s]
      BY <2>1 DEF Launch, Reattach, NewHandle
    <3>2. \A u \in Callers, k \in Slots : run'[u][k] = run[u][k] \/ run'[u][k] = s
      BY <3>1 DEF LocalTypeOK
    <3> QED
      BY <2>1, <3>2, <1>1 DEF Launch, Reattach, Marking
  <2>2. CASE Return(t)
    <3>1. run' = [run EXCEPT ![t] = [k \in Slots |->
                     IF k = h[t] /\ run[t][k] = "done" THEN "none" ELSE run[t][k]]]
      BY <2>2 DEF Return
    <3>2. \A u \in Callers, k \in Slots : run'[u][k] = run[u][k] \/ run'[u][k] = "none"
      BY <3>1 DEF LocalTypeOK
    <3> QED
      BY <2>2, <3>2, <1>1 DEF Return, Marking
  <2>3. CASE CleanupContainer(t) \/ Acquire(t) \/ StartFails(t) \/ CreateTask(t) \/ StopReturns(t)
             \/ AwaitKill(t) \/ DestroyContainer(t) \/ ReleaseSandbox(t)
    BY <2>3, <1>2
    DEF CleanupContainer, Acquire, StartFails, CreateTask, StopReturns, AwaitKill,
        DestroyContainer, ReleaseSandbox, handleVars, driverVars
  <2> QED
    BY <1>3, <2>1, <2>2, <2>3 DEF CallInProgress
<1>4. ASSUME NEW t \in Callers, StartTask(t) \/ StopTask(t) \/ DestroyTask(t) \/ RecoverTask(t)
      PROVE  OnlyLostVMsCondemned' /\ MarksLostVMs'
  BY <1>4, <1>2 DEF StartTask, StopTask, DestroyTask, RecoverTask, handleVars
<1>5. ASSUME NEW t \in Callers, TaskExits(t)
      PROVE  OnlyLostVMsCondemned' /\ MarksLostVMs'
  <2>1. PICK seen \in {"exit", "failed"} :
            run' = [run EXCEPT ![t] = [k \in Slots |->
                       IF run[t][k] = "wait" THEN seen ELSE run[t][k]]]
    BY <1>5 DEF TaskExits
  <2>2. \A u \in Callers, k \in Slots : run'[u][k] = run[u][k] \/ run'[u][k] = seen
    BY <2>1 DEF LocalTypeOK
  <2> QED
    BY <2>2, <1>5, <1>1 DEF TaskExits, Marking
<1>6. ASSUME NEW a \in Allocs, VMExits(a) \/ VMDies(a)
      PROVE  OnlyLostVMsCondemned' /\ MarksLostVMs'
  <2>1. \A u \in Callers, k \in Slots : run'[u][k] = run[u][k] \/ run'[u][k] = "failed"
    BY <1>6 DEF VMExits, VMDies, VMDown
  <2> QED
    BY <2>1, <1>6, <1>1 DEF VMExits, VMDies, VMDown, Marking
<1>7. CASE Crash
  BY <1>7, <1>1 DEF Crash, Marking
<1>8. CASE Quiescent \/ UNCHANGED vars
  BY <1>8, <1>2 DEF Quiescent, vars
<1> QED
  BY <1>3, <1>4, <1>5, <1>6, <1>7, <1>8 DEF Next

\* Without a crash no runner recovers anything.
LEMMA NextNothingToRecover ==
    ASSUME MaxCrashes = 0, LocalTypeOK, NothingToRecover, [Next]_vars
    PROVE  NothingToRecover'
<1>1. ASSUME NEW t \in Callers, NEW from, NEW to \in Runners \ {"lost", "recover"},
             Move(t, from, to)
      PROVE  NothingToRecover'
  BY <1>1 DEF Move, NothingToRecover, LocalTypeOK
<1>2. CASE UNCHANGED pc
  BY <1>2 DEF NothingToRecover
<1>3. ASSUME NEW t \in Callers, CallInProgress(t)
      PROVE  \/ UNCHANGED pc
             \/ \E from, to \in Runners \ {"lost", "recover"} : Move(t, from, to)
  <2>1. CASE CleanupContainer(t) \/ StartFails(t) \/ CreateTask(t) \/ Launch(t)
    BY <2>1 DEF CleanupContainer, StartFails, CreateTask, Launch, Runners
  <2>2. CASE StopReturns(t) \/ AwaitKill(t) \/ DestroyContainer(t) \/ Return(t)
    BY <2>2 DEF StopReturns, AwaitKill, DestroyContainer, Return, Runners
  <2>3. CASE Acquire(t) \/ ReleaseSandbox(t)
    BY <2>3 DEF Acquire, ReleaseSandbox, driverVars
  <2>4. CASE Reattach(t)
    BY <2>4 DEF Reattach, Move, NothingToRecover
  <2> QED
    BY <1>3, <2>1, <2>2, <2>3, <2>4 DEF CallInProgress
<1>4. ASSUME NEW t \in Callers, StartTask(t) \/ StopTask(t) \/ DestroyTask(t)
      PROVE  \E from, to \in Runners \ {"lost", "recover"} : Move(t, from, to)
  <2>1. pc[t] \in {"running", "stopped"} => pc[t] \in Runners \ {"lost", "recover"}
    BY DEF Runners
  <2> QED
    BY <1>4, <2>1 DEF StartTask, StopTask, DestroyTask, Runners
<1>5. ASSUME NEW t \in Callers, RecoverTask(t) PROVE FALSE
  BY <1>5 DEF RecoverTask, Move, NothingToRecover
<1>6. ASSUME NEW t \in Callers, NEW k \in Slots, HandleStep(t, k) PROVE UNCHANGED pc
  BY <1>6 DEF HandleStep, Run, WaitFails, MonitorRecovered, RecordExit, WriteMarker, MarkCleanup, SetExit
<1>7. ASSUME NEW t \in Callers, TaskExits(t) PROVE UNCHANGED pc
  BY <1>7 DEF TaskExits
<1>8. ASSUME NEW a \in Allocs, VMExits(a) \/ VMDies(a) PROVE UNCHANGED pc
  BY <1>8 DEF VMExits, VMDies, VMDown
<1>9. CASE Crash
  BY <1>9 DEF Crash, LocalTypeOK
<1>10. CASE Quiescent \/ UNCHANGED vars
  BY <1>10, <1>2 DEF Quiescent, vars
<1> QED
  BY <1>1, <1>2, <1>3, <1>4, <1>5, <1>6, <1>7, <1>8, <1>9, <1>10 DEF Next

\* As long as the plugin and its connection to containerd live, DestroyTask sees
\* the exits it waits for and no container shares its ID with a sandbox, only an
\* allocation whose VM the host lost is condemned, whatever else fails, a wait
\* for an exit included, and however often tasks restart.
THEOREM DriverOnlyLostVMsCondemned ==
    ASSUME DistinctIds, ~KillTimeouts, MaxCrashes = 0, "Transport" \notin Faults
    PROVE  Spec => []OnlyLostVMsCondemned
<1> DEFINE Base == /\ SMInv /\ CtrTypeOK /\ LocalTypeOK /\ MarkerFirst
                   /\ RunnerMatchesCall /\ GoroutineOwned
<1>1. Init => VerdictInv
  BY DEF Init, SMInit, VerdictInv, VMUp, OnlyLostVMsCondemned, MarksLostVMs, NothingToRecover,
         Using, Marking
<1>2. Base /\ VerdictInv /\ [Next]_vars => VerdictInv'
  BY NextVMUp, HandleVerdict, OthersNoVerdict, NextNothingToRecover DEF VerdictInv
<1>3. TypeOK => CtrTypeOK /\ LocalTypeOK
  BY DEF TypeOK, LocalTypeOK
<1>4. Spec => []Base
  BY <1>3, DriverTypes, DriverMarkerFirst, DriverMatchesCall, DriverGoroutines,
     DriverUsesManager, ManagerInvariant, PTL
<1>5. VerdictInv => OnlyLostVMsCondemned
  BY DEF VerdictInv
<1> QED
  BY <1>1, <1>2, <1>4, <1>5, PTL DEF Spec
=============================================================================
