-------------------------- MODULE KataDriverProofs --------------------------
(***************************************************************************)
(* The driver, for every set of tasks and allocations, whatever containerd *)
(* refuses, whether or not kills time out and however often the plugin     *)
(* crashes.                                                                *)
(***************************************************************************)
EXTENDS KataDriver, SandboxManagerProofs

-----------------------------------------------------------------------------
(* The driver uses the sandbox manager by its own steps only.              *)

\* Whatever containerd answers, a call succeeds or fails.
LEMMA OutcomeBoolean ==
    /\ \A rpc : Outcome(rpc) \subseteq BOOLEAN
    /\ \A id : CreateResults(id) \subseteq BOOLEAN
    /\ \A id : StartResults(id) \subseteq BOOLEAN
BY DEF Outcome, CreateResults, StartResults

\* A stage of GetOrCreate with its containerd call is a step of the manager.
LEMMA AcquireManager == ASSUME NEW t \in Callers, Acquire(t) PROVE CallerStep(t)
<1>1. CASE Reuse(t) \/ Boot(t) \/ UndoMeta(t) \/ UndoCreate(t)
  BY <1>1 DEF CallerStep, TakeLock, BootStep
<1>2. CASE \E ok \in BOOLEAN : EnsurePauseImage(t, ok)
  BY <1>2 DEF CallerStep, PullStep
<1>3. CASE \E ok \in BOOLEAN : CreatePause(t, ok) \/ CreateMeta(t, ok) \/ StartPause(t, ok)
  BY <1>3 DEF CallerStep, BootStep
<1> QED
  BY <1>1, <1>2, <1>3, OutcomeBoolean DEF Acquire

\* So is a stage of Release.
LEMMA ReleaseManager == ASSUME NEW t \in Callers, ReleaseSandbox(t) PROVE CallerStep(t)
BY DEF ReleaseSandbox, CallerStep, TakeLock, TeardownStep

\* A driver call in progress takes a step of the manager or leaves it alone.
LEMMA CallManager ==
    ASSUME NEW t \in Callers, CallInProgress(t)
    PROVE  CallerStep(t) \/ UNCHANGED smVars
<1>1. CASE CleanupContainer(t) \/ CreateTask(t) \/ DestroyContainer(t) \/ Reattach(t)
  BY <1>1 DEF CleanupContainer, CreateTask, DestroyContainer, Reattach, CallerStep
<1>2. CASE Acquire(t)
  BY <1>2, AcquireManager
<1>3. CASE ReleaseSandbox(t)
  BY <1>3, ReleaseManager
<1>4. CASE StartFails(t) \/ Launch(t) \/ StopReturns(t) \/ AwaitKill(t) \/ Return(t)
  BY <1>4 DEF StartFails, Launch, StopReturns, AwaitKill, Return
<1> QED
  BY <1>1, <1>2, <1>3, <1>4 DEF CallInProgress

\* The goroutine of a handle, markSandboxDead included, never touches the manager.
LEMMA HandleManager ==
    ASSUME NEW t \in Callers, NEW k \in Slots, HandleStep(t, k)
    PROVE  UNCHANGED smVars
BY DEF HandleStep, Run, WaitFails, MonitorRecovered, RecordExit, WriteMarker, MarkCleanup, SetExit

\* Every step of the composition is a step of the manager or a stutter.
LEMMA NextManager == [Next]_vars => [SMNext]_smVars
<1> SUFFICES ASSUME [Next]_vars PROVE [SMNext]_smVars
  OBVIOUS
<1>1. ASSUME NEW t \in Callers, CallInProgress(t) PROVE [SMNext]_smVars
  BY <1>1, CallManager DEF SMNext
<1>2. ASSUME NEW t \in Callers, NEW k \in Slots, HandleStep(t, k) PROVE [SMNext]_smVars
  BY <1>2, HandleManager
<1>3. ASSUME NEW t \in Callers,
             StartTask(t) \/ StopTask(t) \/ DestroyTask(t) \/ RecoverTask(t) \/ TaskExits(t)
      PROVE  UNCHANGED smVars
  BY <1>3 DEF StartTask, StopTask, DestroyTask, RecoverTask, TaskExits
<1>4. ASSUME NEW a \in Allocs, VMExits(a) \/ VMDies(a) PROVE UNCHANGED smVars
  BY <1>4 DEF VMExits, VMDies, VMDown
<1>5. CASE Crash
  BY <1>5 DEF Crash, SMNext
<1>6. CASE Quiescent \/ UNCHANGED vars
  BY <1>6 DEF Quiescent, vars, smVars
<1> QED
  BY <1>1, <1>2, <1>3, <1>4, <1>5, <1>6 DEF Next

\* The driver drives the sandbox manager as its specification says.
THEOREM DriverUsesManager == Spec => SMSpec
<1>1. Init => SMInit
  BY DEF Init
<1> QED
  BY <1>1, NextManager, PTL DEF Spec, SMSpec

\* So the reference counts are exact in the driver.
THEOREM DriverRefCount == Spec => []RefCountExact
BY DriverUsesManager, ManagerRefCount, PTL

\* And the driver implements the shared sandbox.
THEOREM DriverRefines == Spec => Abstract!Safety
BY DriverUsesManager, ManagerRefines, PTL

-----------------------------------------------------------------------------
(* Types.                                                                  *)

\* The variables of each layer below the composition.
LocalTypeOK ==
    /\ pc \in [Callers -> Runners]
    /\ h \in [Callers -> 0 .. NumSlots]
    /\ run \in [Callers -> [Slots -> Runs]]
    /\ dead \in SUBSET Allocs
    /\ died \in SUBSET Allocs
    /\ starts \in [Callers -> Nat]
    /\ crashes \in 0 .. MaxCrashes
    /\ unseen \in SUBSET Callers

\* Each containerd operation keeps containerd's types.
LEMMA CtrOps ==
    ASSUME CtrTypeOK, NEW id \in Ids, NEW ok \in BOOLEAN,
           \/ KillTask(id) \/ DeleteTask(id) \/ DeleteContainer(id)
           \/ DeleteSandboxMetadata(id) \/ CreateContainer(id, ok)
           \/ StartTaskDetached(id, ok) \/ CreateSandboxMetadata(id, ok)
           \/ UNCHANGED ctrVars
    PROVE  CtrTypeOK'
<1> USE DEF CtrTypeOK, TaskStates, refusals
<1>1. CASE KillTask(id) \/ DeleteTask(id)
  BY <1>1 DEF KillTask, DeleteTask
<1>2. CASE DeleteContainer(id) \/ DeleteSandboxMetadata(id)
  BY <1>2 DEF DeleteContainer, DeleteSandboxMetadata
<1>3. CASE CreateContainer(id, ok) \/ CreateSandboxMetadata(id, ok)
  BY <1>3 DEF CreateContainer, CreateSandboxMetadata
<1>4. CASE StartTaskDetached(id, ok) \/ UNCHANGED ctrVars
  BY <1>4 DEF StartTaskDetached, ctrVars
<1> QED
  BY <1>1, <1>2, <1>3, <1>4

\* The IDs of tasks and allocations are containerd IDs.
LEMMA IdTypes ==
    ASSUME NEW t \in Callers PROVE cid(t) \in Ids /\ sid(t) \in Ids /\ AllocOf[t] \in Allocs
BY IdsAssumption, AllocOfAssumption DEF cid, sid

\* A move of a task runner keeps its type.
LEMMA MoveTypes ==
    ASSUME LocalTypeOK, NEW t \in Callers, NEW from, NEW to \in Runners, Move(t, from, to)
    PROVE  pc' \in [Callers -> Runners]
BY DEF LocalTypeOK, Move

\* A move of a goroutine keeps its type.
LEMMA RunMoveTypes ==
    ASSUME LocalTypeOK, NEW t \in Callers, NEW k \in Slots, NEW from, NEW to \in Runs,
           RunMove(t, k, from, to)
    PROVE  run' \in [Callers -> [Slots -> Runs]]
BY DEF LocalTypeOK, RunMove

\* A new handle has a slot and a goroutine.
LEMMA NewHandleTypes ==
    ASSUME LocalTypeOK, NEW t \in Callers, NEW s \in Runs, NewHandle(t, s)
    PROVE  run' \in [Callers -> [Slots -> Runs]] /\ h' \in [Callers -> 0 .. NumSlots]
BY BoundsAssumption DEF LocalTypeOK, NewHandle, Slots

\* The steps of a driver call keep the types.
LEMMA CallTypes ==
    ASSUME LocalTypeOK, CtrTypeOK, NEW t \in Callers, CallInProgress(t)
    PROVE  LocalTypeOK' /\ CtrTypeOK'
<1> USE IdTypes
<1>1. CASE CleanupContainer(t)
  <2>1. pc' \in [Callers -> Runners]
    BY <1>1, MoveTypes DEF CleanupContainer, Runners
  <2>2. CtrTypeOK'
    BY <1>1, CtrOps DEF CleanupContainer
  <2> QED
    BY <1>1, <2>1, <2>2 DEF CleanupContainer, handleVars, envVars, LocalTypeOK
<1>2. CASE Acquire(t)
  <2>1. CtrTypeOK'
    BY <1>2, CtrOps, OutcomeBoolean DEF Acquire
  <2> QED
    BY <1>2, <2>1 DEF Acquire, driverVars, LocalTypeOK
<1>3. CASE StartFails(t) \/ AwaitKill(t)
  <2>1. pc' \in [Callers -> Runners]
    BY <1>3, MoveTypes DEF StartFails, AwaitKill, Runners
  <2> QED
    BY <1>3, <2>1 DEF StartFails, AwaitKill, ctrVars, handleVars, envVars, LocalTypeOK, CtrTypeOK
<1>4. CASE CreateTask(t)
  <2>1. pc' \in [Callers -> Runners]
    BY <1>4, MoveTypes DEF CreateTask, Runners
  <2>2. CtrTypeOK'
    BY <1>4, CtrOps, OutcomeBoolean DEF CreateTask
  <2> QED
    BY <1>4, <2>1, <2>2 DEF CreateTask, handleVars, envVars, LocalTypeOK
<1>5. CASE Launch(t)
  <2>1. pc' \in [Callers -> Runners]
    BY <1>5, MoveTypes DEF Launch, Runners
  <2>2. run' \in [Callers -> [Slots -> Runs]] /\ h' \in [Callers -> 0 .. NumSlots]
    BY <1>5, NewHandleTypes DEF Launch, Runs
  <2> QED
    BY <1>5, <2>1, <2>2 DEF Launch, ctrVars, envVars, LocalTypeOK, CtrTypeOK
<1>6. CASE StopReturns(t)
  <2>1. pc' \in [Callers -> Runners]
    BY <1>6, MoveTypes DEF StopReturns, Runners
  <2>2. CtrTypeOK'
    BY <1>6, CtrOps DEF StopReturns
  <2> QED
    BY <1>6, <2>1, <2>2 DEF StopReturns, handleVars, envVars, LocalTypeOK
<1>7. CASE DestroyContainer(t)
  <2>1. pc' \in [Callers -> Runners]
    BY <1>7, MoveTypes DEF DestroyContainer, Runners
  <2>2. CtrTypeOK'
    BY <1>7, CtrOps DEF DestroyContainer
  <2> QED
    BY <1>7, <2>1, <2>2 DEF DestroyContainer, handleVars, envVars, LocalTypeOK
<1>8. CASE ReleaseSandbox(t)
  <2>1. CtrTypeOK'
    BY <1>8, CtrOps DEF ReleaseSandbox
  <2> QED
    BY <1>8, <2>1 DEF ReleaseSandbox, driverVars, LocalTypeOK
<1>9. CASE Return(t)
  <2>1. pc' \in [Callers -> Runners]
    BY <1>9, MoveTypes DEF Return, Runners
  <2>2. h' \in [Callers -> 0 .. NumSlots]
    BY <1>9, BoundsAssumption DEF Return, LocalTypeOK
  <2>3. run' \in [Callers -> [Slots -> Runs]]
    BY <1>9 DEF Return, LocalTypeOK, Runs
  <2> QED
    BY <1>9, <2>1, <2>2, <2>3 DEF Return, ctrVars, envVars, LocalTypeOK, CtrTypeOK
<1>10. CASE Reattach(t)
  <2>1. pc' \in [Callers -> Runners]
    BY <1>10, MoveTypes DEF Reattach, Runners
  <2>2. run' \in [Callers -> [Slots -> Runs]] /\ h' \in [Callers -> 0 .. NumSlots]
    BY <1>10, NewHandleTypes DEF Reattach, Runs
  <2> QED
    BY <1>10, <2>1, <2>2 DEF Reattach, ctrVars, envVars, LocalTypeOK, CtrTypeOK
<1> QED
  BY <1>1, <1>2, <1>3, <1>4, <1>5, <1>6, <1>7, <1>8, <1>9, <1>10 DEF CallInProgress

\* Attaching to a recovered task ends in one of these ways.
LEMMA MonitorMoves ==
    ASSUME NEW t \in Callers, NEW k \in Slots, MonitorRecovered(t, k)
    PROVE  \E to \in {"none", "done", "wait", "failed", "exit"} : RunMove(t, k, "reopen", to)
BY DEF MonitorRecovered, MonitorTask, Recorded

\* The steps of a handle's goroutine keep the types.
LEMMA HandleTypes ==
    ASSUME LocalTypeOK, CtrTypeOK, NEW t \in Callers, NEW k \in Slots, HandleStep(t, k)
    PROVE  LocalTypeOK' /\ CtrTypeOK'
<1> USE IdTypes
<1>1. run' \in [Callers -> [Slots -> Runs]]
  BY RunMoveTypes, MonitorMoves
  DEF HandleStep, Run, WaitFails, MonitorRecovered, RecordExit, WriteMarker, MarkCleanup, SetExit,
      Recorded, Runs, Marking
<1>2. CtrTypeOK'
  <2>1. CASE Run(t, k)
    <3>1. (IF task[sid(t)] = "running" THEN StartResults(cid(t)) ELSE {FALSE}) \subseteq BOOLEAN
      BY OutcomeBoolean
    <3> QED
      BY <2>1, <3>1, CtrOps DEF Run
  <2>2. CASE MarkCleanup(t, k)
    BY <2>2, CtrOps DEF MarkCleanup
  <2>3. CASE WaitFails(t, k) \/ MonitorRecovered(t, k) \/ RecordExit(t, k) \/ WriteMarker(t, k) \/ SetExit(t, k)
    BY <2>3 DEF WaitFails, MonitorRecovered, RecordExit, WriteMarker, SetExit, ctrVars, CtrTypeOK
  <2> QED
    BY <2>1, <2>2, <2>3 DEF HandleStep
<1>3. dead' \in SUBSET Allocs
  <2>1. AllocOf[t] \in Allocs /\ dead \in SUBSET Allocs
    BY DEF LocalTypeOK
  <2>2. dead' = dead \/ dead' = dead \cup {AllocOf[t]}
    BY DEF HandleStep, Run, WaitFails, MonitorRecovered, RecordExit, WriteMarker, MarkCleanup, SetExit
  <2> QED
    BY <2>1, <2>2
<1>4. UNCHANGED <<pc, h, died, starts, crashes>> /\ unseen' \in SUBSET Callers
  BY DEF LocalTypeOK, HandleStep, Run, WaitFails, MonitorRecovered, RecordExit, WriteMarker, MarkCleanup, SetExit, envVars
<1> QED
  BY <1>1, <1>2, <1>3, <1>4 DEF LocalTypeOK

\* A VM that goes down keeps the types.
LEMMA VMDownTypes ==
    ASSUME LocalTypeOK, CtrTypeOK, NEW a \in Allocs, NEW s \in TaskStates, VMDown(a, s)
    PROVE  /\ CtrTypeOK'
           /\ run' \in [Callers -> [Slots -> Runs]]
           /\ UNCHANGED <<pc, h, dead, starts, crashes>> /\ unseen' \in SUBSET Callers
<1>1. task' \in [Ids -> TaskStates]
  BY DEF VMDown, CtrTypeOK, TaskStates
<1>2. run' \in [Callers -> [Slots -> Runs]]
  BY DEF VMDown, LocalTypeOK, Runs
<1> QED
  BY <1>1, <1>2 DEF VMDown, CtrTypeOK, LocalTypeOK, StillUnseen, refusals

\* The types of the driver's and of containerd's variables are inductive.
LEMMA NextTypes == LocalTypeOK /\ CtrTypeOK /\ [Next]_vars => LocalTypeOK' /\ CtrTypeOK'
<1> SUFFICES ASSUME LocalTypeOK, CtrTypeOK, [Next]_vars PROVE LocalTypeOK' /\ CtrTypeOK'
  OBVIOUS
<1> USE IdTypes
<1>1. ASSUME NEW t \in Callers, StartTask(t)
      PROVE  LocalTypeOK' /\ CtrTypeOK'
  <2>1. pc' \in [Callers -> Runners]
    BY <1>1, MoveTypes DEF StartTask, Runners
  <2>2. starts' \in [Callers -> Nat]
    BY <1>1 DEF StartTask, LocalTypeOK
  <2>3. UNCHANGED <<h, run, dead, died, crashes, unseen, ctrVars>>
    BY <1>1 DEF StartTask, handleVars
  <2> QED
    BY <2>1, <2>2, <2>3 DEF LocalTypeOK, CtrTypeOK, ctrVars
<1>2. ASSUME NEW t \in Callers, StopTask(t) \/ RecoverTask(t)
      PROVE  LocalTypeOK' /\ CtrTypeOK'
  <2>1. pc' \in [Callers -> Runners]
    BY <1>2, MoveTypes DEF StopTask, RecoverTask, Runners
  <2>2. CtrTypeOK'
    <3>1. KillTask(cid(t)) \/ UNCHANGED ctrVars
      BY <1>2 DEF StopTask, RecoverTask
    <3> QED
      BY <3>1, CtrOps, TRUE \in BOOLEAN
  <2> QED
    BY <1>2, <2>1, <2>2 DEF StopTask, RecoverTask, handleVars, envVars, LocalTypeOK
<1>3. ASSUME NEW t \in Callers, DestroyTask(t)
      PROVE  LocalTypeOK' /\ CtrTypeOK'
  <2>1. pc' \in [Callers -> Runners]
    BY <1>3, MoveTypes DEF DestroyTask, Runners
  <2>2. CtrTypeOK'
    BY <1>3, CtrOps DEF DestroyTask
  <2> QED
    BY <1>3, <2>1, <2>2 DEF DestroyTask, handleVars, envVars, LocalTypeOK
<1>4. ASSUME NEW t \in Callers, TaskExits(t)
      PROVE  LocalTypeOK' /\ CtrTypeOK'
  <2>1. run' \in [Callers -> [Slots -> Runs]]
    BY <1>4 DEF TaskExits, LocalTypeOK, Runs
  <2> QED
    BY <1>4, <2>1 DEF TaskExits, StillUnseen, refusals, LocalTypeOK, CtrTypeOK, TaskStates
<1>5. ASSUME NEW a \in Allocs, VMExits(a)
      PROVE  LocalTypeOK' /\ CtrTypeOK'
  BY <1>5, VMDownTypes DEF VMExits, LocalTypeOK, TaskStates
<1>6. ASSUME NEW a \in Allocs, VMDies(a)
      PROVE  LocalTypeOK' /\ CtrTypeOK'
  BY <1>6, VMDownTypes DEF VMDies, LocalTypeOK, TaskStates
<1>7. CASE Crash
  <2>1. /\ pc' \in [Callers -> Runners]
        /\ h' \in [Callers -> 0 .. NumSlots]
        /\ run' \in [Callers -> [Slots -> Runs]]
    BY <1>7, BoundsAssumption DEF Crash, Runners, Runs
  <2>2. crashes' \in 0 .. MaxCrashes
    BY <1>7, BoundsAssumption DEF Crash, LocalTypeOK
  <2> QED
    BY <1>7, <2>1, <2>2 DEF Crash, ctrVars, LocalTypeOK, CtrTypeOK
<1>8. CASE Quiescent \/ UNCHANGED vars
  BY <1>8 DEF Quiescent, vars, LocalTypeOK, CtrTypeOK
<1> QED
  BY <1>1, <1>2, <1>3, <1>4, <1>5, <1>6, <1>7, <1>8, CallTypes, HandleTypes DEF Next

\* Every variable of the composition keeps its type.
THEOREM DriverTypes == Spec => []TypeOK
<1>1. Init => LocalTypeOK /\ CtrTypeOK
  BY BoundsAssumption DEF Init, CtrInit, LocalTypeOK, CtrTypeOK, TaskStates, Runners, Runs
<1>2. Spec => [](LocalTypeOK /\ CtrTypeOK)
  BY <1>1, NextTypes, PTL DEF Spec
<1>3. SMTypeOK /\ LocalTypeOK /\ CtrTypeOK => TypeOK
  BY DEF LocalTypeOK, TypeOK
<1> QED
  BY <1>2, <1>3, DriverUsesManager, ManagerTypes, PTL

-----------------------------------------------------------------------------
(* Handles and references.                                                 *)

NoCall  == {"idle", "kill", "deleteTask", "deleteContainer", "lost", "recover"}
Handled == {"running", "stopping", "stopped", "awaitKill", "destroyTask", "destroyContainer"}

\* Where the runner stands tells where its caller of the manager stands: this
\* is what makes HandleIsCounted inductive.
RunnerMatchesCall ==
    \A t \in Callers :
        /\ pc[t] \in NoCall   => call[t] = "out" /\ h[t] = 0
        /\ pc[t] = "acquire"  => call[t] \in {"out", "lookup", "in"} \cup Booting /\ h[t] = 0
        /\ pc[t] = "launch"   => call[t] = "in" /\ h[t] = 0
        /\ pc[t] \in Handled  => call[t] = "in" /\ h[t] # 0
        /\ pc[t] = "release"  => call[t] \in {"out", "release"} \cup TearingDown

\* A step that moves one runner, its call and its handle preserves it when the
\* new positions match.
LEMMA MatchStep ==
    ASSUME SMTypeOK, LocalTypeOK, RunnerMatchesCall,
           NEW t \in Callers, NEW p \in Runners, NEW s \in Stages, NEW j \in 0 .. NumSlots,
           pc' = [pc EXCEPT ![t] = p], call' = [call EXCEPT ![t] = s], h' = [h EXCEPT ![t] = j],
           /\ p \in NoCall   => s = "out" /\ j = 0
           /\ p = "acquire"  => s \in {"out", "lookup", "in"} \cup Booting /\ j = 0
           /\ p = "launch"   => s = "in" /\ j = 0
           /\ p \in Handled  => s = "in" /\ j # 0
           /\ p = "release"  => s \in {"out", "release"} \cup TearingDown
    PROVE  RunnerMatchesCall'
<1>1. pc'[t] = p /\ call'[t] = s /\ h'[t] = j
  BY DEF SMTypeOK, LocalTypeOK
<1>2. \A u \in Callers : u # t => pc'[u] = pc[u] /\ call'[u] = call[u] /\ h'[u] = h[u]
  BY DEF SMTypeOK, LocalTypeOK
<1>3. ASSUME NEW u \in Callers, u # t
      PROVE  /\ pc'[u] \in NoCall   => call'[u] = "out" /\ h'[u] = 0
             /\ pc'[u] = "acquire"  => call'[u] \in {"out", "lookup", "in"} \cup Booting /\ h'[u] = 0
             /\ pc'[u] = "launch"   => call'[u] = "in" /\ h'[u] = 0
             /\ pc'[u] \in Handled  => call'[u] = "in" /\ h'[u] # 0
             /\ pc'[u] = "release"  => call'[u] \in {"out", "release"} \cup TearingDown
  BY <1>2, <1>3 DEF RunnerMatchesCall
<1> QED
  BY <1>1, <1>3 DEF RunnerMatchesCall

\* The same when the step leaves the call, or the call and the handle, alone.
LEMMA MatchMove ==
    ASSUME SMTypeOK, LocalTypeOK, RunnerMatchesCall,
           NEW t \in Callers, NEW from \in Runners, NEW to \in Runners, Move(t, from, to),
           UNCHANGED <<call, h>>,
           \/ from \in NoCall /\ to \in NoCall
           \/ from = "acquire" /\ to = "idle" /\ call[t] = "out"
           \/ from = "acquire" /\ to = "launch" /\ call[t] = "in"
           \/ from \in Handled /\ to \in Handled
    PROVE  RunnerMatchesCall'
<1>1. /\ pc[t] = from /\ pc' = [pc EXCEPT ![t] = to]
      /\ call' = [call EXCEPT ![t] = call[t]]
      /\ h' = [h EXCEPT ![t] = h[t]]
      /\ call[t] \in Stages /\ h[t] \in 0 .. NumSlots
  BY DEF Move, SMTypeOK, LocalTypeOK
<1>2. CASE from \in NoCall /\ to \in NoCall
  <2>1. call[t] = "out" /\ h[t] = 0
    BY <1>1, <1>2 DEF RunnerMatchesCall
  <2> QED
    BY <1>1, <1>2, <2>1, MatchStep DEF NoCall, Handled
<1>3. CASE from = "acquire" /\ to = "idle" /\ call[t] = "out"
  <2>1. h[t] = 0
    BY <1>1, <1>3 DEF RunnerMatchesCall
  <2> QED
    BY <1>1, <1>3, <2>1, MatchStep DEF NoCall, Handled
<1>4. CASE from = "acquire" /\ to = "launch" /\ call[t] = "in"
  <2>1. h[t] = 0
    BY <1>1, <1>4 DEF RunnerMatchesCall
  <2> QED
    BY <1>1, <1>4, <2>1, MatchStep DEF NoCall, Handled
<1>5. CASE from \in Handled /\ to \in Handled
  <2>1. call[t] = "in" /\ h[t] # 0
    BY <1>1, <1>5 DEF RunnerMatchesCall
  <2> QED
    BY <1>1, <1>5, <2>1, MatchStep DEF NoCall, Handled
<1> QED
  BY <1>2, <1>3, <1>4, <1>5

\* The same for a step of the manager with the runner standing still, or
\* calling Release.
LEMMA MatchCall ==
    ASSUME SMTypeOK, LocalTypeOK, RunnerMatchesCall,
           NEW t \in Callers, NEW to \in Stages, call' = [call EXCEPT ![t] = to],
           UNCHANGED h,
           \/ /\ pc[t] = "acquire" /\ UNCHANGED pc
              /\ to \in {"out", "lookup", "in"} \cup Booting
           \/ /\ pc[t] = "release" /\ UNCHANGED pc
              /\ to \in {"out", "release"} \cup TearingDown
           \/ pc' = [pc EXCEPT ![t] = "release"] /\ to = "release"
           \/ pc[t] = "deleteContainer" /\ pc' = [pc EXCEPT ![t] = "acquire"] /\ to = "lookup"
    PROVE  RunnerMatchesCall'
<1>1. h' = [h EXCEPT ![t] = h[t]] /\ h[t] \in 0 .. NumSlots
  BY DEF LocalTypeOK
<1>2. CASE /\ pc[t] = "acquire" /\ UNCHANGED pc
           /\ to \in {"out", "lookup", "in"} \cup Booting
  <2>1. h[t] = 0 /\ pc' = [pc EXCEPT ![t] = "acquire"]
    BY <1>2 DEF RunnerMatchesCall, LocalTypeOK
  <2> QED
    BY <1>1, <1>2, <2>1, MatchStep DEF NoCall, Handled, Runners
<1>3. CASE /\ pc[t] = "release" /\ UNCHANGED pc
           /\ to \in {"out", "release"} \cup TearingDown
  <2>1. pc' = [pc EXCEPT ![t] = "release"]
    BY <1>3 DEF LocalTypeOK
  <2> QED
    BY <1>1, <1>3, <2>1, MatchStep DEF NoCall, Handled, Runners
<1>4. CASE pc' = [pc EXCEPT ![t] = "release"] /\ to = "release"
  BY <1>1, <1>4, MatchStep DEF NoCall, Handled, Runners
<1>5. CASE pc[t] = "deleteContainer" /\ pc' = [pc EXCEPT ![t] = "acquire"] /\ to = "lookup"
  <2>1. h[t] = 0
    BY <1>5 DEF RunnerMatchesCall, NoCall
  <2> QED
    BY <1>1, <1>5, <2>1, MatchStep DEF NoCall, Handled, Runners
<1> QED
  BY <1>2, <1>3, <1>4, <1>5

\* The stages a runner's call goes through inside GetOrCreate and Release.
LEMMA AcquireCall ==
    ASSUME NEW t \in Callers, Acquire(t)
    PROVE  \E to \in {"out", "lookup", "in"} \cup Booting : call' = [call EXCEPT ![t] = to]
<1>1. CASE Reuse(t) \/ Boot(t) \/ UndoMeta(t) \/ UndoCreate(t)
  BY <1>1 DEF Reuse, Boot, UndoMeta, UndoCreate, BootStage, BootFails, Step, Booting
<1>2. ASSUME NEW ok \in BOOLEAN,
             EnsurePauseImage(t, ok) \/ CreatePause(t, ok) \/ CreateMeta(t, ok)
      PROVE  \E to \in {"out", "lookup", "in"} \cup Booting : call' = [call EXCEPT ![t] = to]
  BY <1>2 DEF EnsurePauseImage, CreatePause, CreateMeta, BootStage, BootFails, Step, Booting
<1>3. ASSUME NEW ok \in BOOLEAN, StartPause(t, ok)
      PROVE  \E to \in {"out", "lookup", "in"} \cup Booting : call' = [call EXCEPT ![t] = to]
  BY <1>3 DEF StartPause, BootStage, Step, Booting
<1> QED
  BY <1>1, <1>2, <1>3, OutcomeBoolean DEF Acquire

\* A step of Release leaves the caller outside, or in the teardown.
LEMMA ReleaseCallStages ==
    ASSUME NEW t \in Callers, ReleaseSandbox(t)
    PROVE  \E to \in {"out", "release"} \cup TearingDown : call' = [call EXCEPT ![t] = to]
BY DEF ReleaseSandbox, ReleaseShared, ReleaseLast, KillPause, DeletePauseTask,
       DeletePauseContainer, DeleteMeta, TeardownStage, Step, TearingDown

\* The steps of a driver call keep the runner and its call in agreement.
LEMMA CallMatches ==
    ASSUME SMTypeOK, LocalTypeOK, RunnerMatchesCall, NEW t \in Callers, CallInProgress(t)
    PROVE  RunnerMatchesCall'
<1>1. CASE CleanupContainer(t)
  <2>1. CASE \/ Move(t, "kill", "deleteTask") /\ UNCHANGED smVars
             \/ Move(t, "deleteTask", "deleteContainer") /\ UNCHANGED smVars
    BY <1>1, <2>1, MatchMove DEF CleanupContainer, smVars, handleVars, NoCall, Runners
  <2>2. CASE Move(t, "deleteContainer", "acquire") /\ GetOrCreateCall(t)
    BY <1>1, <2>2, MatchCall
    DEF CleanupContainer, Move, GetOrCreateCall, Step, handleVars, Stages
  <2> QED
    BY <1>1, <2>1, <2>2 DEF CleanupContainer
<1>2. CASE Acquire(t)
  <2>1. PICK to \in {"out", "lookup", "in"} \cup Booting : call' = [call EXCEPT ![t] = to]
    BY <1>2, AcquireCall
  <2>2. pc[t] = "acquire" /\ UNCHANGED <<pc, h>>
    BY <1>2 DEF Acquire, driverVars
  <2> QED
    BY <2>1, <2>2, MatchCall DEF Stages, Using, Critical
<1>3. CASE StartFails(t)
  BY <1>3, MatchMove DEF StartFails, smVars, handleVars, Runners
<1>4. CASE CreateTask(t)
  <2>1. CASE Move(t, "acquire", "launch") /\ UNCHANGED smVars
    BY <1>4, <2>1, MatchMove DEF CreateTask, smVars, handleVars, Runners
  <2>2. CASE Move(t, "acquire", "release") /\ ReleaseCall(t)
    BY <1>4, <2>2, MatchCall DEF CreateTask, Move, ReleaseCall, Step, handleVars, Stages, Using
  <2> QED
    BY <1>4, <2>1, <2>2 DEF CreateTask
<1>5. CASE Launch(t)
  <2>1. PICK k \in Slots : h' = [h EXCEPT ![t] = k]
    BY <1>5 DEF Launch, NewHandle
  <2>2. k \in 0 .. NumSlots /\ k # 0
    BY BoundsAssumption DEF Slots
  <2>3. pc[t] = "launch" /\ pc' = [pc EXCEPT ![t] = "running"] /\ UNCHANGED call
    BY <1>5 DEF Launch, Move, smVars
  <2>4. call[t] = "in" /\ call' = [call EXCEPT ![t] = "in"]
    BY <2>3 DEF RunnerMatchesCall, SMTypeOK
  <2> QED
    BY <2>1, <2>2, <2>3, <2>4, MatchStep DEF NoCall, Handled, Runners, Stages, Using
<1>6. CASE StopReturns(t) \/ AwaitKill(t)
  BY <1>6, MatchMove DEF StopReturns, AwaitKill, smVars, handleVars, Handled, Runners
<1>7. CASE DestroyContainer(t)
  <2>1. CASE Move(t, "destroyTask", "destroyContainer") /\ UNCHANGED smVars
    BY <1>7, <2>1, MatchMove DEF DestroyContainer, smVars, handleVars, Handled, Runners
  <2>2. CASE Move(t, "destroyContainer", "release") /\ ReleaseCall(t)
    BY <1>7, <2>2, MatchCall
    DEF DestroyContainer, Move, ReleaseCall, Step, handleVars, Stages, Using
  <2> QED
    BY <1>7, <2>1, <2>2 DEF DestroyContainer
<1>8. CASE ReleaseSandbox(t)
  <2>1. PICK to \in {"out", "release"} \cup TearingDown : call' = [call EXCEPT ![t] = to]
    BY <1>8, ReleaseCallStages
  <2>2. pc[t] = "release" /\ UNCHANGED <<pc, h>>
    BY <1>8 DEF ReleaseSandbox, driverVars
  <2> QED
    BY <2>1, <2>2, MatchCall DEF Stages, Using, Critical
<1>9. CASE Return(t)
  <2>1. /\ pc' = [pc EXCEPT ![t] = "idle"] /\ h' = [h EXCEPT ![t] = 0]
        /\ call[t] = "out" /\ UNCHANGED call
    BY <1>9 DEF Return, Move, smVars
  <2>2. call' = [call EXCEPT ![t] = "out"]
    BY <2>1 DEF SMTypeOK
  <2>3. 0 \in 0 .. NumSlots
    BY BoundsAssumption
  <2> QED
    BY <2>1, <2>2, <2>3, MatchStep DEF NoCall, Handled, Runners, Stages
<1>10. CASE Reattach(t)
  <2>1. PICK k \in Slots : h' = [h EXCEPT ![t] = k]
    BY <1>10 DEF Reattach, NewHandle
  <2>2. k \in 0 .. NumSlots /\ k # 0
    BY BoundsAssumption DEF Slots
  <2>3. pc' = [pc EXCEPT ![t] = "running"] /\ call' = [call EXCEPT ![t] = "in"]
    BY <1>10 DEF Reattach, Move, Recover, Step
  <2> QED
    BY <2>1, <2>2, <2>3, MatchStep DEF NoCall, Handled, Runners, Stages, Using
<1> QED
  BY <1>1, <1>2, <1>3, <1>4, <1>5, <1>6, <1>7, <1>8, <1>9, <1>10 DEF CallInProgress

\* The agreement is inductive, crashes included.
LEMMA NextMatches ==
    SMTypeOK /\ LocalTypeOK /\ RunnerMatchesCall /\ [Next]_vars => RunnerMatchesCall'
<1> SUFFICES ASSUME SMTypeOK, LocalTypeOK, RunnerMatchesCall, [Next]_vars
             PROVE  RunnerMatchesCall'
  OBVIOUS
<1>1. ASSUME NEW t \in Callers, StartTask(t)
      PROVE  RunnerMatchesCall'
  <2>1. PICK to \in {"idle", "kill"} : Move(t, "idle", to)
    BY <1>1 DEF StartTask
  <2>2. UNCHANGED <<call, h>>
    BY <1>1 DEF StartTask, smVars, handleVars
  <2> QED
    BY <2>1, <2>2, MatchMove DEF NoCall, Runners
<1>2. ASSUME NEW t \in Callers, StopTask(t)
      PROVE  RunnerMatchesCall'
  BY <1>2, MatchMove DEF StopTask, smVars, handleVars, Handled, Runners
<1>3. ASSUME NEW t \in Callers, DestroyTask(t)
      PROVE  RunnerMatchesCall'
  <2>1. PICK to \in {"destroyTask", "awaitKill"} : Move(t, pc[t], to)
    BY <1>3 DEF DestroyTask
  <2>2. UNCHANGED <<call, h>> /\ pc[t] \in Handled /\ pc[t] \in Runners
    BY <1>3 DEF DestroyTask, smVars, handleVars, Handled, Runners
  <2> QED
    BY <2>1, <2>2, MatchMove DEF Handled, Runners
<1>4. ASSUME NEW t \in Callers, RecoverTask(t)
      PROVE  RunnerMatchesCall'
  <2>1. PICK to \in {"recover", "idle"} : Move(t, "lost", to)
    BY <1>4 DEF RecoverTask
  <2>2. UNCHANGED <<call, h>>
    BY <1>4 DEF RecoverTask, smVars, handleVars
  <2> QED
    BY <2>1, <2>2, MatchMove DEF NoCall, Runners
<1>5. CASE Crash
  BY <1>5 DEF Crash, SMCrash, RunnerMatchesCall, NoCall, Handled
<1>6. CASE UNCHANGED <<pc, call, h>>
  BY <1>6 DEF RunnerMatchesCall
<1>7. ASSUME NEW t \in Callers, NEW k \in Slots, HandleStep(t, k)
      PROVE  UNCHANGED <<pc, call, h>>
  BY <1>7 DEF HandleStep, Run, WaitFails, MonitorRecovered, RecordExit, WriteMarker, MarkCleanup, SetExit, smVars
<1>8. ASSUME NEW t \in Callers, TaskExits(t) PROVE UNCHANGED <<pc, call, h>>
  BY <1>8 DEF TaskExits, smVars
<1>9. ASSUME NEW a \in Allocs, VMExits(a) \/ VMDies(a) PROVE UNCHANGED <<pc, call, h>>
  BY <1>9 DEF VMExits, VMDies, VMDown, smVars
<1>10. CASE Quiescent \/ UNCHANGED vars
  BY <1>10, <1>6 DEF Quiescent, vars
<1> QED
  BY <1>1, <1>2, <1>3, <1>4, <1>5, <1>6, <1>7, <1>8, <1>9, <1>10, CallMatches DEF Next

\* A runner and its call of the manager agree in every reachable state.
THEOREM DriverMatchesCall == Spec => []RunnerMatchesCall
<1>1. Init => RunnerMatchesCall
  BY DEF Init, SMInit, RunnerMatchesCall, NoCall, Handled
<1>2. TypeOK => SMTypeOK /\ LocalTypeOK
  BY DEF TypeOK, LocalTypeOK
<1> QED
  BY <1>1, <1>2, NextMatches, DriverTypes, PTL DEF Spec

\* Every handle is backed by a counted reference, in crashes, after failed
\* starts and whatever times out.
THEOREM DriverHandleIsCounted == Spec => []HandleIsCounted
<1>1. SMInv /\ LocalTypeOK /\ RunnerMatchesCall => HandleIsCounted
  <2> SUFFICES ASSUME SMInv, LocalTypeOK, RunnerMatchesCall,
                      NEW t \in Callers, h[t] # 0, pc[t] # "release"
               PROVE  call[t] = "in" /\ AllocOf[t] \in sandboxes /\ refCount[AllocOf[t]] > 0
    BY DEF HandleIsCounted
  <2>1. call[t] = "in"
    BY DEF RunnerMatchesCall, LocalTypeOK, Runners, NoCall, Handled
  <2>2. AllocOf[t] \in Allocs /\ t \in Holders(AllocOf[t])
    BY <2>1, AllocOfAssumption DEF Holders, Using
  <2>3. AllocOf[t] \in sandboxes
    BY <2>2 DEF SMInv, EntryIffUsed
  <2>4. Cardinality(Holders(AllocOf[t])) \in Nat /\ Cardinality(Holders(AllocOf[t])) # 0
    BY <2>2, HoldersFinite, FS_EmptySet
  <2>5. refCount[AllocOf[t]] > 0
    BY <2>2, <2>4 DEF SMInv, RefCountExact
  <2> QED
    BY <2>1, <2>3, <2>5
<1>2. TypeOK => LocalTypeOK
  BY DEF TypeOK, LocalTypeOK
<1> QED
  BY <1>1, <1>2, DriverMatchesCall, DriverTypes, DriverUsesManager, ManagerInvariant, PTL

-----------------------------------------------------------------------------
(* Who kills a VM.                                                         *)

\* Only the kill of a container makes its task a dying one.
LEMMA OnlyKills ==
    ASSUME CtrTypeOK, NEW id \in Ids, NEW ok \in BOOLEAN, NEW x \in Ids,
           task[x] = "running", task'[x] = "dying",
           \/ KillTask(id) \/ DeleteTask(id) \/ DeleteContainer(id)
           \/ DeleteSandboxMetadata(id) \/ CreateContainer(id, ok)
           \/ StartTaskDetached(id, ok) \/ CreateSandboxMetadata(id, ok)
           \/ UNCHANGED ctrVars
    PROVE  KillTask(id) /\ id = x
<1>1. CASE KillTask(id)
  BY <1>1 DEF KillTask, CtrTypeOK
<1>2. CASE DeleteTask(id)
  BY <1>2 DEF DeleteTask, CtrTypeOK
<1>3. CASE StartTaskDetached(id, ok)
  BY <1>3 DEF StartTaskDetached, CtrTypeOK
<1>4. CASE UNCHANGED task
  BY <1>4
<1> QED
  BY <1>1, <1>2, <1>3, <1>4
  DEF DeleteContainer, DeleteSandboxMetadata, CreateContainer, CreateSandboxMetadata, ctrVars

\* No step begins or continues a cleanup of markSandboxDead without the marker.
LEMMA NextMarks == LocalTypeOK /\ MarkerFirst /\ [Next]_vars => MarkerFirst'
<1> SUFFICES ASSUME LocalTypeOK, MarkerFirst, [Next]_vars PROVE MarkerFirst'
  OBVIOUS
<1> USE DEF Marking
<1>1. ASSUME dead \subseteq dead',
             \A t \in Callers, k \in Slots :
                 run'[t][k] = run[t][k] \/ run'[t][k] \notin Marking \ {"verdict"}
      PROVE  MarkerFirst'
  BY <1>1 DEF MarkerFirst
<1>2. CASE UNCHANGED <<run, dead>>
  BY <1>2, <1>1
<1>3. ASSUME NEW t \in Callers, NEW k \in Slots, HandleStep(t, k)
      PROVE  MarkerFirst'
  <2>1. ASSUME NEW to \in Runs, NEW from, RunMove(t, k, from, to)
        PROVE  /\ run[t][k] = from /\ run'[t][k] = to
               /\ \A u \in Callers, j \in Slots : u # t \/ j # k => run'[u][j] = run[u][j]
    BY <2>1 DEF RunMove, LocalTypeOK
  <2>2. CASE Run(t, k) \/ WaitFails(t, k) \/ MonitorRecovered(t, k) \/ RecordExit(t, k) \/ SetExit(t, k)
    <3>1. PICK from \in {"open", "wait", "reopen", "failed", "exit"},
               to \in {"none", "wait", "failed", "exit", "done", "verdict"} :
                   RunMove(t, k, from, to)
      BY <2>2, MonitorMoves DEF Run, WaitFails, RecordExit, SetExit, Recorded
    <3>2. UNCHANGED dead
      BY <2>2 DEF Run, WaitFails, MonitorRecovered, RecordExit, SetExit
    <3> QED
      BY <3>1, <3>2, <2>1, <1>1 DEF Runs
  <2>3. CASE WriteMarker(t, k)
    <3>1. PICK ok \in BOOLEAN :
             /\ RunMove(t, k, "verdict", IF ok THEN "markKill" ELSE "exit")
             /\ dead' = IF ok THEN dead \cup {AllocOf[t]} ELSE dead
      BY <2>3, OutcomeBoolean DEF WriteMarker
    <3>2. /\ run'[t][k] = IF ok THEN "markKill" ELSE "exit"
          /\ \A u \in Callers, j \in Slots : u # t \/ j # k => run'[u][j] = run[u][j]
      BY <3>1, <2>1 DEF Runs
    <3> QED
      BY <3>1, <3>2 DEF MarkerFirst
  <2>4. CASE MarkCleanup(t, k)
    <3>1. PICK from \in Marking \ {"verdict"}, to \in Marking \cup {"exit"} : RunMove(t, k, from, to)
      BY <2>4 DEF MarkCleanup
    <3>2. /\ run[t][k] = from
          /\ \A u \in Callers, j \in Slots : u # t \/ j # k => run'[u][j] = run[u][j]
      BY <3>1, <2>1 DEF Runs
    <3>3. AllocOf[t] \in dead /\ UNCHANGED dead
      BY <3>1, <3>2, <2>4 DEF MarkerFirst, MarkCleanup
    <3> QED
      BY <3>2, <3>3 DEF MarkerFirst
  <2> QED
    BY <1>3, <2>2, <2>3, <2>4 DEF HandleStep
<1>4. ASSUME NEW t \in Callers, NEW s \in {"open", "reopen"}, NewHandle(t, s), UNCHANGED dead
      PROVE  MarkerFirst'
  <2>1. PICK j \in Slots : run' = [run EXCEPT ![t][j] = s]
    BY <1>4 DEF NewHandle
  <2>2. \A u \in Callers, k \in Slots : run'[u][k] = run[u][k] \/ run'[u][k] = s
    BY <2>1 DEF LocalTypeOK
  <2> QED
    BY <2>2, <1>4, <1>1
<1>5. ASSUME NEW t \in Callers, CallInProgress(t)
      PROVE  MarkerFirst'
  <2>1. CASE Launch(t) \/ Reattach(t)
    BY <2>1, <1>4 DEF Launch, Reattach
  <2>2. CASE Return(t)
    <3>1. run' = [run EXCEPT ![t] = [k \in Slots |->
                     IF k = h[t] /\ run[t][k] = "done" THEN "none" ELSE run[t][k]]]
      BY <2>2 DEF Return
    <3>2. \A u \in Callers, k \in Slots : run'[u][k] = run[u][k] \/ run'[u][k] = "none"
      BY <3>1 DEF LocalTypeOK
    <3> QED
      BY <3>2, <2>2, <1>1 DEF Return
  <2>3. CASE CleanupContainer(t) \/ Acquire(t) \/ StartFails(t) \/ CreateTask(t) \/ StopReturns(t)
             \/ AwaitKill(t) \/ DestroyContainer(t) \/ ReleaseSandbox(t)
    BY <2>3, <1>2
    DEF CleanupContainer, Acquire, StartFails, CreateTask, StopReturns, AwaitKill,
        DestroyContainer, ReleaseSandbox, handleVars, driverVars
  <2> QED
    BY <1>5, <2>1, <2>2, <2>3 DEF CallInProgress
<1>6. ASSUME NEW t \in Callers, StartTask(t) \/ StopTask(t) \/ DestroyTask(t) \/ RecoverTask(t)
      PROVE  MarkerFirst'
  BY <1>6, <1>2 DEF StartTask, StopTask, DestroyTask, RecoverTask, handleVars
<1>7. ASSUME NEW t \in Callers, TaskExits(t)
      PROVE  MarkerFirst'
  <2>1. PICK seen \in {"exit", "failed"} :
            run' = [run EXCEPT ![t] = [k \in Slots |->
                       IF run[t][k] = "wait" THEN seen ELSE run[t][k]]]
    BY <1>7 DEF TaskExits
  <2>2. \A u \in Callers, k \in Slots : run'[u][k] = run[u][k] \/ run'[u][k] = seen
    BY <2>1 DEF LocalTypeOK
  <2> QED
    BY <2>2, <1>7, <1>1 DEF TaskExits
<1>8. ASSUME NEW a \in Allocs, VMExits(a) \/ VMDies(a)
      PROVE  MarkerFirst'
  <2>1. \A u \in Callers, k \in Slots : run'[u][k] = run[u][k] \/ run'[u][k] = "failed"
    BY <1>8 DEF VMExits, VMDies, VMDown
  <2> QED
    BY <2>1, <1>8, <1>1 DEF VMExits, VMDies, VMDown
<1>9. CASE Crash
  <2>1. \A u \in Callers, k \in Slots : run'[u][k] = "none"
    BY <1>9 DEF Crash
  <2> QED
    BY <2>1 DEF MarkerFirst
<1>10. CASE Quiescent \/ UNCHANGED vars
  BY <1>10, <1>2 DEF Quiescent, vars
<1> QED
  BY <1>3, <1>5, <1>6, <1>7, <1>8, <1>9, <1>10 DEF Next

\* The marker is written before the sandbox is touched, so a crash in between
\* never leaves a dismantled sandbox that a restart would boot again.
THEOREM DriverMarkerFirst == Spec => []MarkerFirst
<1>1. Init => MarkerFirst
  BY DEF Init, MarkerFirst, Marking
<1>2. TypeOK => LocalTypeOK
  BY DEF TypeOK, LocalTypeOK
<1> QED
  BY <1>1, <1>2, NextMarks, DriverTypes, PTL DEF Spec

\* One step of the driver: a running VM that becomes a dying one belongs to a
\* condemned allocation or to one without holders.
LEMMA KillStep ==
    ASSUME DistinctIds, SMInv, CtrTypeOK, LocalTypeOK, MarkerFirst, [Next]_vars,
           NEW a \in Allocs,
           task[SandboxID[a]] = "running", task'[SandboxID[a]] = "dying"
    PROVE  a \in dead \/ Holders(a) = {}
<1> DEFINE x == SandboxID[a]
<1>x. x \in Ids
  BY IdsAssumption
<1> USE IdTypes
<1>1. ASSUME NEW t \in Callers, KillTask(cid(t)) PROVE FALSE
  <2>1. cid(t) = x
    BY <1>1, <1>x, OnlyKills, TRUE \in BOOLEAN
  <2> QED
    BY <2>1 DEF DistinctIds, cid
<1>2. ASSUME NEW t \in Callers, CallInProgress(t)
      PROVE  Holders(a) = {}
  <2>1. CASE CleanupContainer(t)
    BY <2>1, <1>1, <1>x, OnlyKills, TRUE \in BOOLEAN DEF CleanupContainer
  <2>2. CASE Acquire(t)
    BY <2>2, <1>x, OnlyKills, OutcomeBoolean, TRUE \in BOOLEAN
    DEF Acquire, KillTask, StartTaskDetached, CreateContainer, CreateSandboxMetadata,
        DeleteContainer, DeleteSandboxMetadata, ctrVars, CtrTypeOK
  <2>3. CASE CreateTask(t)
    BY <2>3 DEF CreateTask, CreateContainer, ctrVars
  <2>4. CASE StartFails(t) \/ Launch(t) \/ AwaitKill(t) \/ Return(t) \/ Reattach(t)
    BY <2>4 DEF StartFails, Launch, AwaitKill, Return, Reattach, ctrVars
  <2>5. CASE StopReturns(t)
    BY <2>5, <1>1 DEF StopReturns, ctrVars
  <2>6. CASE DestroyContainer(t)
    BY <2>6, <1>1, <1>x, OnlyKills, TRUE \in BOOLEAN DEF DestroyContainer
  <2>7. CASE ReleaseSandbox(t)
    <3>1. KillPause(t) /\ sid(t) = x
      <4>1. \/ KillPause(t) /\ KillTask(sid(t))
            \/ DeleteTask(sid(t)) \/ DeleteContainer(sid(t))
            \/ DeleteSandboxMetadata(sid(t)) \/ UNCHANGED ctrVars
        BY <2>7 DEF ReleaseSandbox
      <4>2. KillTask(sid(t)) /\ sid(t) = x
        BY <4>1, <1>x, OnlyKills, TRUE \in BOOLEAN
      <4> QED
        BY <4>1, <4>2, <1>x
        DEF DeleteTask, DeleteContainer, DeleteSandboxMetadata, ctrVars, CtrTypeOK
    <3>2. call[t] = "kill" /\ AllocOf[t] = a
      BY <3>1 DEF KillPause, TeardownStage, Step, DistinctIds, sid
    <3> QED
      BY <3>2 DEF SMInv, CriticalIsAlone, Critical, TearingDown
  <2> QED
    BY <1>2, <2>1, <2>2, <2>3, <2>4, <2>5, <2>6, <2>7 DEF CallInProgress
<1>3. ASSUME NEW t \in Callers, NEW k \in Slots, HandleStep(t, k)
      PROVE  a \in dead
  <2>1. CASE Run(t, k)
    <3>1. PICK ok \in BOOLEAN : StartTaskDetached(cid(t), ok) \/ UNCHANGED ctrVars
      BY <2>1, OutcomeBoolean DEF Run
    <3> QED
      BY <3>1, <1>x DEF StartTaskDetached, ctrVars, CtrTypeOK
  <2>2. CASE WaitFails(t, k) \/ MonitorRecovered(t, k) \/ RecordExit(t, k) \/ WriteMarker(t, k) \/ SetExit(t, k)
    BY <2>2 DEF WaitFails, MonitorRecovered, RecordExit, WriteMarker, SetExit, ctrVars
  <2>3. CASE MarkCleanup(t, k)
    <3>1. AllocOf[t] \in dead
      BY <2>3 DEF MarkCleanup, RunMove, MarkerFirst, Marking
    <3>2. \/ KillTask(sid(t)) \/ DeleteTask(sid(t)) \/ DeleteContainer(sid(t))
          \/ DeleteSandboxMetadata(sid(t))
      BY <2>3 DEF MarkCleanup
    <3>3. sid(t) = x
      BY <3>2, <1>x, OnlyKills, TRUE \in BOOLEAN
    <3> QED
      BY <3>1, <3>3 DEF DistinctIds, sid
  <2> QED
    BY <1>3, <2>1, <2>2, <2>3 DEF HandleStep
<1>4. ASSUME NEW t \in Callers,
             StartTask(t) \/ StopTask(t) \/ DestroyTask(t) \/ RecoverTask(t) \/ TaskExits(t)
      PROVE  FALSE
  <2>1. CASE StopTask(t) \/ DestroyTask(t)
    BY <2>1, <1>1 DEF StopTask, DestroyTask, ctrVars
  <2>2. CASE TaskExits(t)
    BY <2>2, <1>x DEF TaskExits, CtrTypeOK
  <2> QED
    BY <1>4, <2>1, <2>2 DEF StartTask, RecoverTask, ctrVars
<1>5. ASSUME NEW b \in Allocs, VMExits(b) \/ VMDies(b) PROVE FALSE
  BY <1>5, <1>x DEF VMExits, VMDies, VMDown, CtrTypeOK
<1>6. CASE Crash \/ Quiescent \/ UNCHANGED vars
  BY <1>6 DEF Crash, Quiescent, vars, ctrVars
<1> QED
  BY <1>2, <1>3, <1>4, <1>5, <1>6 DEF Next

\* As long as no task is named like its sandbox the driver never kills a
\* healthy VM that somebody holds, whatever fails, times out or crashes.
THEOREM DriverKillsOnlyReleasedVM ==
    ASSUME DistinctIds PROVE Spec => KillsOnlyReleasedVM
<1> DEFINE Inv == SMInv /\ CtrTypeOK /\ LocalTypeOK /\ MarkerFirst
<1>1. Inv /\ [Next]_vars =>
          [\A a \in Allocs :
             task[SandboxID[a]] = "running" /\ task'[SandboxID[a]] = "dying"
             => a \in dead \/ Holders(a) = {}]_vars
  BY KillStep
<1>2. TypeOK => CtrTypeOK /\ LocalTypeOK
  BY DEF TypeOK, LocalTypeOK
<1>3. Spec => []Inv
  BY <1>2, DriverTypes, DriverMarkerFirst, DriverUsesManager, ManagerInvariant, PTL
<1> QED
  BY <1>1, <1>3, PTL DEF Spec, KillsOnlyReleasedVM
=============================================================================
