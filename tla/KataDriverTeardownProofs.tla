---------------------- MODULE KataDriverTeardownProofs ----------------------
(***************************************************************************)
(* What is left of tasks and sandboxes: a boot finds nothing of an earlier *)
(* sandbox, and nothing remains once all tasks of the allocation are gone, *)
(* a task that is gone has no container, all but for the deletes that      *)
(* containerd refused or failed; an allocation that is condemned and down  *)
(* stays so.  Kills are asynchronous here and every call may fail.         *)
(***************************************************************************)
EXTENDS KataDriverExitProofs

\* The deletes of sandboxes, and of tasks, that were refused are remembered.
SandboxesWatched == \A a \in Allocs : SandboxID[a] \in Watched
TasksWatched     == \A t \in Callers : ContainerID[t] \in Watched

\* Between the creation of the sandbox's container and the start of its task.
Created == {"meta", "start", "undoMeta", "undoCreate"}

\* Who answers for the container, and for the record, of a sandbox.
OwnsContainer == Using \cup Created \cup {"kill", "deleteTask", "deleteContainer"}
OwnsMeta      == Using \cup {"start", "undoMeta"} \cup TearingDown

ContainerOwned ==
    \A a \in Allocs : SandboxID[a] \in containers \ refused
        => \E t \in Callers : AllocOf[t] = a /\ call[t] \in OwnsContainer

MetaOwned ==
    \A a \in Allocs : SandboxID[a] \in meta \ refusedMeta
        => \E t \in Callers : AllocOf[t] = a /\ call[t] \in OwnsMeta

TaskHasContainer ==
    \A a \in Allocs : task[SandboxID[a]] # "none" => SandboxID[a] \in containers

\* What the caller inside a boot or a teardown may rely on at its next step.
StageFits ==
    \A t \in Callers :
        /\ call[t] \in Created => task[sid(t)] = "none"
        /\ call[t] = "deleteContainer" => task[sid(t)] = "none" \/ sid(t) \in refused

TeardownInv == ContainerOwned /\ MetaOwned /\ TaskHasContainer /\ StageFits

-----------------------------------------------------------------------------
(* What a step does to the objects under a sandbox's ID.                   *)

\* A step is one operation of containerd, or the end of a task or a VM.
Operation(id, ok) ==
    \/ KillTask(id) \/ DeleteTask(id) \/ DeleteContainer(id) \/ DeleteSandboxMetadata(id)
    \/ CreateContainer(id, ok) \/ StartTaskDetached(id, ok) \/ CreateSandboxMetadata(id, ok)

LEMMA OneOperation ==
    ASSUME [Next]_vars
    PROVE  \/ \E id \in Ids, ok \in BOOLEAN : Operation(id, ok)
           \/ UNCHANGED <<containers, meta, refusals>>
<1> USE IdTypes DEF Operation, refusals
<1>1. ASSUME NEW u \in Callers, CallInProgress(u)
      PROVE  (\E id \in Ids, ok \in BOOLEAN : Operation(id, ok)) \/ UNCHANGED <<containers, meta, refusals>>
  <2>1. CASE CleanupContainer(u) \/ DestroyContainer(u) \/ ReleaseSandbox(u) \/ StopReturns(u)
    BY <2>1, TRUE \in BOOLEAN
    DEF CleanupContainer, DestroyContainer, ReleaseSandbox, StopReturns, ctrVars
  <2>2. CASE Acquire(u) \/ CreateTask(u)
    BY <2>2, OutcomeBoolean, TRUE \in BOOLEAN DEF Acquire, CreateTask, ctrVars
  <2>3. CASE StartFails(u) \/ Launch(u) \/ AwaitKill(u) \/ Return(u) \/ Reattach(u)
    BY <2>3 DEF StartFails, Launch, AwaitKill, Return, Reattach, ctrVars
  <2> QED
    BY <1>1, <2>1, <2>2, <2>3 DEF CallInProgress
<1>2. ASSUME NEW u \in Callers, NEW k \in Slots, HandleStep(u, k)
      PROVE  (\E id \in Ids, ok \in BOOLEAN : Operation(id, ok)) \/ UNCHANGED <<containers, meta, refusals>>
  <2>1. CASE Run(u, k)
    <3>1. UNCHANGED ctrVars \/ \E ok \in BOOLEAN : StartTaskDetached(cid(u), ok)
      BY <2>1, OutcomeBoolean DEF Run
    <3> QED
      BY <3>1 DEF ctrVars
  <2>2. CASE MarkCleanup(u, k)
    BY <2>2, TRUE \in BOOLEAN DEF MarkCleanup
  <2>3. CASE \/ WaitFails(u, k) \/ MonitorRecovered(u, k) \/ RecordExit(u, k) \/ WriteMarker(u, k)
             \/ SetExit(u, k)
    BY <2>3 DEF WaitFails, MonitorRecovered, RecordExit, WriteMarker, SetExit, ctrVars
  <2> QED
    BY <1>2, <2>1, <2>2, <2>3 DEF HandleStep
<1>3. ASSUME NEW u \in Callers, StartTask(u) \/ StopTask(u) \/ DestroyTask(u) \/ RecoverTask(u)
      PROVE  (\E id \in Ids, ok \in BOOLEAN : Operation(id, ok)) \/ UNCHANGED <<containers, meta, refusals>>
  BY <1>3, TRUE \in BOOLEAN DEF StartTask, StopTask, DestroyTask, RecoverTask, ctrVars
<1>4. ASSUME NEW u \in Callers, TaskExits(u) PROVE UNCHANGED <<containers, meta, refusals>>
  BY <1>4 DEF TaskExits
<1>5. ASSUME NEW b \in Allocs, VMExits(b) \/ VMDies(b) PROVE UNCHANGED <<containers, meta, refusals>>
  BY <1>5 DEF VMExits, VMDies, VMDown
<1>6. CASE Crash \/ Quiescent \/ UNCHANGED vars
  BY <1>6 DEF Crash, Quiescent, vars, ctrVars
<1> QED
  BY <1>1, <1>2, <1>3, <1>4, <1>5, <1>6 DEF Next

\* What a delete was refused for stays marked until it is gone.
LEMMA RefusalStays ==
    ASSUME [Next]_vars, NEW x
    PROVE  /\ x \in containers' /\ x \in refused => x \in refused'
           /\ x \in meta' /\ x \in refusedMeta => x \in refusedMeta'
<1> USE DEF refusals
<1>1. ASSUME NEW id \in Ids, NEW ok \in BOOLEAN, Operation(id, ok)
      PROVE  /\ x \in containers' /\ x \in refused => x \in refused'
             /\ x \in meta' /\ x \in refusedMeta => x \in refusedMeta'
  <2>1. CASE KillTask(id) \/ DeleteTask(id)
    BY <2>1 DEF KillTask, DeleteTask
  <2>2. CASE DeleteContainer(id) \/ DeleteSandboxMetadata(id)
    BY <2>2 DEF DeleteContainer, DeleteSandboxMetadata
  <2>3. CASE CreateContainer(id, ok) \/ StartTaskDetached(id, ok) \/ CreateSandboxMetadata(id, ok)
    BY <2>3 DEF CreateContainer, StartTaskDetached, CreateSandboxMetadata
  <2> QED
    BY <1>1, <2>1, <2>2, <2>3 DEF Operation
<1> QED
  BY <1>1, OneOperation

\* Nothing is added, and a container goes only without a task.
Shrinks(x) ==
    /\ x \in containers' => x \in containers
    /\ x \in meta' => x \in meta
    /\ task'[x] = "running" => task[x] = "running"
    /\ task'[x] # "none" => task[x] # "none"
    /\ x \in containers /\ x \notin containers' => task'[x] = "none"

\* The three steps of a boot that add something.
Adds(x, u) ==
    \/ /\ call[u] = "create" /\ call'[u] = "meta"
       /\ x \notin containers /\ UNCHANGED <<task, meta>>
    \/ /\ call[u] = "meta" /\ call'[u] = "start"
       /\ UNCHANGED <<containers, task>>
    \/ /\ call[u] = "start" /\ call'[u] = "in"
       /\ x \in containers /\ UNCHANGED <<containers, meta>>

\* Most operations of containerd add nothing under the ID, the others nothing
\* under another ID or when they fail.
LEMMA OpShrinks ==
    ASSUME CtrTypeOK, NEW x \in Ids, NEW id \in Ids, NEW ok \in BOOLEAN,
           \/ KillTask(id) \/ DeleteTask(id) \/ DeleteContainer(id)
           \/ DeleteSandboxMetadata(id) \/ UNCHANGED ctrVars
           \/ /\ id # x \/ ~ok
              /\ \/ CreateContainer(id, ok) \/ StartTaskDetached(id, ok)
                 \/ CreateSandboxMetadata(id, ok)
    PROVE  Shrinks(x)
<1> USE DEF CtrTypeOK, Shrinks, refusals
<1>1. CASE KillTask(id) \/ DeleteTask(id)
  BY <1>1 DEF KillTask, DeleteTask
<1>2. CASE DeleteContainer(id)
  BY <1>2 DEF DeleteContainer
<1>3. CASE DeleteSandboxMetadata(id) \/ UNCHANGED ctrVars
  BY <1>3 DEF DeleteSandboxMetadata, ctrVars
<1>4. CASE (id # x \/ ~ok) /\ CreateContainer(id, ok)
  BY <1>4 DEF CreateContainer
<1>5. CASE (id # x \/ ~ok) /\ StartTaskDetached(id, ok)
  BY <1>5 DEF StartTaskDetached
<1>6. CASE (id # x \/ ~ok) /\ CreateSandboxMetadata(id, ok)
  BY <1>6 DEF CreateSandboxMetadata
<1> QED
  BY <1>1, <1>2, <1>3, <1>4, <1>5, <1>6

\* Only a boot of the allocation adds anything.
LEMMA SandboxStep ==
    ASSUME DistinctIds, SMTypeOK, CtrTypeOK, [Next]_vars, NEW a \in Allocs
    PROVE  \/ Shrinks(SandboxID[a])
           \/ \E u \in Callers : AllocOf[u] = a /\ Adds(SandboxID[a], u)
<1> DEFINE x == SandboxID[a]
           Goal == Shrinks(x) \/ \E u \in Callers : AllocOf[u] = a /\ Adds(x, u)
<1>x. x \in Ids /\ \A u \in Callers : cid(u) # x
  BY IdsAssumption DEF DistinctIds, cid
<1>s. \A u \in Callers : sid(u) = x => AllocOf[u] = a
  BY IdTypes DEF DistinctIds, sid
<1> USE IdTypes
<1>1. ASSUME NEW u \in Callers, Acquire(u) PROVE Goal
  <2>1. CASE UNCHANGED ctrVars \/ DeleteSandboxMetadata(sid(u)) \/ DeleteContainer(sid(u))
    BY <2>1, <1>x, OpShrinks, TRUE \in BOOLEAN
  <2>2. ASSUME NEW ok \in CreateResults(sid(u)), CreatePause(u, ok), CreateContainer(sid(u), ok)
        PROVE  Goal
    <3>1. CASE sid(u) = x /\ ok
      BY <2>2, <3>1, <1>s
      DEF CreateResults, CreatePause, CreateContainer, BootStage, Step, Adds, SMTypeOK
    <3>2. CASE sid(u) # x \/ ~ok
      BY <2>2, <3>2, <1>x, OpShrinks, OutcomeBoolean
    <3> QED
      BY <3>1, <3>2
  <2>3. ASSUME NEW ok \in Outcome("CreateSandboxMetadata"), CreateMeta(u, ok),
               CreateSandboxMetadata(sid(u), ok)
        PROVE  Goal
    <3>1. CASE sid(u) = x /\ ok
      BY <2>3, <3>1, <1>s DEF CreateMeta, CreateSandboxMetadata, BootStage, Step, Adds, SMTypeOK
    <3>2. CASE sid(u) # x \/ ~ok
      BY <2>3, <3>2, <1>x, OpShrinks, OutcomeBoolean
    <3> QED
      BY <3>1, <3>2
  <2>4. ASSUME NEW ok \in StartResults(sid(u)), StartPause(u, ok), StartTaskDetached(sid(u), ok)
        PROVE  Goal
    <3>1. CASE sid(u) = x /\ ok
      BY <2>4, <3>1, <1>s DEF StartResults, StartPause, StartTaskDetached, Step, Adds, SMTypeOK
    <3>2. CASE sid(u) # x \/ ~ok
      BY <2>4, <3>2, <1>x, OpShrinks, OutcomeBoolean
    <3> QED
      BY <3>1, <3>2
  <2> QED
    BY <1>1, <2>1, <2>2, <2>3, <2>4 DEF Acquire
<1>2. ASSUME NEW u \in Callers, CallInProgress(u) PROVE Goal
  <2>1. CASE CleanupContainer(u) \/ DestroyContainer(u) \/ ReleaseSandbox(u) \/ StopReturns(u)
    <3>1. \E id \in Ids : \/ KillTask(id) \/ DeleteTask(id) \/ DeleteContainer(id)
                          \/ DeleteSandboxMetadata(id) \/ UNCHANGED ctrVars
      BY <2>1 DEF CleanupContainer, DestroyContainer, ReleaseSandbox, StopReturns
    <3> QED
      BY <3>1, <1>x, OpShrinks, TRUE \in BOOLEAN
  <2>2. CASE CreateTask(u)
    <3>1. UNCHANGED ctrVars \/ \E ok \in BOOLEAN : CreateContainer(cid(u), ok)
      BY <2>2, OutcomeBoolean DEF CreateTask
    <3> QED
      BY <3>1, <1>x, OpShrinks, TRUE \in BOOLEAN
  <2>3. CASE StartFails(u) \/ Launch(u) \/ AwaitKill(u) \/ Return(u) \/ Reattach(u)
    BY <2>3, <1>x, OpShrinks, TRUE \in BOOLEAN DEF StartFails, Launch, AwaitKill, Return, Reattach
  <2> QED
    BY <1>2, <1>1, <2>1, <2>2, <2>3 DEF CallInProgress
<1>3. ASSUME NEW u \in Callers, NEW k \in Slots, HandleStep(u, k) PROVE Goal
  <2>1. CASE Run(u, k)
    <3>1. UNCHANGED ctrVars \/ \E ok \in BOOLEAN : StartTaskDetached(cid(u), ok)
      BY <2>1, OutcomeBoolean DEF Run
    <3> QED
      BY <3>1, <1>x, OpShrinks, TRUE \in BOOLEAN
  <2>2. CASE MarkCleanup(u, k)
    BY <2>2, <1>x, OpShrinks, TRUE \in BOOLEAN DEF MarkCleanup
  <2>3. CASE \/ WaitFails(u, k) \/ MonitorRecovered(u, k) \/ RecordExit(u, k) \/ WriteMarker(u, k)
             \/ SetExit(u, k)
    BY <2>3, <1>x, OpShrinks, TRUE \in BOOLEAN
    DEF WaitFails, MonitorRecovered, RecordExit, WriteMarker, SetExit
  <2> QED
    BY <1>3, <2>1, <2>2, <2>3 DEF HandleStep
<1>4. ASSUME NEW u \in Callers,
             StartTask(u) \/ StopTask(u) \/ DestroyTask(u) \/ RecoverTask(u)
      PROVE  Goal
  <2>1. KillTask(cid(u)) \/ UNCHANGED ctrVars
    BY <1>4 DEF StartTask, StopTask, DestroyTask, RecoverTask
  <2> QED
    BY <2>1, <1>x, OpShrinks, TRUE \in BOOLEAN
<1>5. ASSUME NEW u \in Callers, TaskExits(u) PROVE Goal
  BY <1>5, <1>x DEF TaskExits, Shrinks, CtrTypeOK
<1>6. ASSUME NEW b \in Allocs, VMExits(b) \/ VMDies(b) PROVE Goal
  BY <1>6, <1>x DEF VMExits, VMDies, VMDown, Shrinks, CtrTypeOK
<1>7. CASE Crash \/ Quiescent \/ UNCHANGED vars
  BY <1>7 DEF Crash, Quiescent, vars, ctrVars, Shrinks
<1> QED
  BY <1>2, <1>3, <1>4, <1>5, <1>6, <1>7 DEF Next

-----------------------------------------------------------------------------
(* What moves a call of the manager.                                       *)

\* As long as the plugin lives, a call moves by a step of its own.
LEMMA CallMoves ==
    ASSUME MaxCrashes = 0, SMTypeOK, LocalTypeOK, [Next]_vars,
           NEW t \in Callers, call'[t] # call[t]
    PROVE  \/ Acquire(t) \/ ReleaseSandbox(t)
           \/ GetOrCreateCall(t) \/ ReleaseCall(t) \/ Recover(t)
<1>1. ASSUME NEW u \in Callers, CallInProgress(u)
      PROVE  \/ Acquire(t) \/ ReleaseSandbox(t)
             \/ GetOrCreateCall(t) \/ ReleaseCall(t) \/ Recover(t)
  <2>1. CASE Acquire(u) \/ ReleaseSandbox(u)
    <3>1. u = t
      <4>1. CallerStep(u)
        BY <2>1, AcquireManager, ReleaseManager
      <4>2. \E to : call' = [call EXCEPT ![u] = to]
        <5>1. CASE GetOrCreateCall(u) \/ ReleaseCall(u) \/ Recover(u) \/ TakeLock(u) \/ TeardownStep(u)
          BY <5>1
          DEF GetOrCreateCall, ReleaseCall, Recover, TakeLock, Reuse, Boot, ReleaseShared,
              ReleaseLast, TeardownStep, KillPause, DeletePauseTask, DeletePauseContainer,
              DeleteMeta, TeardownStage, Step
        <5>2. CASE PullStep(u)
          BY <5>2 DEF PullStep, EnsurePauseImage, BootStage, BootFails, Step
        <5>3. CASE BootStep(u)
          <6>1. ASSUME NEW ok \in BOOLEAN, CreatePause(u, ok) \/ CreateMeta(u, ok) \/ StartPause(u, ok)
                PROVE  \E to : call' = [call EXCEPT ![u] = to]
            BY <6>1 DEF CreatePause, CreateMeta, StartPause, BootStage, BootFails, Step
          <6> QED
            BY <5>3, <6>1 DEF BootStep, UndoMeta, UndoCreate, BootStage, BootFails, Step
        <5> QED
          BY <4>1, <5>1, <5>2, <5>3 DEF CallerStep
      <4> QED
        BY <4>2 DEF SMTypeOK
    <3> QED
      BY <2>1, <3>1
  <2>2. CASE CleanupContainer(u) \/ CreateTask(u) \/ DestroyContainer(u) \/ Reattach(u)
    BY <2>2
    DEF CleanupContainer, CreateTask, DestroyContainer, Reattach, GetOrCreateCall, ReleaseCall,
        Recover, Step, smVars, SMTypeOK
  <2>3. CASE StartFails(u) \/ Launch(u) \/ StopReturns(u) \/ AwaitKill(u) \/ Return(u)
    BY <2>3 DEF StartFails, Launch, StopReturns, AwaitKill, Return, smVars
  <2> QED
    BY <1>1, <2>1, <2>2, <2>3 DEF CallInProgress
<1>2. ASSUME NEW u \in Callers, NEW k \in Slots, HandleStep(u, k) PROVE FALSE
  BY <1>2, HandleManager DEF smVars
<1>3. ASSUME NEW u \in Callers,
             StartTask(u) \/ StopTask(u) \/ DestroyTask(u) \/ RecoverTask(u) \/ TaskExits(u)
      PROVE  FALSE
  BY <1>3 DEF StartTask, StopTask, DestroyTask, RecoverTask, TaskExits, smVars
<1>4. ASSUME NEW a \in Allocs, VMExits(a) \/ VMDies(a) PROVE FALSE
  BY <1>4 DEF VMExits, VMDies, VMDown, smVars
<1>5. CASE Crash
  BY <1>5 DEF Crash, LocalTypeOK
<1>6. CASE Quiescent \/ UNCHANGED vars
  BY <1>6 DEF Quiescent, vars
<1> QED
  BY <1>1, <1>2, <1>3, <1>4, <1>5, <1>6 DEF Next

-----------------------------------------------------------------------------
(* What a call of the manager leaves behind.                               *)

Shared(t) == \E u \in Callers : AllocOf[u] = AllocOf[t] /\ call'[u] \in Using

\* An owner goes when the object is gone, its delete was refused or another user
\* is left, and a stage that relies on the task is entered when the task is as
\* it must be.
LEMMA OwnStep ==
    ASSUME SandboxesWatched, MaxCrashes = 0, SMInv, SMInv', LocalTypeOK, CtrTypeOK,
           TaskHasContainer, StageFits, [Next]_vars,
           NEW t \in Callers, call'[t] # call[t]
    PROVE  /\ call[t] \in OwnsContainer /\ call'[t] \notin OwnsContainer
                 => sid(t) \notin containers' \ refused' \/ Shared(t)
           /\ call[t] \in OwnsMeta /\ call'[t] \notin OwnsMeta
                 => sid(t) \notin meta' \ refusedMeta' \/ Shared(t)
           /\ call'[t] \in Created => call[t] \in Created \/ task'[sid(t)] = "none"
           /\ call'[t] = "deleteContainer" => task'[sid(t)] = "none" \/ sid(t) \in refused'
<1> DEFINE x == sid(t)
           Goal ==
             /\ call[t] \in OwnsContainer /\ call'[t] \notin OwnsContainer
                   => x \notin containers' \ refused' \/ Shared(t)
             /\ call[t] \in OwnsMeta /\ call'[t] \notin OwnsMeta
                   => x \notin meta' \ refusedMeta' \/ Shared(t)
             /\ call'[t] \in Created => call[t] \in Created \/ task'[x] = "none"
             /\ call'[t] = "deleteContainer" => task'[x] = "none" \/ x \in refused'
<1>t. SMTypeOK /\ x \in Ids /\ AllocOf[t] \in Allocs
  BY IdTypes DEF SMInv
<1>s. ASSUME NEW from, NEW to, Step(t, from, to)
      PROVE  call[t] = from /\ call'[t] = to
  BY <1>s, <1>t DEF Step, SMTypeOK
<1>w. x \in Watched
  BY <1>t DEF SandboxesWatched, sid
<1>1. CASE GetOrCreateCall(t) \/ ReleaseCall(t) \/ Recover(t)
  <2>1. PICK from \in {"out", "in"}, to \in {"lookup", "release", "in"} :
           Step(t, from, to) /\ (from = "in" => to = "release")
    BY <1>1 DEF GetOrCreateCall, ReleaseCall, Recover
  <2> QED
    BY <2>1, <1>s DEF OwnsContainer, OwnsMeta, Created, Using, TearingDown
<1>2. CASE Acquire(t)
  <2>1. CASE Reuse(t) \/ Boot(t)
    <3>1. PICK to \in {"in", "pull"} : Step(t, "lookup", to)
      BY <2>1 DEF Reuse, Boot
    <3> QED
      BY <3>1, <1>s DEF OwnsContainer, OwnsMeta, Created, Using, TearingDown
  <2>2. ASSUME NEW ok \in BOOLEAN, EnsurePauseImage(t, ok) PROVE Goal
    <3>1. PICK to \in {"create", "out"} : Step(t, "pull", to)
      BY <2>2 DEF EnsurePauseImage, BootStage, BootFails
    <3> QED
      BY <3>1, <1>s DEF OwnsContainer, OwnsMeta, Created, Using, TearingDown
  <2>3. ASSUME NEW ok \in CreateResults(x), CreatePause(t, ok), CreateContainer(x, ok)
        PROVE  Goal
    <3>1. CASE ok
      <4>1. call[t] = "create" /\ call'[t] = "meta"
        BY <2>3, <3>1, <1>s DEF CreatePause, BootStage
      <4>2. task[x] = "none" /\ task' = task
        BY <2>3, <3>1, <1>t DEF CreateResults, CreateContainer, TaskHasContainer, sid
      <4> QED
        BY <4>1, <4>2 DEF OwnsContainer, OwnsMeta, Created, Using, TearingDown
    <3>2. CASE ~ok
      <4>1. call[t] = "create" /\ call'[t] = "out"
        BY <2>3, <3>2, <1>s DEF CreatePause, BootFails
      <4> QED
        BY <4>1 DEF OwnsContainer, OwnsMeta, Created, Using, TearingDown
    <3> QED
      BY <3>1, <3>2
  <2>4. ASSUME NEW ok \in BOOLEAN, CreateMeta(t, ok) PROVE Goal
    <3>1. PICK to \in {"start", "undoCreate"} : Step(t, "meta", to)
      BY <2>4 DEF CreateMeta, BootStage
    <3> QED
      BY <3>1, <1>s DEF OwnsContainer, OwnsMeta, Created, Using, TearingDown
  <2>5. ASSUME NEW ok \in BOOLEAN, StartPause(t, ok) PROVE Goal
    <3>1. PICK to \in {"in", "undoMeta"} : Step(t, "start", to)
      BY <2>5 DEF StartPause, BootStage
    <3> QED
      BY <3>1, <1>s DEF OwnsContainer, OwnsMeta, Created, Using, TearingDown
  <2>6. CASE UndoMeta(t) /\ DeleteSandboxMetadata(x)
    <3>1. call[t] = "undoMeta" /\ call'[t] = "undoCreate"
      BY <2>6, <1>s DEF UndoMeta, BootStage
    <3>2. x \notin meta' \ refusedMeta'
      BY <2>6, <1>w DEF DeleteSandboxMetadata
    <3> QED
      BY <3>1, <3>2 DEF OwnsContainer, OwnsMeta, Created, Using, TearingDown
  <2>7. CASE UndoCreate(t) /\ DeleteContainer(x)
    <3>1. call[t] = "undoCreate" /\ call'[t] = "out"
      BY <2>7, <1>s DEF UndoCreate, BootFails
    <3>2. task[x] = "none"
      BY <3>1 DEF StageFits, Created
    <3>3. x \notin containers' \ refused'
      BY <2>7, <3>2, <1>w DEF DeleteContainer
    <3> QED
      BY <3>1, <3>3 DEF OwnsContainer, OwnsMeta, Created, Using, TearingDown
  <2> HIDE DEF Goal
  <2> QED
    BY <1>2, <2>1, <2>2, <2>3, <2>4, <2>5, <2>6, <2>7, OutcomeBoolean DEF Acquire, Goal
<1>3. CASE ReleaseSandbox(t)
  <2>1. CASE ReleaseShared(t)
    <3>1. call[t] = "release" /\ call'[t] = "out"
      BY <2>1, <1>s DEF ReleaseShared
    <3>2. AllocOf[t] \in sandboxes
      BY <3>1, <1>t DEF SMInv, EntryIffUsed, Holders, Using
    <3>3. refCount'[AllocOf[t]] > 0
      BY <2>1, <3>2, <1>t DEF ReleaseShared, CountOf, SMTypeOK
    <3>4. Cardinality(Holders(AllocOf[t]))' > 0
      BY <3>3, <1>t DEF SMInv, RefCountExact
    <3>5. Holders(AllocOf[t])' # {}
      BY <3>4, FS_EmptySet
    <3>6. Shared(t)
      BY <3>5 DEF Holders, Shared
    <3> QED
      BY <3>1, <3>6 DEF Created
  <2>2. CASE ReleaseLast(t)
    <3>1. call[t] = "release" /\ call'[t] = "kill"
      BY <2>2, <1>s DEF ReleaseLast
    <3> QED
      BY <3>1 DEF OwnsContainer, OwnsMeta, Created, Using, TearingDown
  <2>3. CASE KillPause(t) /\ KillTask(x)
    <3>1. call[t] = "kill" /\ call'[t] = "deleteTask"
      BY <2>3, <1>s DEF KillPause, TeardownStage
    <3> QED
      BY <3>1 DEF OwnsContainer, OwnsMeta, Created, Using, TearingDown
  <2>4. CASE DeletePauseTask(t) /\ DeleteTask(x)
    <3>1. call[t] = "deleteTask" /\ call'[t] = "deleteContainer"
      BY <2>4, <1>s DEF DeletePauseTask, TeardownStage
    <3>2. task'[x] = "none" \/ x \in refused'
      BY <2>4, <1>w DEF DeleteTask
    <3> QED
      BY <3>1, <3>2 DEF OwnsContainer, OwnsMeta, Created, Using, TearingDown
  <2>5. CASE DeletePauseContainer(t) /\ DeleteContainer(x)
    <3>1. call[t] = "deleteContainer" /\ call'[t] = "deleteMeta"
      BY <2>5, <1>s DEF DeletePauseContainer, TeardownStage
    <3>2. task[x] = "none" \/ x \in refused
      BY <3>1 DEF StageFits
    <3>3. x \notin containers' \ refused'
      BY <2>5, <3>2, <1>w DEF DeleteContainer
    <3> QED
      BY <3>1, <3>3 DEF OwnsContainer, OwnsMeta, Created, Using, TearingDown
  <2>6. CASE DeleteMeta(t) /\ DeleteSandboxMetadata(x)
    <3>1. call[t] = "deleteMeta" /\ call'[t] = "out"
      BY <2>6, <1>s DEF DeleteMeta
    <3>2. x \notin meta' \ refusedMeta'
      BY <2>6, <1>w DEF DeleteSandboxMetadata
    <3> QED
      BY <3>1, <3>2 DEF OwnsContainer, OwnsMeta, Created, Using, TearingDown
  <2> QED
    BY <1>3, <2>1, <2>2, <2>3, <2>4, <2>5, <2>6 DEF ReleaseSandbox
<1> QED
  BY <1>1, <1>2, <1>3, <1>t, CallMoves

\* As long as the mutex serialises boots and teardowns, what a caller inside
\* one relies on is not upset by another's.
LEMMA StageStep ==
    ASSUME DistinctIds, SandboxesWatched, MaxCrashes = 0, SMInv, SMInv', LocalTypeOK,
           CtrTypeOK, TaskHasContainer, TaskHasContainer', StageFits, [Next]_vars
    PROVE  StageFits'
<1> SUFFICES ASSUME NEW t \in Callers
             PROVE  /\ call'[t] \in Created => task'[sid(t)] = "none"
                    /\ call'[t] = "deleteContainer" => task'[sid(t)] = "none" \/ sid(t) \in refused'
  BY DEF StageFits, sid
<1> DEFINE Relies == Created \cup {"deleteContainer"}
<1>a. AllocOf[t] \in Allocs /\ sid(t) \in Ids /\ SMTypeOK
  BY IdTypes DEF SMInv
<1>1. ASSUME call[t] \in Relies, call'[t] \in Relies, task[sid(t)] = "none"
      PROVE  task'[sid(t)] = "none"
  <2>1. CASE Shrinks(sid(t))
    BY <1>1, <2>1 DEF Shrinks
  <2>2. ASSUME NEW u \in Callers, Adds(sid(t), u), ~(UNCHANGED task)
        PROVE  FALSE
    <3>1. call[u] = "start" /\ call'[u] = "in"
      BY <2>2 DEF Adds
    <3>2. call[u] \in Critical /\ call[t] \in Critical
      BY <3>1, <1>1 DEF Created, Critical, Booting, TearingDown
    <3>3. u = t
      BY <3>2 DEF SMInv, MutexHeld
    <3> QED
      BY <3>1, <3>3, <1>1 DEF Created
  <2> QED
    BY <1>1, <2>1, <2>2, <1>a, SandboxStep DEF sid
<1>2. CASE call'[t] = "deleteContainer"
  <2>1. CASE call[t] = "deleteContainer" /\ task[sid(t)] = "none"
    BY <1>1, <1>2, <2>1
  <2>2. CASE call[t] = "deleteContainer" /\ sid(t) \in refused
    <3>1. task'[sid(t)] # "none" => sid(t) \in containers'
      BY <1>a DEF TaskHasContainer, sid
    <3>2. task'[sid(t)] = "none" \/ sid(t) \in refused'
      BY <2>2, <3>1, RefusalStays
    <3> QED
      BY <1>2, <3>2 DEF Created
  <2>3. CASE call[t] # "deleteContainer"
    <3>1. call'[t] # call[t]
      BY <1>2, <2>3
    <3> QED
      BY <1>2, <3>1, OwnStep DEF Created
  <2> QED
    BY <1>2, <2>1, <2>2, <2>3 DEF StageFits, Created
<1>3. CASE call'[t] \in Created
  <2>1. CASE call[t] \in Created
    BY <1>1, <1>3, <2>1 DEF StageFits
  <2>2. CASE call[t] \notin Created
    BY <1>3, <2>2, OwnStep
  <2> QED
    BY <2>1, <2>2
<1> QED
  BY <1>2, <1>3 DEF Created

-----------------------------------------------------------------------------
(* The invariant and the properties.                                       *)

\* Nothing changes under a sandbox's ID without somebody who answers for it.
LEMMA TeardownKept ==
    ASSUME DistinctIds, SandboxesWatched, MaxCrashes = 0, SMInv, SMInv', LocalTypeOK,
           CtrTypeOK, TeardownInv, [Next]_vars
    PROVE  TeardownInv'
<1> USE DEF TeardownInv
<1>t. SMTypeOK
  BY DEF SMInv
<1>1. ASSUME NEW a \in Allocs
      PROVE  /\ SandboxID[a] \in containers' \ refused' =>
                    \E t \in Callers : AllocOf[t] = a /\ call'[t] \in OwnsContainer
             /\ SandboxID[a] \in meta' \ refusedMeta' =>
                    \E t \in Callers : AllocOf[t] = a /\ call'[t] \in OwnsMeta
             /\ task'[SandboxID[a]] # "none" => SandboxID[a] \in containers'
  <2> DEFINE x == SandboxID[a]
  <2>s. Shrinks(x) \/ \E u \in Callers : AllocOf[u] = a /\ Adds(x, u)
    BY <1>t, SandboxStep
  <2>r. /\ x \in containers' \ refused' => x \notin refused
        /\ x \in meta' \ refusedMeta' => x \notin refusedMeta
    BY RefusalStays
  <2>1. ASSUME x \in containers' \ refused'
        PROVE  \E t \in Callers : AllocOf[t] = a /\ call'[t] \in OwnsContainer
    <3>1. CASE x \in containers
      <4>1. PICK t \in Callers : AllocOf[t] = a /\ call[t] \in OwnsContainer
        BY <3>1, <2>1, <2>r DEF ContainerOwned
      <4>2. CASE call'[t] \in OwnsContainer
        BY <4>1, <4>2
      <4>3. CASE call'[t] \notin OwnsContainer
        <5>1. Shared(t)
          BY <2>1, <4>1, <4>3, OwnStep DEF sid
        <5> QED
          BY <5>1, <4>1 DEF Shared, OwnsContainer
      <4> QED
        BY <4>2, <4>3
    <3>2. CASE x \notin containers
      BY <2>1, <2>s, <3>2 DEF Shrinks, Adds, OwnsContainer, Created
    <3> QED
      BY <3>1, <3>2
  <2>2. ASSUME x \in meta' \ refusedMeta'
        PROVE  \E t \in Callers : AllocOf[t] = a /\ call'[t] \in OwnsMeta
    <3>1. CASE x \in meta
      <4>1. PICK t \in Callers : AllocOf[t] = a /\ call[t] \in OwnsMeta
        BY <3>1, <2>2, <2>r DEF MetaOwned
      <4>2. CASE call'[t] \in OwnsMeta
        BY <4>1, <4>2
      <4>3. CASE call'[t] \notin OwnsMeta
        <5>1. Shared(t)
          BY <2>2, <4>1, <4>3, OwnStep DEF sid
        <5> QED
          BY <5>1, <4>1 DEF Shared, OwnsMeta
      <4> QED
        BY <4>2, <4>3
    <3>2. CASE x \notin meta
      BY <2>2, <2>s, <3>2 DEF Shrinks, Adds, OwnsMeta
    <3> QED
      BY <3>1, <3>2
  <2>3. ASSUME task'[x] # "none" PROVE x \in containers'
    <3>1. CASE Shrinks(x)
      BY <2>3, <3>1 DEF Shrinks, TaskHasContainer
    <3>2. ASSUME NEW u \in Callers, Adds(x, u) PROVE x \in containers'
      BY <2>3, <3>2 DEF Adds, TaskHasContainer
    <3> QED
      BY <2>s, <3>1, <3>2
  <2> QED
    BY <2>1, <2>2, <2>3
<1>2. ContainerOwned' /\ MetaOwned' /\ TaskHasContainer'
  BY <1>1 DEF ContainerOwned, MetaOwned, TaskHasContainer
<1>3. StageFits'
  BY <1>2, StageStep
<1> QED
  BY <1>2, <1>3

\* Whatever exists under the ID of a sandbox is answered for by a user of the
\* sandbox or by the call that is booting or dismantling it, unless its delete
\* was refused or failed.  Kills take their time and any call may fail.
THEOREM DriverTeardown ==
    ASSUME DistinctIds, SandboxesWatched, MaxCrashes = 0
    PROVE  Spec => []TeardownInv
<1> DEFINE Types == SMInv /\ LocalTypeOK /\ CtrTypeOK
<1>1. Init => TeardownInv
  <2> SUFFICES ASSUME Init PROVE TeardownInv
    OBVIOUS
  <2>1. \A t \in Callers : call[t] = "out" /\ sid(t) \in Ids
    BY IdTypes DEF Init, SMInit
  <2>2. containers = {} /\ meta = {} /\ \A a \in Allocs : task[SandboxID[a]] = "none"
    BY IdsAssumption DEF Init, CtrInit
  <2> QED
    BY <2>1, <2>2 DEF TeardownInv, ContainerOwned, MetaOwned, TaskHasContainer, StageFits, Created
<1>2. Types /\ Types' /\ TeardownInv /\ [Next]_vars => TeardownInv'
  BY TeardownKept
<1>3. TypeOK => LocalTypeOK /\ CtrTypeOK
  BY DEF TypeOK, LocalTypeOK
<1>4. Spec => []Types
  BY <1>3, DriverTypes, DriverUsesManager, ManagerInvariant, PTL
<1> QED
  BY <1>1, <1>2, <1>4, PTL DEF Spec

\* A boot never finds a sandbox container that an earlier attempt forgot: what it
\* may find is one that containerd refused to delete.
THEOREM DriverBootsMeetOnlyRefused ==
    ASSUME DistinctIds, SandboxesWatched, MaxCrashes = 0
    PROVE  Spec => []BootsMeetOnlyRefused
<1>1. SMInv /\ TeardownInv => BootsMeetOnlyRefused
  <2> SUFFICES ASSUME SMInv, TeardownInv, NEW t \in Callers, call[t] = "create",
                      sid(t) \in containers \ refused
               PROVE  FALSE
    BY DEF BootsMeetOnlyRefused
  <2>1. PICK u \in Callers : AllocOf[u] = AllocOf[t] /\ call[u] \in OwnsContainer
    BY IdTypes DEF TeardownInv, ContainerOwned, sid
  <2>2. call[t] \in Critical
    BY DEF Critical, Booting
  <2>3. CASE call[u] \in Using
    BY <2>1, <2>2, <2>3 DEF SMInv, CriticalIsAlone, Holders
  <2>4. CASE call[u] \in Critical
    <3>1. u = t
      BY <2>2, <2>4 DEF SMInv, MutexHeld
    <3> QED
      BY <2>1, <3>1 DEF OwnsContainer, Using, Created
  <2> QED
    BY <2>1, <2>3, <2>4 DEF OwnsContainer, Created, Critical, Booting, TearingDown
<1> QED
  BY <1>1, DriverTeardown, DriverUsesManager, ManagerInvariant, PTL

\* When all tasks of an allocation are gone neither the container nor the record
\* of its sandbox is left, so the host does not fill up with them, unless
\* containerd refused a delete or failed one.
THEOREM DriverOnlyRefusedLeft ==
    ASSUME DistinctIds, SandboxesWatched, MaxCrashes = 0
    PROVE  Spec => []OnlyRefusedLeft
<1>1. RunnerMatchesCall /\ TeardownInv => OnlyRefusedLeft
  <2> SUFFICES ASSUME RunnerMatchesCall, TeardownInv, NEW a \in Allocs, Idle(a)
               PROVE  /\ SandboxID[a] \notin containers \ refused
                      /\ SandboxID[a] \notin meta \ refusedMeta
    BY DEF OnlyRefusedLeft
  <2>1. \A t \in Callers : AllocOf[t] = a => call[t] = "out"
    BY DEF Idle, Mates, RunnerMatchesCall, NoCall
  <2> QED
    BY <2>1 DEF TeardownInv, ContainerOwned, MetaOwned, OwnsContainer, OwnsMeta, Using, Created,
                TearingDown
<1> QED
  BY <1>1, DriverTeardown, DriverMatchesCall, PTL

-----------------------------------------------------------------------------
(* What is left of the container of a task.                                *)

\* A task runner moves by a step of its own, or by a crash.
LEMMA RunnerMoves ==
    ASSUME LocalTypeOK, [Next]_vars, NEW t \in Callers, pc'[t] # pc[t]
    PROVE  \/ Crash
           \/ CallInProgress(t)
           \/ StartTask(t) \/ StopTask(t) \/ DestroyTask(t) \/ RecoverTask(t)
<1>1. ASSUME NEW u \in Callers, NEW k \in Slots, HandleStep(u, k) PROVE FALSE
  BY <1>1, HandleMove
<1>2. ASSUME NEW u \in Callers, TaskExits(u) PROVE FALSE
  BY <1>2 DEF TaskExits
<1>3. ASSUME NEW a \in Allocs, VMExits(a) \/ VMDies(a) PROVE FALSE
  BY <1>3 DEF VMExits, VMDies, VMDown
<1>4. CASE Quiescent \/ UNCHANGED vars
  BY <1>4 DEF Quiescent, vars
<1> QED
  BY <1>1, <1>2, <1>3, <1>4, OtherRunners DEF Next

\* Where the runner of a task stands while the task should have no container.
WithoutContainer == {"idle", "kill", "deleteTask", "deleteContainer", "acquire", "release"}

RemovedInv ==
    \A t \in Callers :
        /\ pc[t] \in WithoutContainer /\ cid(t) \in containers => cid(t) \in refused
        /\ pc[t] = "destroyContainer" => task[cid(t)] = "none" \/ cid(t) \in refused
        /\ task[cid(t)] # "none" => cid(t) \in containers

\* As long as nothing is lost, a runner comes there only by a destroy.
LEMMA EntersWithout ==
    ASSUME MaxCrashes = 0, LocalTypeOK, NothingToRecover, [Next]_vars, NEW t \in Callers,
           pc[t] \notin WithoutContainer, pc'[t] \in WithoutContainer
    PROVE  DestroyContainer(t) /\ pc[t] = "destroyContainer"
<1> USE DEF WithoutContainer
<1>1. ~Crash
  BY DEF Crash, LocalTypeOK
<1>2. CASE StartTask(t) \/ StopTask(t) \/ DestroyTask(t)
  BY <1>2 DEF StartTask, StopTask, DestroyTask, Move, LocalTypeOK
<1>3. CASE RecoverTask(t) \/ Reattach(t)
  BY <1>3 DEF RecoverTask, Reattach, Move, NothingToRecover
<1>4. CASE CleanupContainer(t) \/ StartFails(t) \/ CreateTask(t) \/ Launch(t) \/ StopReturns(t)
           \/ AwaitKill(t) \/ Return(t)
  BY <1>4
  DEF CleanupContainer, StartFails, CreateTask, Launch, StopReturns, AwaitKill, Return, Move,
      LocalTypeOK
<1>5. CASE Acquire(t) \/ ReleaseSandbox(t)
  BY <1>5 DEF Acquire, ReleaseSandbox, driverVars
<1>6. CASE DestroyContainer(t)
  BY <1>6 DEF DestroyContainer, Move, LocalTypeOK
<1> QED
  BY <1>1, <1>2, <1>3, <1>4, <1>5, <1>6, RunnerMoves DEF CallInProgress

\* The destroy goes on to the container once the task is deleted, or its delete
\* was refused.
LEMMA TaskDeleted ==
    ASSUME TasksWatched, MaxCrashes = 0, LocalTypeOK, NothingToRecover, [Next]_vars,
           NEW t \in Callers, pc[t] # "destroyContainer", pc'[t] = "destroyContainer"
    PROVE  task'[cid(t)] = "none" \/ cid(t) \in refused'
<1>1. ~Crash
  BY DEF Crash, LocalTypeOK
<1>2. ~(StartTask(t) \/ StopTask(t) \/ DestroyTask(t) \/ RecoverTask(t))
  BY DEF StartTask, StopTask, DestroyTask, RecoverTask, Move, LocalTypeOK
<1>3. ~(CleanupContainer(t) \/ StartFails(t) \/ CreateTask(t) \/ Launch(t) \/ StopReturns(t)
          \/ AwaitKill(t) \/ Return(t) \/ Reattach(t))
  BY DEF CleanupContainer, StartFails, CreateTask, Launch, StopReturns, AwaitKill, Return, Reattach,
         Move, LocalTypeOK
<1>4. ~(Acquire(t) \/ ReleaseSandbox(t))
  BY DEF Acquire, ReleaseSandbox, driverVars
<1>5. DestroyContainer(t)
  BY <1>1, <1>2, <1>3, <1>4, RunnerMoves DEF CallInProgress
<1>6. pc[t] = "destroyTask" /\ DeleteTask(cid(t))
  BY <1>5 DEF DestroyContainer, Move, LocalTypeOK
<1> QED
  BY <1>6 DEF DeleteTask, TasksWatched, cid

\* Every step keeps it so.
LEMMA NextRemoved ==
    ASSUME DistinctIds, DistinctContainers, TasksWatched, MaxCrashes = 0, CtrTypeOK, LocalTypeOK,
           NothingToRecover, GoroutineOwned, RemovedInv, [Next]_vars
    PROVE  RemovedInv'
<1> SUFFICES ASSUME NEW t \in Callers
             PROVE  /\ pc'[t] \in WithoutContainer /\ cid(t) \in containers' => cid(t) \in refused'
                    /\ pc'[t] = "destroyContainer" => task'[cid(t)] = "none" \/ cid(t) \in refused'
                    /\ task'[cid(t)] # "none" => cid(t) \in containers'
  BY DEF RemovedInv, cid
<1>0. task'[cid(t)] # "none" => cid(t) \in containers'
  BY StepAdds DEF RemovedInv, NothingNew, Creates, Starts
<1>1. CASE Creates(t)
  BY <1>0, <1>1 DEF Creates, LocalTypeOK, WithoutContainer
<1>2. ASSUME NEW k \in Slots, Starts(t, k)
      PROVE  pc'[t] \notin WithoutContainer \cup {"destroyContainer"}
  BY <1>2 DEF Starts, RunMove, GoroutineOwned, Pending, WithoutContainer
<1>3. CASE NothingNew(cid(t))
  <2>1. ASSUME pc'[t] \in WithoutContainer, cid(t) \in containers' PROVE cid(t) \in refused'
    <3>1. CASE pc[t] \in WithoutContainer
      BY <1>3, <2>1, <3>1, RefusalStays DEF RemovedInv, NothingNew
    <3>2. CASE pc[t] \notin WithoutContainer
      <4>1. /\ DestroyContainer(t) /\ pc[t] = "destroyContainer"
            /\ task[cid(t)] = "none" \/ cid(t) \in refused
        BY <2>1, <3>2, EntersWithout DEF RemovedInv
      <4>2. DeleteContainer(cid(t)) /\ cid(t) \in Watched
        BY <4>1 DEF DestroyContainer, Move, TasksWatched, cid
      <4> QED
        BY <2>1, <4>1, <4>2 DEF DeleteContainer
    <3> QED
      BY <3>1, <3>2
  <2>2. ASSUME pc'[t] = "destroyContainer" PROVE task'[cid(t)] = "none" \/ cid(t) \in refused'
    <3>1. CASE pc[t] = "destroyContainer"
      BY <1>0, <1>3, <3>1, RefusalStays DEF RemovedInv, NothingNew
    <3> QED
      BY <2>2, <3>1, TaskDeleted
  <2> QED
    BY <1>0, <2>1, <2>2
<1> QED
  BY <1>0, <1>1, <1>2, <1>3, StepAdds

\* As long as the plugin lives, DestroyTask sees the exits it waits for and IDs
\* are distinct, a task without a handle has no container but one whose delete
\* was refused or failed.  Kills need not be prompt, waits and any call may fail.
THEOREM DriverContainersRemoved ==
    ASSUME DistinctIds, DistinctContainers, TasksWatched, ~KillTimeouts, MaxCrashes = 0
    PROVE  Spec => []ContainersRemoved
<1> DEFINE Base == CtrTypeOK /\ LocalTypeOK /\ GoroutineOwned
<1>1. Init => NothingToRecover /\ RemovedInv
  BY IdTypes DEF Init, CtrInit, NothingToRecover, RemovedInv
<1>2. Base /\ NothingToRecover /\ RemovedInv /\ [Next]_vars => NothingToRecover' /\ RemovedInv'
  BY NextNothingToRecover, NextRemoved
<1>3. TypeOK => CtrTypeOK /\ LocalTypeOK
  BY DEF TypeOK, LocalTypeOK
<1>4. Spec => []Base
  BY <1>3, DriverTypes, DriverGoroutines, PTL
<1>5. RemovedInv => ContainersRemoved
  BY DEF RemovedInv, WithoutContainer, ContainersRemoved
<1> QED
  BY <1>1, <1>2, <1>4, <1>5, PTL DEF Spec

-----------------------------------------------------------------------------
(* Condemned allocations.                                                  *)

Starting == {"kill", "deleteTask", "deleteContainer", "acquire"}

\* A VM is booted by a start of its allocation.
LEMMA BootedByStart ==
    ASSUME DistinctIds, SMTypeOK, CtrTypeOK, LocalTypeOK, RunnerMatchesCall, [Next]_vars,
           NEW a \in Allocs, task[SandboxID[a]] # "running", task'[SandboxID[a]] = "running"
    PROVE  \E t \in Mates(a) : pc[t] \in Starting
<1>1. PICK t \in Callers : AllocOf[t] = a /\ Adds(SandboxID[a], t)
  BY SandboxStep DEF Shrinks
<1>2. call[t] = "start"
  BY <1>1 DEF Adds
<1>3. pc[t] = "acquire"
  BY <1>2 DEF LocalTypeOK, Runners, RunnerMatchesCall, NoCall, Handled, TearingDown
<1> QED
  BY <1>1, <1>3 DEF Mates, Starting

\* A start begins only in an allocation that is not condemned.
LEMMA BeginsAlive ==
    ASSUME LocalTypeOK, [Next]_vars, NEW t \in Callers,
           pc[t] \notin Starting, pc'[t] \in Starting
    PROVE  AllocOf[t] \notin dead
<1> USE DEF Starting
<1>1. CASE StartTask(t)
  BY <1>1 DEF StartTask, Move, LocalTypeOK
<1>2. CASE StopTask(t) \/ DestroyTask(t) \/ RecoverTask(t)
  BY <1>2 DEF StopTask, DestroyTask, RecoverTask, Move, LocalTypeOK
<1>3. CASE CleanupContainer(t) \/ StartFails(t) \/ CreateTask(t) \/ Launch(t) \/ StopReturns(t)
           \/ AwaitKill(t) \/ DestroyContainer(t) \/ Return(t) \/ Reattach(t)
  BY <1>3
  DEF CleanupContainer, StartFails, CreateTask, Launch, StopReturns, AwaitKill, DestroyContainer,
      Return, Reattach, Move, LocalTypeOK
<1>4. CASE Acquire(t) \/ ReleaseSandbox(t)
  BY <1>4 DEF Acquire, ReleaseSandbox, driverVars
<1>5. CASE Crash
  BY <1>5 DEF Crash
<1> QED
  BY <1>1, <1>2, <1>3, <1>4, <1>5, RunnerMoves DEF CallInProgress

\* Markers are written by markSandboxDead and never removed.
LEMMA MarkerWritten ==
    ASSUME [Next]_vars
    PROVE  \/ UNCHANGED dead
           \/ \E t \in Callers, k \in Slots :
                 /\ run[t][k] = "verdict" /\ UNCHANGED pc
                 /\ dead' = dead \cup {AllocOf[t]}
<1>1. ASSUME NEW t \in Callers, CallInProgress(t) PROVE UNCHANGED dead
  BY <1>1
  DEF CallInProgress, CleanupContainer, Acquire, StartFails, CreateTask, Launch, StopReturns,
      AwaitKill, DestroyContainer, ReleaseSandbox, Return, Reattach, driverVars
<1>2. ASSUME NEW t \in Callers, NEW k \in Slots, HandleStep(t, k), ~WriteMarker(t, k)
      PROVE  UNCHANGED dead
  BY <1>2 DEF HandleStep, Run, WaitFails, MonitorRecovered, RecordExit, MarkCleanup, SetExit
<1>3. ASSUME NEW t \in Callers, NEW k \in Slots, WriteMarker(t, k)
      PROVE  \/ UNCHANGED dead
             \/ run[t][k] = "verdict" /\ UNCHANGED pc /\ dead' = dead \cup {AllocOf[t]}
  BY <1>3 DEF WriteMarker, RunMove
<1>4. ASSUME NEW t \in Callers,
             StartTask(t) \/ StopTask(t) \/ DestroyTask(t) \/ RecoverTask(t) \/ TaskExits(t)
      PROVE  UNCHANGED dead
  BY <1>4 DEF StartTask, StopTask, DestroyTask, RecoverTask, TaskExits
<1>5. ASSUME NEW a \in Allocs, VMExits(a) \/ VMDies(a) PROVE UNCHANGED dead
  BY <1>5 DEF VMExits, VMDies, VMDown
<1>6. CASE Crash \/ Quiescent \/ UNCHANGED vars
  BY <1>6 DEF Crash, Quiescent, vars
<1> QED
  BY <1>1, <1>2, <1>3, <1>4, <1>5, <1>6 DEF Next

\* With distinct IDs a condemned allocation whose VM is down, and in which no
\* start looked before the marker was there, stays dead, over any timeouts,
\* faults, crashes and recoveries.
THEOREM DriverCondemnedForGood ==
    ASSUME DistinctIds, DistinctContainers PROVE Spec => CondemnedForGood
<1> DEFINE Inv == SMTypeOK /\ CtrTypeOK /\ LocalTypeOK /\ RunnerMatchesCall
<1>1. Inv /\ [Next]_vars =>
          [\A a \in Allocs : Condemned(a) =>
             /\ Condemned(a)'
             /\ \A t \in Mates(a) : task'[cid(t)] \in Alive => task[cid(t)] \in Alive]_vars
  <2> SUFFICES ASSUME Inv, [Next]_vars, NEW a \in Allocs, Condemned(a)
               PROVE  /\ Condemned(a)'
                      /\ \A t \in Mates(a) : task'[cid(t)] \in Alive => task[cid(t)] \in Alive
    OBVIOUS
  <2>1. a \in dead'
    BY MarkerWritten DEF Condemned
  <2>2. \A t \in Mates(a) : pc[t] \notin Starting
    BY DEF Condemned, Starting
  <2>3. task'[SandboxID[a]] # "running"
    BY <2>2, BootedByStart DEF Condemned
  <2>4. \A t \in Mates(a) : pc'[t] \notin Starting
    BY <2>2, BeginsAlive DEF Mates, Condemned
  <2>5. ASSUME NEW t \in Mates(a), task'[cid(t)] \in Alive PROVE task[cid(t)] \in Alive
    BY <2>5, StartIsAwaited DEF Mates, Condemned, sid
  <2>6. Condemned(a)'
    BY <2>1, <2>3, <2>4 DEF Condemned, Starting, Mates
  <2> QED
    BY <2>5, <2>6
<1>2. TypeOK => SMTypeOK /\ CtrTypeOK /\ LocalTypeOK
  BY DEF TypeOK, LocalTypeOK
<1> QED
  BY <1>1, <1>2, DriverTypes, DriverMatchesCall, PTL DEF Spec, CondemnedForGood

\* No start is under way in a condemned allocation.
NoStartInDead == \A t \in Callers : AllocOf[t] \in dead => pc[t] \notin Starting

\* Every allocation has one task.
Alone == \A t, u \in Callers : AllocOf[t] = AllocOf[u] => t = u

\* The VM of a condemned allocation is never booted again when the allocation
\* has one task: it takes a sibling to overtake the marker.
THEOREM DriverNeverRebooted ==
    ASSUME DistinctIds, Alone, ~KillTimeouts PROVE Spec => NeverRebooted
<1> DEFINE Inv == SMTypeOK /\ CtrTypeOK /\ LocalTypeOK /\ RunnerMatchesCall /\ GoroutineOwned
<1>1. Init => NoStartInDead
  BY DEF Init, NoStartInDead
<1>2. Inv /\ NoStartInDead /\ [Next]_vars => NoStartInDead'
  <2> SUFFICES ASSUME Inv, NoStartInDead, [Next]_vars, NEW t \in Callers, AllocOf[t] \in dead'
               PROVE  pc'[t] \notin Starting
    BY DEF NoStartInDead
  <2>1. CASE AllocOf[t] \in dead
    BY <2>1, BeginsAlive DEF NoStartInDead
  <2>2. CASE AllocOf[t] \notin dead
    <3>1. PICK u \in Callers, k \in Slots :
              run[u][k] = "verdict" /\ UNCHANGED pc /\ AllocOf[u] = AllocOf[t]
      BY <2>2, MarkerWritten
    <3>2. u = t /\ pc[t] \in Pending
      BY <3>1 DEF Alone, GoroutineOwned
    <3> QED
      BY <3>1, <3>2 DEF Pending, Starting
  <2> QED
    BY <2>1, <2>2
<1>3. Inv /\ NoStartInDead /\ [Next]_vars =>
          [\A a \in dead : task[SandboxID[a]] # "running" => task'[SandboxID[a]] # "running"]_vars
  <2> SUFFICES ASSUME Inv, NoStartInDead, [Next]_vars, NEW a \in dead,
                      task[SandboxID[a]] # "running", task'[SandboxID[a]] = "running"
               PROVE  FALSE
    OBVIOUS
  <2>1. a \in Allocs
    BY DEF LocalTypeOK
  <2> QED
    BY <2>1, BootedByStart DEF NoStartInDead, Mates
<1>4. TypeOK => SMTypeOK /\ CtrTypeOK /\ LocalTypeOK
  BY DEF TypeOK, LocalTypeOK
<1>5. Spec => []Inv
  BY <1>4, DriverTypes, DriverMatchesCall, DriverGoroutines, PTL
<1> QED
  BY <1>1, <1>2, <1>3, <1>5, PTL DEF Spec, NeverRebooted
=============================================================================
