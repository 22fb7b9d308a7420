----------------------------- MODULE KataDriver -----------------------------
(***************************************************************************)
(* kata/driver.go and kata/handle.go over the sandbox manager and          *)
(* containerd: the calls Nomad's task runners make on the driver, one at a *)
(* time per task, the goroutine that follows each container, and what may  *)
(* happen to the containers, the VM and the plugin process meanwhile.      *)
(*                                                                         *)
(* A task runner stands at pc[t]:                                          *)
(*   idle                                    no handle                     *)
(*   kill, deleteTask, deleteContainer       StartTask: Cleanup(container) *)
(*   acquire                                 StartTask: GetOrCreate        *)
(*   launch                                  StartTask: container created  *)
(*   running, stopping, stopped              has a handle                  *)
(*   awaitKill, destroyTask, destroyContainer   DestroyTask                *)
(*   release                                 Release, then return          *)
(*   lost, recover                           after a plugin crash          *)
(* The goroutine of a handle stands at run[t][k]:                          *)
(*   open, reopen        run, monitorRecovered: not attached yet           *)
(*   wait                blocked on the exit of the task                   *)
(*   failed              recordExit with a code or an error                *)
(*   verdict, markKill, markDeleteTask, markDeleteContainer,               *)
(*   markDeleteMeta, markProcesses                                         *)
(*                       markSandboxDead                                   *)
(*   exit                about to call setExit                             *)
(*   done                exitResult is set; none: no goroutine             *)
(***************************************************************************)
EXTENDS SandboxManager, Containerd

CONSTANTS ContainerID,   \* container ID of each task
          SandboxID,     \* sandbox ID of each allocation
          NumSlots,      \* bound: handles of a task that may coexist
          MaxStarts,     \* bound: StartTask calls per task
          MaxCrashes,    \* bound: crashes of the plugin process
          KillTimeouts,  \* DestroyTask's 5s wait may expire
          Lossy          \* allocations whose VM the host may lose, once

ASSUME IdsAssumption ==
    /\ ContainerID \in [Callers -> Ids]
    /\ SandboxID \in [Allocs -> Ids]
ASSUME BoundsAssumption ==
    /\ NumSlots \in Nat \ {0}
    /\ MaxStarts \in [Callers -> Nat]
    /\ MaxCrashes \in Nat
    /\ PromptExit \in BOOLEAN
    /\ KillTimeouts \in BOOLEAN
    /\ Lossy \in SUBSET Allocs

VARIABLES
    pc,       \* where each task runner stands
    h,        \* the slot of its handle in taskStore, 0 for none
    run,      \* the goroutine of each handle
    dead,     \* allocations with a sandbox-dead marker on disk
    died,     \* history, and bound: allocations whose VM the host lost
    starts,   \* StartTask calls made
    crashes,  \* crashes so far
    unseen    \* history: tasks whose container runs on though the wait for its
              \* exit failed

handleVars == <<h, run>>
envVars    == <<died, starts, crashes, unseen>>
driverVars == <<pc, h, run, dead, died, starts, crashes, unseen>>
vars       == <<mu, sandboxes, refCount, call, containers, task, meta, refused, refusedMeta,
                pc, h, run, dead, died, starts, crashes, unseen>>

Slots   == 1 .. NumSlots
Runners == {"idle", "kill", "deleteTask", "deleteContainer", "acquire", "launch",
            "running", "stopping", "stopped", "awaitKill", "destroyTask",
            "destroyContainer", "release", "lost", "recover"}
Marking == {"verdict", "markKill", "markDeleteTask", "markDeleteContainer", "markDeleteMeta",
            "markProcesses"}
Runs    == {"none", "open", "reopen", "wait", "failed", "exit", "done"} \cup Marking

cid(t) == ContainerID[t]
sid(t) == SandboxID[AllocOf[t]]

\* The exit of the current handle has been recorded: not IsRunning().
Exited(t) == run[t][h[t]] = "done"

TypeOK ==
    /\ SMTypeOK
    /\ CtrTypeOK
    /\ pc \in [Callers -> Runners]
    /\ h \in [Callers -> 0 .. NumSlots]
    /\ run \in [Callers -> [Slots -> Runs]]
    /\ dead \in SUBSET Allocs
    /\ died \in SUBSET Allocs
    /\ starts \in [Callers -> Nat]
    /\ crashes \in 0 .. MaxCrashes
    /\ unseen \in SUBSET Callers

Init ==
    /\ SMInit
    /\ CtrInit
    /\ pc = [t \in Callers |-> "idle"]
    /\ h = [t \in Callers |-> 0]
    /\ run = [t \in Callers |-> [k \in Slots |-> "none"]]
    /\ dead = {}
    /\ died = {}
    /\ starts = [t \in Callers |-> 0]
    /\ crashes = 0
    /\ unseen = {}

Move(t, from, to) ==
    /\ pc[t] = from
    /\ pc' = [pc EXCEPT ![t] = to]

-----------------------------------------------------------------------------
(* StartTask.                                                              *)

\* As if the marker of a dead sandbox were not looked for.
Mutant_MarkerUnread(t) ==
    /\ starts[t] < MaxStarts[t]
    /\ starts' = [starts EXCEPT ![t] = @ + 1]
    /\ \E valid \in Outcome("Config") : Move(t, "idle", IF valid THEN "kill" ELSE "idle")
    /\ UNCHANGED <<smVars, ctrVars, handleVars, dead, died, crashes, unseen>>

\* A poisoned allocation, or a configuration that does not decode, is refused
\* before anything is touched.
StartTask(t) ==
    /\ starts[t] < MaxStarts[t]
    /\ starts' = [starts EXCEPT ![t] = @ + 1]
    /\ \E valid \in Outcome("Config") :
           Move(t, "idle", IF AllocOf[t] \in dead \/ ~valid THEN "idle" ELSE "kill")
    /\ UNCHANGED <<smVars, ctrVars, handleVars, dead, died, crashes, unseen>>

\* Cleanup(containerID), then call GetOrCreate.
CleanupContainer(t) ==
    /\ \/ Move(t, "kill", "deleteTask") /\ KillTask(cid(t)) /\ UNCHANGED smVars
       \/ Move(t, "deleteTask", "deleteContainer") /\ DeleteTask(cid(t)) /\ UNCHANGED smVars
       \/ Move(t, "deleteContainer", "acquire") /\ DeleteContainer(cid(t)) /\ GetOrCreateCall(t)
    /\ UNCHANGED <<handleVars, dead, envVars>>

\* As if a boot that fails left the container it created.
Mutant_NoUndo(t) ==
    /\ pc[t] = "acquire"
    /\ \/ (Reuse(t) \/ Boot(t)) /\ UNCHANGED ctrVars
       \/ \E ok \in Outcome("EnsurePauseImage") : EnsurePauseImage(t, ok) /\ UNCHANGED ctrVars
       \/ \E ok \in CreateResults(sid(t)) : CreatePause(t, ok) /\ CreateContainer(sid(t), ok)
       \/ \E ok \in Outcome("CreateSandboxMetadata") :
              CreateMeta(t, ok) /\ CreateSandboxMetadata(sid(t), ok)
       \/ \E ok \in StartResults(sid(t)) : StartPause(t, ok) /\ StartTaskDetached(sid(t), ok)
       \/ UndoMeta(t) /\ DeleteSandboxMetadata(sid(t))
       \/ UndoCreate(t) /\ UNCHANGED ctrVars
    /\ UNCHANGED driverVars

\* GetOrCreate, each stage with its containerd call.
Acquire(t) ==
    /\ pc[t] = "acquire"
    /\ \/ (Reuse(t) \/ Boot(t)) /\ UNCHANGED ctrVars
       \/ \E ok \in Outcome("EnsurePauseImage") : EnsurePauseImage(t, ok) /\ UNCHANGED ctrVars
       \/ \E ok \in CreateResults(sid(t)) : CreatePause(t, ok) /\ CreateContainer(sid(t), ok)
       \/ \E ok \in Outcome("CreateSandboxMetadata") :
              CreateMeta(t, ok) /\ CreateSandboxMetadata(sid(t), ok)
       \/ \E ok \in StartResults(sid(t)) : StartPause(t, ok) /\ StartTaskDetached(sid(t), ok)
       \/ UndoMeta(t) /\ DeleteSandboxMetadata(sid(t))
       \/ UndoCreate(t) /\ DeleteContainer(sid(t))
    /\ UNCHANGED driverVars

\* GetOrCreate failed, before the deferred Release is armed.
StartFails(t) ==
    /\ Move(t, "acquire", "idle")
    /\ call[t] = "out"
    /\ UNCHANGED <<smVars, ctrVars, handleVars, dead, envVars>>

\* Pull the image, prepare the configuration and create the container; any
\* failure runs the deferred Release.
CreateTask(t) ==
    /\ call[t] = "in"
    /\ \/ /\ \E ok \in CreateResults(cid(t)) :
                 /\ CreateContainer(cid(t), ok)
                 /\ IF ok THEN Move(t, "acquire", "launch") /\ UNCHANGED smVars
                          ELSE Move(t, "acquire", "release") /\ ReleaseCall(t)
       \/ /\ FALSE \in Outcome("Prepare")
          /\ Move(t, "acquire", "release")
          /\ ReleaseCall(t)
          /\ UNCHANGED ctrVars
    /\ UNCHANGED <<handleVars, dead, envVars>>

\* A new handle in a free slot, its goroutine at stage s.
NewHandle(t, s) ==
    \E k \in Slots :
        /\ run[t][k] = "none"
        /\ \A j \in 1 .. k - 1 : run[t][j] # "none"
        /\ h' = [h EXCEPT ![t] = k]
        /\ run' = [run EXCEPT ![t][k] = s]

\* go h.run, tasks.Set, return.
Launch(t) ==
    /\ Move(t, "launch", "running")
    /\ NewHandle(t, "open")
    /\ UNCHANGED <<smVars, ctrVars, dead, envVars>>

-----------------------------------------------------------------------------
(* The goroutine of handle k of task t.                                    *)

RunMove(t, k, from, to) ==
    /\ run[t][k] = from
    /\ run' = [run EXCEPT ![t][k] = to]

\* setExit and close(doneCh); a handle Nomad has forgotten is garbage.
Recorded(t, k) == IF h[t] = k THEN "done" ELSE "none"

\* As if RunTask did not wait for the exit.
Mutant_RunReturns(t, k) ==
    /\ \E ok \in IF task[sid(t)] = "running" THEN StartResults(cid(t)) ELSE {FALSE} :
           /\ RunMove(t, k, "open", IF ok THEN "exit" ELSE "failed")
           /\ StartTaskDetached(cid(t), ok)
    /\ UNCHANGED <<smVars, pc, h, dead, envVars>>

\* run: open the log files, start the task, wait (RunTask).  The task needs its
\* container and the VM.
Run(t, k) ==
    /\ \/ /\ FALSE \in Outcome("Logs")
          /\ RunMove(t, k, "open", Recorded(t, k))
          /\ UNCHANGED ctrVars
       \/ \E ok \in IF task[sid(t)] = "running" THEN StartResults(cid(t)) ELSE {FALSE} :
              /\ RunMove(t, k, "open", IF ok THEN "wait" ELSE "failed")
              /\ StartTaskDetached(cid(t), ok)
    /\ UNCHANGED <<smVars, pc, h, dead, envVars>>

\* As if a recovered task were reported without waiting for its exit.
Mutant_RecoveredReported(t, k) ==
    /\ RunMove(t, k, "reopen", "exit")
    /\ UNCHANGED <<smVars, ctrVars, pc, h, dead, envVars>>

\* The wait for the exit breaks off while the container runs: RunTask and
\* MonitorTask return the error, and it is recorded like an exit.
WaitFails(t, k) ==
    /\ "Wait" \in Faults
    /\ RunMove(t, k, "wait", "failed")
    /\ unseen' = unseen \cup {t}
    /\ UNCHANGED <<smVars, ctrVars, pc, h, dead, died, starts, crashes>>

\* How MonitorTask goes on: it waits for a task that still runs, unless it
\* cannot attach; one that has exited meanwhile may be gone already.
MonitorTask(t) ==
    IF task[cid(t)] \in Alive
    THEN {"wait"} \cup (IF "Wait" \in Faults THEN {"failed"} ELSE {})
    ELSE {"failed"} \cup (IF task[cid(t)] = "stopped" THEN {"exit"} ELSE {})

\* monitorRecovered: open the log files and attach.  Either may fail though the
\* container runs, and nobody waits for its exit then.
MonitorRecovered(t, k) ==
    /\ \E to \in MonitorTask(t) \cup (IF FALSE \in Outcome("Logs") THEN {Recorded(t, k)} ELSE {}) :
           /\ RunMove(t, k, "reopen", to)
           /\ unseen' = IF to # "wait" /\ task[cid(t)] \in Alive THEN unseen \cup {t} ELSE unseen
    /\ UNCHANGED <<smVars, ctrVars, pc, h, dead, died, starts, crashes>>

\* As if any failed task condemned the sandbox.
Mutant_NoStateCheck(t, k) ==
    /\ RunMove(t, k, "failed", "verdict")
    /\ UNCHANGED <<smVars, ctrVars, pc, h, dead, envVars>>

\* As if sandboxTransportFailed recognised nothing.
Mutant_TransportErrorsIgnored(t, k) ==
    /\ \E s \in TaskState(sid(t)) :
           RunMove(t, k, "failed", IF s = "stopped" THEN "verdict" ELSE "exit")
    /\ UNCHANGED <<smVars, ctrVars, pc, h, dead, envVars>>

\* As if the state were asked for again until the sandbox is gone.
Mutant_VerdictAwaited(t, k) ==
    /\ \E s \in TaskState(sid(t)) :
           RunMove(t, k, "failed", IF s \in {"stopped", "lost"} THEN "verdict" ELSE "failed")
    /\ UNCHANGED <<smVars, ctrVars, pc, h, dead, envVars>>

\* recordExit: only a sandbox known to be gone condemns the allocation.
RecordExit(t, k) ==
    /\ \E s \in TaskState(sid(t)) :
           RunMove(t, k, "failed", IF s \in {"stopped", "lost"} THEN "verdict" ELSE "exit")
    /\ UNCHANGED <<smVars, ctrVars, pc, h, dead, envVars>>

\* As if a marker that cannot be written did not stop the cleanup.
Mutant_MarkerErrorIgnored(t, k) ==
    /\ \E ok \in Outcome("Marker") :
           /\ RunMove(t, k, "verdict", "markKill")
           /\ dead' = IF ok THEN dead \cup {AllocOf[t]} ELSE dead
    /\ UNCHANGED <<smVars, ctrVars, pc, h, envVars>>

\* markSandboxDead: write the marker, whose error is dropped, ...
WriteMarker(t, k) ==
    /\ \E ok \in Outcome("Marker") :
           /\ RunMove(t, k, "verdict", IF ok THEN "markKill" ELSE "exit")
           /\ dead' = IF ok THEN dead \cup {AllocOf[t]} ELSE dead
    /\ UNCHANGED <<smVars, ctrVars, pc, h, envVars>>

\* ... then dismantle whatever has the sandbox's ID, without the mutex.  The
\* processes that still carry the ID are ended last (OrphanCleanup models how);
\* should a VM run under it by then, that is its end.
MarkCleanup(t, k) ==
    /\ \/ RunMove(t, k, "markKill", "markDeleteTask") /\ KillTask(sid(t))
       \/ RunMove(t, k, "markDeleteTask", "markDeleteContainer") /\ DeleteTask(sid(t))
       \/ RunMove(t, k, "markDeleteContainer", "markDeleteMeta") /\ DeleteContainer(sid(t))
       \/ RunMove(t, k, "markDeleteMeta", "markProcesses") /\ DeleteSandboxMetadata(sid(t))
       \/ RunMove(t, k, "markProcesses", "exit") /\ KillTask(sid(t))
    /\ UNCHANGED <<smVars, pc, h, dead, envVars>>

SetExit(t, k) ==
    /\ RunMove(t, k, "exit", Recorded(t, k))
    /\ UNCHANGED <<smVars, ctrVars, pc, h, dead, envVars>>

HandleStep(t, k) ==
    \/ Run(t, k) \/ WaitFails(t, k) \/ MonitorRecovered(t, k) \/ RecordExit(t, k)
    \/ WriteMarker(t, k) \/ MarkCleanup(t, k) \/ SetExit(t, k)

-----------------------------------------------------------------------------
(* StopTask and DestroyTask.                                               *)

\* The first signal may or may not make the task exit; it is SIGKILL when the
\* job says so, and when another signal cannot be delivered.
StopTask(t) ==
    /\ Move(t, "running", "stopping")
    /\ UNCHANGED ctrVars \/ KillTask(cid(t))
    /\ UNCHANGED <<smVars, handleVars, dead, envVars>>

\* The exit is recorded, or the timeout expires and the task is killed.
StopReturns(t) ==
    /\ Move(t, "stopping", "stopped")
    /\ \/ Exited(t) /\ UNCHANGED ctrVars
       \/ KillTask(cid(t))
    /\ UNCHANGED <<smVars, handleVars, dead, envVars>>

DestroyTask(t) ==
    /\ pc[t] \in {"running", "stopped"}
    /\ IF Exited(t) THEN Move(t, pc[t], "destroyTask") /\ UNCHANGED ctrVars
                    ELSE Move(t, pc[t], "awaitKill") /\ KillTask(cid(t))
    /\ UNCHANGED <<smVars, handleVars, dead, envVars>>

\* As if the forced destroy went on right after the kill.
Mutant_NoAwait(t) ==
    /\ Move(t, "awaitKill", "destroyTask")
    /\ UNCHANGED <<smVars, ctrVars, handleVars, dead, envVars>>

\* As if it waited for the exit however long it takes.
Mutant_AwaitForever(t) ==
    /\ Move(t, "awaitKill", "destroyTask")
    /\ Exited(t)
    /\ UNCHANGED <<smVars, ctrVars, handleVars, dead, envVars>>

\* Wait for the exit to be recorded, five seconds at most.
AwaitKill(t) ==
    /\ Move(t, "awaitKill", "destroyTask")
    /\ Exited(t) \/ KillTimeouts
    /\ UNCHANGED <<smVars, ctrVars, handleVars, dead, envVars>>

\* As if the container were deleted before its task.
Mutant_ContainerFirst(t) ==
    /\ \/ Move(t, "destroyTask", "destroyContainer") /\ DeleteContainer(cid(t)) /\ UNCHANGED smVars
       \/ Move(t, "destroyContainer", "release") /\ DeleteTask(cid(t)) /\ ReleaseCall(t)
    /\ UNCHANGED <<handleVars, dead, envVars>>

DestroyContainer(t) ==
    /\ \/ Move(t, "destroyTask", "destroyContainer") /\ DeleteTask(cid(t)) /\ UNCHANGED smVars
       \/ Move(t, "destroyContainer", "release") /\ DeleteContainer(cid(t)) /\ ReleaseCall(t)
    /\ UNCHANGED <<handleVars, dead, envVars>>

\* As if the teardown forgot the sandbox's container.
Mutant_ContainerForgotten(t) ==
    /\ pc[t] = "release"
    /\ \/ (ReleaseShared(t) \/ ReleaseLast(t)) /\ UNCHANGED ctrVars
       \/ KillPause(t) /\ KillTask(sid(t))
       \/ DeletePauseTask(t) /\ DeleteTask(sid(t))
       \/ DeletePauseContainer(t) /\ UNCHANGED ctrVars
       \/ DeleteMeta(t) /\ DeleteSandboxMetadata(sid(t))
    /\ UNCHANGED driverVars

\* Release, each stage with its containerd call.
ReleaseSandbox(t) ==
    /\ pc[t] = "release"
    /\ \/ (ReleaseShared(t) \/ ReleaseLast(t)) /\ UNCHANGED ctrVars
       \/ KillPause(t) /\ KillTask(sid(t))
       \/ DeletePauseTask(t) /\ DeleteTask(sid(t))
       \/ DeletePauseContainer(t) /\ DeleteContainer(sid(t))
       \/ DeleteMeta(t) /\ DeleteSandboxMetadata(sid(t))
    /\ UNCHANGED driverVars

\* tasks.Delete and return; a goroutine still at work goes on without it.
Return(t) ==
    /\ Move(t, "release", "idle")
    /\ call[t] = "out"
    /\ h' = [h EXCEPT ![t] = 0]
    /\ run' = [run EXCEPT ![t] = [k \in Slots |->
                  IF k = h[t] /\ run[t][k] = "done" THEN "none" ELSE run[t][k]]]
    /\ UNCHANGED <<smVars, ctrVars, dead, envVars>>

-----------------------------------------------------------------------------
(* RecoverTask, after a crash of the plugin process.                       *)

\* Only a task that still runs is recovered.
RecoverTask(t) ==
    /\ \E s \in TaskState(cid(t)) :
           Move(t, "lost", IF s = "running" THEN "recover" ELSE "idle")
    /\ UNCHANGED <<smVars, ctrVars, handleVars, dead, envVars>>

Reattach(t) ==
    /\ Move(t, "recover", "running")
    /\ Recover(t)
    /\ NewHandle(t, "reopen")
    /\ UNCHANGED <<ctrVars, dead, envVars>>

\* The plugin process dies and is restarted: containers, VMs and markers
\* survive; Nomad tries to recover the tasks it has a handle of.
Crash ==
    /\ crashes < MaxCrashes
    /\ crashes' = crashes + 1
    /\ SMCrash
    /\ pc' = [t \in Callers |-> IF pc[t] \in {"running", "stopping", "stopped", "lost", "recover"}
                                THEN "lost" ELSE "idle"]
    /\ h' = [t \in Callers |-> 0]
    /\ run' = [t \in Callers |-> [k \in Slots |-> "none"]]
    /\ unseen' = {}
    /\ UNCHANGED <<ctrVars, dead, died, starts>>

-----------------------------------------------------------------------------
(* The containers and the VM, outside the driver.                          *)

\* There is nothing to see of a container that has ended.
StillUnseen == {t \in unseen : task'[cid(t)] \in Alive}

\* A container exits by itself, well or badly, or dies of a kill.
TaskExits(t) ==
    /\ task[cid(t)] \in Alive
    /\ \A a \in Allocs : cid(t) # SandboxID[a]
    /\ task' = [task EXCEPT ![cid(t)] = "stopped"]
    /\ \E seen \in IF task[cid(t)] = "running" THEN {"exit", "failed"} ELSE {"failed"} :
           run' = [run EXCEPT ![t] = [k \in Slots |->
                      IF run[t][k] = "wait" THEN seen ELSE run[t][k]]]
    /\ unseen' = StillUnseen
    /\ UNCHANGED <<smVars, containers, meta, refusals, pc, h, dead, died, starts, crashes>>

\* A VM goes down: its task ends up as s, its containers stop with it.
VMDown(a, s) ==
    /\ task' = [id \in Ids |->
                  IF id = SandboxID[a] THEN s
                  ELSE IF task[id] \in Alive /\ \E t \in Callers : AllocOf[t] = a /\ cid(t) = id
                       THEN "stopped" ELSE task[id]]
    /\ run' = [t \in Callers |-> [k \in Slots |->
                  IF AllocOf[t] = a /\ run[t][k] = "wait" THEN "failed" ELSE run[t][k]]]
    /\ unseen' = StillUnseen
    /\ UNCHANGED <<smVars, containers, meta, refusals, pc, h, dead, starts, crashes>>

\* The driver killed it.
VMExits(a) == task[SandboxID[a]] = "dying" /\ VMDown(a, "stopped") /\ UNCHANGED died

\* QEMU, the shim or the agent is lost.
VMDies(a) ==
    /\ task[SandboxID[a]] = "running"
    /\ a \in Lossy \ died
    /\ died' = died \cup {a}
    /\ VMDown(a, "dead")

\* Every task has used up its starts and nothing is in progress.
Quiescent ==
    /\ \A t \in Callers :
           /\ pc[t] = "idle" /\ starts[t] = MaxStarts[t]
           /\ \A k \in Slots : run[t][k] = "none"
    /\ UNCHANGED vars

-----------------------------------------------------------------------------
\* Steps of a driver call in progress: they go on until the call returns.
CallInProgress(t) ==
    \/ CleanupContainer(t) \/ Acquire(t) \/ StartFails(t) \/ CreateTask(t) \/ Launch(t)
    \/ StopReturns(t) \/ AwaitKill(t) \/ DestroyContainer(t) \/ ReleaseSandbox(t) \/ Return(t)
    \/ Reattach(t)

Next ==
    \/ \E t \in Callers :
           \/ StartTask(t) \/ StopTask(t) \/ DestroyTask(t) \/ RecoverTask(t)
           \/ CallInProgress(t)
           \/ \E k \in Slots : HandleStep(t, k)
           \/ TaskExits(t)
    \/ \E a \in Allocs : VMExits(a) \/ VMDies(a)
    \/ Crash
    \/ Quiescent

Spec == Init /\ [][Next]_vars

\* The plugin's goroutines are scheduled, containerd answers, a killed process
\* exits, and sync.Mutex passes nobody over for ever.  A call in progress that
\* pulls the pause image is taken to come to an end too, although nothing limits
\* that pull (sandbox.go:54).  Nomad need not call, nothing has to exit or die
\* by itself, and no wait has to fail.
Fairness ==
    /\ \A t \in Callers :
           /\ WF_vars(CallInProgress(t))
           /\ SF_vars(TakeLock(t) /\ (Acquire(t) \/ ReleaseSandbox(t)))
           /\ \A k \in Slots : WF_vars(HandleStep(t, k) /\ run[t][k] # "wait")
           /\ WF_vars(task[cid(t)] = "dying" /\ TaskExits(t))
    /\ \A a \in Allocs : WF_vars(VMExits(a))

FairSpec == Spec /\ Fairness

-----------------------------------------------------------------------------
(* Properties.                                                             *)

\* No container, and no second sandbox, has the ID of a sandbox.
DistinctIds ==
    /\ \A t \in Callers, a \in Allocs : ContainerID[t] # SandboxID[a]
    /\ \A a, b \in Allocs : SandboxID[a] = SandboxID[b] => a = b

Mates(a) == {t \in Callers : AllocOf[t] = a}

\* The driver kills a healthy VM only when no task holds it, unless the
\* allocation is condemned: not in the cleanup before a start, not in a stop or
\* a destroy, not while a sibling comes in, whatever was lost in a crash.
KillsOnlyReleasedVM ==
    [][\A a \in Allocs :
          task[SandboxID[a]] = "running" /\ task'[SandboxID[a]] = "dying"
          => a \in dead \/ Holders(a) = {}]_vars

\* As long as kills are seen to take effect and the plugin lives, no container
\* that the driver has in sight runs in that VM either: the teardown cuts off
\* nobody but a task whose wait failed.
KillsOnlyIdleVM ==
    [][\A a \in Allocs :
          task[SandboxID[a]] = "running" /\ task'[SandboxID[a]] = "dying"
          => \/ a \in dead
             \/ /\ Holders(a) = {}
                /\ \A t \in Mates(a) : task[cid(t)] = "running" => t \in unseen]_vars

\* markSandboxDead dismantles nothing before the marker is on disk, so a crash
\* in between never leaves a dismantled sandbox that a restart boots again.
MarkerFirst ==
    \A t \in Callers, k \in Slots :
        run[t][k] \in Marking \ {"verdict"} => AllocOf[t] \in dead

\* Every handle in the task store is backed by a reference that the manager
\* has counted, and its allocation by an entry: no Release is ever unmatched.
HandleIsCounted ==
    \A t \in Callers : h[t] # 0 /\ pc[t] # "release" =>
        call[t] = "in" /\ AllocOf[t] \in sandboxes /\ refCount[AllocOf[t]] > 0

\* As long as kills take effect at once and no cleanup call fails, a boot never
\* finds a sandbox container that an earlier attempt left behind.
BootsOnCleanSlate ==
    \A t \in Callers : call[t] = "create" => sid(t) \notin containers

\* Whatever kills and cleanups do, a boot finds no leftover but a container whose
\* delete was refused or failed: none that an earlier attempt forgot.
BootsMeetOnlyRefused ==
    \A t \in Callers : call[t] = "create" /\ sid(t) \in containers => sid(t) \in refused

\* A task is not started again before the verdict on its previous run is in:
\* the goroutine of that run has finished with the sandbox.
VerdictBeforeRestart ==
    [][\A t \in Callers : pc[t] = "idle" /\ pc'[t] = "kill"
          => \A k \in Slots : run[t][k] \notin {"failed", "exit"} \cup Marking]_vars

\* Only an allocation whose VM was really lost is condemned: exits, restarts
\* and teardowns of healthy tasks never look like a dead sandbox, as long as the
\* connection to containerd does not close under the question.
OnlyLostVMsCondemned == dead \subseteq died

\* A reported exit is an exit, says handle.go: the container of a finished handle
\* is not running.
ExitMeansStopped ==
    \A t \in Callers : h[t] # 0 /\ Exited(t) => task[cid(t)] # "running"

\* The exit that is reported was seen, unless the wait or the attaching failed:
\* no other way leads from a container that runs to a finished handle, over
\* restarts, losses of the VM and goroutines of forgotten handles.
ExitWasSeen ==
    \A t \in Callers : h[t] # 0 /\ Exited(t) /\ task[cid(t)] \in Alive => t \in unseen

\* When all tasks of an allocation are gone nothing is left of its sandbox, as
\* long as kills take effect at once and no cleanup call fails.
Idle(a) == \A t \in Mates(a) :
               pc[t] = "idle" /\ \A k \in Slots : run[t][k] = "none"
NothingLeft ==
    \A a \in Allocs : Idle(a) => SandboxID[a] \notin containers \cup meta

\* Whatever kills and cleanups do, nothing is left but what a delete was refused
\* or failed for: every container and every record had its delete.
OnlyRefusedLeft ==
    \A a \in Allocs : Idle(a) =>
        /\ SandboxID[a] \in containers => SandboxID[a] \in refused
        /\ SandboxID[a] \in meta => SandboxID[a] \in refusedMeta

\* Nothing is left of the container of a task either, whatever became of its
\* start, its run or its VM, unless its delete was refused.
ContainersRemoved ==
    \A t \in Callers : pc[t] = "idle" /\ cid(t) \in containers => cid(t) \in refused

\* No VM is booted in a condemned allocation.
NeverRebooted ==
    [][\A a \in dead : task[SandboxID[a]] # "running" => task'[SandboxID[a]] # "running"]_vars

\* Once the VM of a condemned allocation is down and no start is under way that
\* may have looked before the marker was there, ...
Condemned(a) ==
    /\ a \in dead
    /\ task[SandboxID[a]] # "running"
    /\ \A t \in Mates(a) : pc[t] \notin {"kill", "deleteTask", "deleteContainer", "acquire"}

\* ... the allocation stays so for good, over restarts, crashes and recoveries,
\* and no container of it starts any more.
CondemnedForGood ==
    [][\A a \in Allocs : Condemned(a) =>
          /\ Condemned(a)'
          /\ \A t \in Mates(a) : task'[cid(t)] \in Alive => task[cid(t)] \in Alive]_vars

\* A failure of a task in a VM that was lost condemns the allocation.
LossIsNoticed ==
    \A a \in Allocs :
        (task[SandboxID[a]] = "dead"
            /\ \E t \in Mates(a) : \E k \in Slots : run[t][k] \in {"open", "failed"})
        ~> a \in dead

\* StartTask, StopTask and DestroyTask return.
DriverCallsReturn ==
    \A t \in Callers :
        pc[t] \notin {"idle", "running", "stopped", "lost"}
        ~> pc[t] \in {"idle", "running", "stopped", "lost"}
-----------------------------------------------------------------------------
(* What Nomad is told of a task.                                           *)

Told(t) ==
    IF pc[t] \in {"lost", "recover"} THEN "lost"
    ELSE IF h[t] = 0 THEN "absent"
    ELSE CASE run[t][h[t]] = "open"   -> "starting"
           [] run[t][h[t]] = "reopen" -> "recovered"
           [] run[t][h[t]] = "done"   -> "exited"
           [] OTHER                   -> "running"

ToldOfAll == [t \in Callers |-> Told(t)]
LiveTasks == {t \in Callers : task[cid(t)] \in Alive}

Contract == INSTANCE TaskContract WITH
    Tasks <- Callers,
    state <- ToldOfAll,
    live  <- LiveTasks

\* The driver, its containers, VMs and crashes together keep the contract of
\* every task: no start beside a container of an earlier run, no report before
\* the end but of a container lost sight of, no destroy before the report.
KeepsContract == Contract!Safety

\* And every exit is reported, as long as the plugin lives.
FulfilsContract == Contract!Spec
=============================================================================
