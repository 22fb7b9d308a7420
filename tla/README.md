# Verification of nomad-driver-kata

TLA+ models, TLC runs and TLAPS proofs for the Nomad task driver in `src/`,
which runs all tasks of an allocation in one shared Kata VM.

## The system

| Part | State | Operations | Talks to |
|---|---|---|---|
| `SandboxManager` (`kata/sandbox.go`) | map allocation -> sandbox, a reference count per sandbox, one mutex for all allocations | `GetOrCreate`, `Release`, `Recover` | containerd, always with the mutex held |
| `Driver` (`kata/driver.go`) | task store; a `sandbox-dead` marker file per allocation | `StartTask`, `StopTask`, `DestroyTask`, `RecoverTask`, `WaitTask`, ... | the manager, the handles, containerd |
| `taskHandle` (`kata/handle.go`) | exit result, `doneCh` | one goroutine: `run` or `monitorRecovered`, then `recordExit` | containerd; back into the driver through `onSandboxDead` |
| `containerdClient` (`kata/containerd.go`) | none; containerd keeps containers, tasks, sandbox records, images | one wrapper per RPC, `Cleanup`, `GarbageCollect` | containerd |
| orphan cleanup (`kata/orphan.go`) | pidfds of one call | `cleanupSandboxProcesses` | the host's processes |
| statistics (`kata/stats.go`) | the previous sample of a stream | `ResourceUsage`, `percent` | containerd metrics |
| configuration, fingerprint, DNS/hosts/mount/command helpers, credentials | none to speak of | pure functions and files | |

Nomad's task runners call the driver concurrently for different tasks and one
call at a time for each task. Each successful start adds a goroutine that
outlives the call, starts the container *after* `StartTask` has returned, waits
for the exit and, when the task failed, asks containerd about the sandbox; if it
is gone the goroutine writes the marker and dismantles the sandbox **without**
the manager's mutex. The plugin process may crash at any time; containers, VMs
and markers survive it and Nomad then recovers the tasks it has handles of.

What is hard about it:

- *sharing*: the last task that leaves tears the VM down while another may be
  on its way in; the count must be exact at every step, also when a boot fails
  half way, and after a crash;
- *verdicts*: one exit must not be taken for the loss of the VM, and the loss of
  the VM must be known before the next start;
- *exits that are not exits*: a wait for an exit that breaks off, or a recovered
  task that cannot be attached to, is recorded like an exit while the container
  runs on; the destroy then sends no SIGKILL and its deletes are refused;
- *marker and boot*: the marker is read once at the start of `StartTask` and
  written by somebody else's goroutine;
- *kills are asynchronous*, deletes of running things are refused, and the
  errors of a cleanup are dropped;
- *timeouts*: `DestroyTask` goes on after five seconds whatever happened;
- *crashes* in the middle of a boot, a teardown, a cleanup or a start;
- *processes* are matched by their command line, then addressed by pidfd, with
  one deadline for all of them;
- *images* are listed after the containers and deleted by name, while starts
  pull and use them;
- *handles* are looked up once by waiters and statistics streams, while the task
  ends, is destroyed and comes back under the same ID.

The hazards with their lines are in `PROJECT.json`.

## Modules

| Module | Models |
|---|---|
| `SharedSandbox` | what the manager promises: users join a VM in use or boot one, never one on its way out; idle VMs are torn down |
| `TaskContract` | what the driver promises Nomad of each task: one start per handle, never beside a container of an earlier run, an exit reported when the container has ended or the driver has lost sight of it, a handle given up after the report, and what a crash may forget |
| `SandboxManager` | `sandbox.go`: one action per mutex acquisition and per containerd call of `GetOrCreate` and `Release`, and `Recover`; containerd only succeeds or fails |
| `Containerd` | the client's operations over an abstract containerd: containers, the task of each, sandbox records |
| `KataDriver` | `driver.go` and `handle.go` over the two: extends both, and pairs each step of the manager with its containerd call |
| `OrphanCleanup` | `orphan.go`: what the last step of `markSandboxDead` does with the host's processes, by several goroutines at once |
| `TaskPreparation` | `driver.go` and `containerd.go`: what `StartTask` does between the sandbox and the handle, against the image GC |
| `HandleClients` | `driver.go`, `handle.go`, `stats.go`: `WaitTask`, `TaskStats` and what they are told of a handle |
| `SandboxManagerProofs`, `KataDriverProofs`, `KataDriverVerdictProofs`, `KataDriverExitProofs`, `KataDriverTeardownProofs`, `OrphanCleanupProofs`, `TaskPreparationProofs`, `HandleClientsProofs` | the theorems |
| `MCSandboxManager`, `MCKataDriver`, `MCOrphanCleanup`, `MCTaskPreparation`, `MCHandleClients` | instances for TLC |

The last three models stand beside `KataDriver`, not inside it. `OrphanCleanup`
and `TaskPreparation` each open a step that is one action there (`markProcesses`,
`CreateTask`), over state that `KataDriver` does not have; `HandleClients` adds
those who read a handle, which change nothing for its writers.

### State

`SandboxManager`: `mu` is the owner of the mutex, `sandboxes` the keys of the
map, `refCount` the counts, `call[c]` the place of caller `c` inside the manager
(`out`, `lookup`, the stages of a boot, `in` = it was handed the sandbox,
`release`, the stages of a teardown). A caller is a task: the driver calls the
manager from one goroutine per task at a time.

`Containerd`: `containers`, `task[id]` in none/running/dying/stopped/dead, and
`meta`. `dying` is a task that was sent SIGKILL and whose exit is not recorded
yet; `dead` is a sandbox whose VM or shim is gone, so that asking about it ends
in a transport error. Creates of an existing ID, deletes of running tasks and of
containers with a task are refused, as containerd does. `Faults` names the calls
that may fail besides. `TaskState` may answer `unknown` (an error that is no
evidence, also a dead VM's answer in a text that `sandboxTransportFailed` does not
know) under the fault `TaskState`, and `lost` for any sandbox under the fault
`Transport` (a connection between driver and containerd that closes has one of the
texts too). `refused` and `refusedMeta` remember the containers and records under
the IDs in `Watched` whose delete was refused or failed, until they are gone: the
driver drops these errors, only the properties read the history.

`KataDriver`: `pc[t]` is where the task's runner stands, `h[t]` the slot of its
handle in the task store, `run[t][k]` the goroutine of the handle in slot `k`
(a slot stays taken while a goroutine outlives its handle), `dead` the markers.
`died` remembers the allocations whose VM the environment lost, `unseen` the tasks
whose container runs on although the wait for its exit, or the attaching after a
crash, has failed. Under the fault `Wait` the wait may fail at any time
(`WaitFails`: `RunTask`'s and `MonitorTask`'s wait and exit stream,
`containerd.go:406-408` and `429-431`), and so may the attaching (`MonitorTask`:
its `LoadContainer`, attach and `task.Wait`, `containerd.go:419-427`); either is
recorded like a failed exit (`handle.go:50`, `72`), verdict included.

`TaskContract` has three variables: what Nomad was told of each task, the tasks
whose container has not ended, and those of them the driver has lost sight of. `KataDriver` maps them (`Contract`): a task whose
goroutine has yet to start the container is `starting`, one whose goroutine is
done is `exited`, a handle that was recovered and not looked at is `recovered`,
everything else with a handle is `running`; `live` are the containers that run or
are dying; `unseen` is the driver's own. A wait that breaks off is the contract's
`Lose`, and only a container lost sight of may be reported as exited while it runs;
`Attach` has the same two outcomes for a recovered task, whose log files may not
open besides (`recovery_logs`).

`OrphanCleanup`: `phase[c]` is the loop that call `c` is in, `todo` what the loop
has yet to visit, `found` the matches, `handle` its pidfds (`exited` is one that
polls readable). `proc[p]` is who has ID `p`, `sig[p]` the most the driver did to
that process; `due` is a SIGTERM whose three seconds are over, and `present[c]` the
processes of the sandbox that have been there since the call began: histories that
only the properties read. A pidfd names the process it was opened for: after an
exit its ID may go to somebody else, its pidfd does not.

`TaskPreparation`: `image[i]` is absent, `fresh` or `old`, that is younger or
older than `gc_image_delay`; `stage[t]` the step of `StartTask`; `resolv[t]` the
nameserver and search lines written for the task; `bootstrap[t]` the clusters in
Envoy's file, `Torn` between truncation and write; `gc`, `used` and `victims` the
GC's place and the local variables of its loops. `fetched` remembers the tasks
whose start had to pull. `consulGRPCAddr` is the address in the plugin's
configuration, chosen once: unset, good, or with a port that is no number, which
`SetConfig` takes and `rewriteEnvoyBootstrap` refuses.

`HandleClients`: handles are numbered in the order of the starts; `stored` is the
one in the task store, `exit` and `doneCh` are theirs. `wait[w]` is one call of
`WaitTask`: where its goroutine is, its handle, its context and whether somebody
still reads its channel. `cpu` is the cgroup's counter, which a restart resets;
`sample` and `previous` are the stream's two readings, with the time of the
reading and the timestamp the driver gave it.

### Abstractions

- Names, images, configurations, signals and log contents are left out.
  In `KataDriver` the helpers of `StartTask` that compute DNS, mounts, commands and
  environment, and the pull of the task's image, are one step that succeeds or
  fails (`CreateTask`, fault `Prepare`); `TaskPreparation` takes the pull, DNS and
  bootstrap one by one.
- A start of a task that fails leaves no task behind: the delete with which
  `RunTask` undoes it (`containerd.go:397`, `402`) is taken to succeed.
- A boot's or a teardown's containerd calls are single steps; everything else
  may happen between two of them.
- In `KataDriver` `setExit` and the closing of `doneCh` right after it are one
  step; `HandleClients` has two.
- A lost VM stops its containers in the same step; their goroutines react in
  steps of their own. A VM is lost at most once per allocation.
- In `KataDriver` `cleanupSandboxProcesses` is one step that kills a VM which runs
  under the sandbox's ID by then; `OrphanCleanup` takes its steps one by one.
- `OrphanCleanup`: a process is the sandbox's or somebody else's; how the command
  lines of QEMU, virtiofsd and the shim tell is left out. An unreadable process is
  one that has exited.
- `TaskPreparation`: hosts file, mounts, devices, ports, environment and command
  are left out. A line of a `resolv.conf` is a nameserver or the search list, a
  cluster of the bootstrap its name, the spelling of its keys and the kind of its
  address. Nomad does not write the bootstrap anew between two starts, and the
  plugin's configuration stays the same over a crash.
- `HandleClients`: a container runs on one processor at most, and `cpu` and `now`
  count the same units. One stream at a time; a second one would share nothing
  with it but the counter. The clock does not jump.
- After a crash, starts and destroys in flight are given up; the runners that
  have a handle call `RecoverTask`.
- `DestroyTask` is always forced, as Nomad's task runner does. `SetDriverState`
  on a plain struct is taken not to fail.
- The reference count is a natural number (`int32` in the code: out of reach).

## Runs

The `driver_` runs, and those of the second table, have two tasks in one
allocation.

| Run | Shows | Bounds |
|---|---|---|
| `manager` | types, exact counts, entries, exclusive critical sections; every call returns; the manager implements `SharedSandbox!Spec` | 3 + 2 tasks of two allocations, any number of calls and crashes |
| `driver_core` | no false verdict, no exit reported unseen unless its wait failed, complete teardowns, clean boots, no container left of a task that is gone but one whose delete was refused, no kill of a VM with running containers in sight; a failure in a lost VM condemns the allocation; the driver implements `TaskContract!Spec`, liveness included | 2 starts per task, failing starts, failing waits, one VM loss, prompt kills |
| `driver_crash` | handles are counted, marker before cleanup, only released VMs are killed, no restart before the verdict, a condemned allocation that is down stays so; every step keeps `TaskContract!Safety` | 2 starts per task, 1 crash, asynchronous kills, faults of logs, marker, waits, attaching, `TaskState` and its texts |
| `driver_timeouts` | nothing stays of a sandbox, and no boot finds anything, but what a delete was refused or failed for | asynchronous kills, `DestroyTask` may give up waiting; one task restarts, 2 handles per task, no VM loss |
| `driver_returns` | `StartTask`, `StopTask`, `DestroyTask` return, also when a timeout meets the loss of the VM | 1 start per task, timeouts, failing kills and status calls |
| `orphans` | only the sandbox's processes are signalled; SIGKILL only three seconds after SIGTERM; success spares nobody who was there when the call began; every cleanup returns | 2 cleanups at once, 2 process IDs that are reused without end, all system calls failing |
| `preparation` | a pulled image stays until its container goes; proxies and resolvers get whole files, the bootstrap rewritten exactly when there is an address of Consul; old unused images go; every start ends | 2 tasks, 2 images, any number of starts and GC rounds, 1 crash, the address unset, good or bad |
| `clients` | waiters get the exit of their own run and are answered; CPU percentages are possible; streams end | 1 waiter at a time, 1 stream, 2 starts, 2 exit codes, 2 units of time |

Two tasks suffice for every interaction of the driver: one joins, boots or fails
while the other leaves, dismantles, condemns or recovers; the manager alone is
run with three tasks of one allocation and two of another, so that a third waits
for the mutex and the other allocation competes for it. Two starts per task are a
restart after the teardown and one while a sibling keeps the VM. With
`NumSlots = 2` the goroutine of a forgotten handle meets the next start; with 1
the bound cannot cut anything off where the wait does not time out, because a
handle is only forgotten after its goroutine is done.

Two cleanups with two IDs have every pair that matters: both signal the same
process, one kills what the other waits for, the second process of a row finds
the deadline over, an ID goes to a stranger or to a new process of the sandbox.
Two tasks that share an image let one start pull while another uses the image or
leaves it, with `force_pull` and without; the second image is one that containerd
refuses to delete. `HostFiles` has a stub resolver beside a real file, and a
machine with nothing else; `Bootstrap` has the local agent in the second spelling
and a cluster that must stay. With one waiter at a time the calls still span both
runs; waiters share no state. Two units of time are a late report and an interval
after it, and a counter that has advanced before it is reset.

A delete is refused in `driver_core` when a wait has failed, and in
`driver_timeouts` whenever a kill takes its time or comes before the start it was
meant for; what is left when deletes and kills fail for reasons of containerd's
own is said by the theorems, which take any `Faults`, and by no run.

Assumptions that a run makes are constants: `PromptExit` (a SIGKILL takes effect
before the next `DeleteTask` of that ID: of the passing runs `driver_core` and
`driver_returns` only, and no theorem), `KillTimeouts = FALSE` (the five
seconds suffice), `Faults` (of which `OnlyLostVMsCondemned` excludes `Transport`),
`MaxCrashes = 0`, `Lossy` (the allocations whose VM
may be lost), `QuickReuse = FALSE` (a stranger does not get
the ID of a matched process before it is opened), `SlowRounds = FALSE` (neither a
start that pulls nor the two lists of a GC round take longer than
`gc_image_delay`) and no fault `ContainerImage` (the images of containers can be
looked up). Where the code departs from what is said of it is a run of its own:

| Run | What the code does | What is said |
|---|---|---|
| `condemned_reboot` | a start that read the marker early boots a VM in a condemned allocation | `README.md:29` never recreates a VM under the same ID |
| `late_start` | a task destroyed before its goroutine started the container condemns a healthy allocation | `README.md:24` *confirmed* sandbox death |
| `async_kill` | a teardown that overtakes the exit leaves the sandbox's container | `README.md:60` torn down when all tasks exit |
| `recovery_logs` | unopenable logs after a recovery report exit code 0 of a running task | `handle.go:54` blocks until the exit |

### Read off the code without a run

- After a crash, siblings that were not recovered are not counted and lose their
  VM to the last counted task (`sandbox.go:115`; `README.md:15`: siblings keep
  running). `KillsOnlyIdleVM` is therefore checked without crashes.
- A sandbox cut short by a crash, or whose deletes were refused, blocks every
  later boot of the allocation: nothing cleans up the sandbox's ID before a boot
  (`sandbox.go:58`), although `driver.go:309` does so for the task's. Hence
  `BootsMeetOnlyRefused` without crashes, and `BootsOnCleanSlate` with prompt kills.
- A wait for an exit that breaks off (`containerd.go:406-408`, `429-431`) and an
  attach that fails after a crash (`containerd.go:419-427`) are recorded as an exit
  while the container runs (`handle.go:50`, `72`). Nomad takes the task for
  finished; its destroy sends no SIGKILL (`driver.go:585`), both deletes are refused
  (`driver.go:592`), and the last `Release` kills the VM around the container. So
  `ExitWasSeen`, `KillsOnlyIdleVM`, `ContainersRemoved` and the contract except
  exactly the tasks in `unseen` or the containers in `refused`.
- `sandboxTransportFailed` (`handle.go:86-91`) goes by words in the error: a closing
  connection between driver and containerd has the same ones, so that a healthy
  allocation may be condemned, and another text for the end of a VM leaves it
  uncondemned. `OnlyLostVMsCondemned` and `LossIsNoticed` are therefore checked
  without the faults `Transport` and `TaskState`.
- When `DestroyTask` gives up waiting, its kill may have come before the goroutine
  starts the container, even between the delete of the task, which then finds none,
  and that of the container, which is refused: the container runs on until the
  task's next start cleans up its ID. `ContainersRemoved`, which excuses a container
  only when the delete of its task was refused or a delete failed, is therefore
  checked and proved where the five seconds suffice.
- A task called `sandbox` has the container ID of the shared VM (`driver.go:307`,
  `sandbox.go:36`), so its cleanup before the start kills the VM; every instance
  has `DistinctIds`.
- The pull of the pause image (`sandbox.go:54`) has no deadline although the
  global mutex is held, while the task image's pull has one (`driver.go:329`).
- Between the match in `/proc` and `pidfd_open` (`orphan.go:129`) an ID may go to
  a stranger, who is then signalled: nothing matches the process again.
- An interrupted poll (`orphan.go:153`) ends a cleanup, and a failed open
  (`orphan.go:134`) leaks the pidfds opened so far.
- A container whose image cannot be looked up counts as using none
  (`containerd.go:621`), so the GC may delete an image in use. An old image that
  `EnsureImage` found present may go before `CreateContainer` looks it up. And the
  default `image_pull_timeout` exceeds the default `gc_image_delay`: a start can
  outlast the protection of the image it has pulled.
- Where `consul_grpc_addr` is set, a bootstrap that is cut short by a crash or a
  full disk fails every later start of its proxy (`driver.go:976`):
  `EnvoyReachesConsul` holds because of that.
- Without `consul_grpc_addr`, the default, the bootstrap is neither read nor
  rewritten (`driver.go:403`): Envoy starts with the Unix socket of the local agent,
  which a VM cannot reach. `EnvoyReachesConsul` says for that case that the file is
  as Nomad wrote it.
- A sample's timestamp is taken after the reply (`stats.go:43`), so the interval
  after a late reply is too short and its percentage too high;
  `UsageIsPossible` allows for exactly that.
- The goroutine of `WaitTask` stays in its send for ever when the reader has left
  (`driver.go:537`): `WaitersAnswered` excepts it.
- `README.md:170` says that `command` overrides the entrypoint; `mergeCommand`
  always puts the image's entrypoint before it (`driver.go:879`).
- When `ExecTask`'s timeout expires it reports an unknown exit code and no error,
  and the process stays (`driver.go:667`).

### Fairness

Weak fairness for the steps of a call in progress and of a handle's goroutine
(the Go scheduler, and a containerd that answers) and for the exit of a killed
container or VM. Strong fairness for taking the mutex: `sync.Mutex` goes into
starvation mode after a millisecond and then serves waiters in order. Nothing
makes Nomad call, a task exit by itself, a VM die or the plugin crash.
`StopTask` and `AwaitKill` need no exit to go on: their timers fire.
A cleanup needs no exit either: a poll ends with the deadline. A process obeys
SIGKILL. A start needs no registry: the pull of the task's image fails at its
deadline, and its success is under no fairness. The GC's ticker ticks, and
containerd lists its images again and again (strong fairness, as the list may
fail in between). In `HandleClients` a run that has ended is recorded, a ready
select is taken, and a select with a cancelled context and a ready reader does
not pass over the context for ever (strong fairness: Go chooses at random).
The pull of the pause image has no timer in the code (`sandbox.go:54`): that the
registry answers is an assumption of its own in `SandboxManager`
(`RegistryAnswers`), and part of the fairness of a call in progress in
`KataDriver`, so that `DriverCallsReturn`, `LossIsNoticed` and `FulfilsContract`
assume it. No wait is made to fail: a goroutine that waits for an exit is under no
fairness.

## Proofs

`SandboxManagerProofs` proves, for every finite set of callers and every set of
allocations, the invariants of run `manager` and the ownership of the mutex
(`MutexHeld`) from the inductive invariant `SMInv`, their conjunction.
`RefCountExact` is not inductive by itself: that the step to a count of zero is
taken by the last holder needs the types and the mutex; that the entry dropped at
the end of a teardown had no new holder needs `CriticalIsAlone`, which in turn rests on `EntryIffUsed`. Each caller's step is
one of four shapes (quiet, join, leave, forget), each with a lemma, so every
action is discharged by naming its shape. `ManagerRefines` maps the steps the
same way: joins are `Acquire`, leaves are `Release`, the end of a teardown is
`Teardown`, a crash is `Forget`, everything else stutters.

`KataDriverProofs` shows that every step of the composition is a step of the
manager or leaves it alone (`DriverUsesManager`), so these theorems hold of the
driver as well, for any `Faults`, timeouts, slots and crashes. On top:
`RunnerMatchesCall` ties each runner's place to its call, which gives
`HandleIsCounted`; `MarkerFirst` is inductive with the types; and
`KillsOnlyReleasedVM` combines `CriticalIsAlone` (a teardown has no holders) with
`MarkerFirst` (a cleanup by ID has a marker). The last one assumes `DistinctIds`,
that no container has a sandbox's ID: a task named `sandbox` would.

`KataDriverVerdictProofs` goes on under `~KillTimeouts`: a goroutine then belongs
to the handle in the task store, and when the destroy is past its wait the
goroutine is done (`GoroutineOwned`). A runner without a handle has no goroutine
(`NoHandleNoGoroutine`), so a restart finds every verdict in:
`VerdictBeforeRestart`, with crashes and every fault. `OnlyLostVMsCondemned`
needs an induction over the VM as well. `VerdictInv` says that while a caller
holds the sandbox the VM runs, or was lost (`VMUp`), and that a goroutine in
`markSandboxDead` has a lost VM (`MarksLostVMs`). `VMUp` survives because
a running VM goes down by being lost or by being killed (`GoesDown`), and a kill
of the sandbox's ID comes from a teardown, which has no holders, or from
`markSandboxDead` (`KillStep`), whose VM is lost already. It needs `DistinctIds`,
no crash, as a recovered task may find a VM that is gone without being lost, and
no fault `Transport`, as a misread error condemns whatever it is about. Waits that
break off are among the faults: a failed task in a VM that runs condemns nothing.

`KataDriverExitProofs`, with distinct IDs: few steps start a container, create one
or bring a goroutine up (`StepAdds`, from what each action does to a container,
`Keeps`). Over crashes and under `~KillTimeouts` the goroutine of a task tells what
its container may be (`ContainersFit`): no task in it before the goroutine starts
one, nothing alive in it once the wait is over or the start has failed, unless the
driver has lost sight of it. `NextFits`
is the induction; after a crash there is no goroutine until `Reattach`, and that one
looks at the container first, or loses sight of it there and then. `ExitWasSeen` is
an instance, over crashes and every fault. From it every
step of the driver maps to a step of `TaskContract` or a stutter: `NextContract`,
with one lemma each for the runner's calls, their beginnings and the goroutine's
steps. That is `KeepsContract`, with every fault, lost VM and crash.
While the plugin lives, and whatever times out, a container that runs has a
goroutine that waits for it, or its wait has failed (`RunningIsAwaited`; a container
out of sight stays so until it ends, `UnseenKept`). With `GoroutineOwned` the
goroutine is the current handle's, so that the sandbox is held (`AwaitedIsHeld`) and,
with `KillStep`, no kill of a healthy VM meets a container in sight
(`KillsOnlyIdleVM`). Kills need not be prompt for any of this.

`KataDriverTeardownProofs`, without crashes, for kills prompt or not, for every
fault and whether or not `DestroyTask` gives up waiting: every container
and record under a sandbox's ID has an owner, a user of the sandbox or the call
that boots or dismantles it, or its delete was refused or failed (`ContainerOwned`,
`MetaOwned`). A step is one operation of containerd or the end of something
(`OneOperation`), a refusal is remembered until the object is gone (`RefusalStays`),
and an owner goes only when the object does, its delete was refused or
another user stays, which needs to know that nothing refuses a delete unnoticed: a
task of the sandbox has its container (`TaskHasContainer`), and
the stage of a boot or teardown tells whether the task is gone (`StageFits`). The
mutex keeps another call from starting one meanwhile, and `markSandboxDead`, which
does not take it, only ever removes (`Shrinks`). A boot excludes every other owner,
which is `BootsMeetOnlyRefused`; an idle allocation has none, which is
`OnlyRefusedLeft`. `SandboxesWatched` says that the refusals of the sandboxes' IDs
are remembered; it limits no behaviour.

The same module has three results on what stays behind a task. `ContainersRemoved`
(no crash, the five seconds suffice, any fault, kills prompt or not, waits that break
off): `RemovedInv` says where a runner stands without a container, and a destroy
goes on to the container when the task is deleted or was refused to be
(`TaskDeleted`); `TasksWatched` is `SandboxesWatched` for the tasks' IDs.
`CondemnedForGood`
needs only distinct IDs: a VM is booted by a start on its way (`BootedByStart`),
a start begins only without the marker (`BeginsAlive`), the marker is never removed
(`MarkerWritten`). `NeverRebooted`, which `condemned_reboot` refutes for two tasks,
holds when every allocation has one and the five seconds suffice: then the goroutine
that writes the marker and a start of the allocation would be the same task's, and
`GoroutineOwned` excludes that.

`OrphanCleanupProofs`: `OnlySandboxProcesses` rests on two facts about all calls
at once: an open pidfd stands for a process of the sandbox (`HandlesOfSandbox`)
and so does a matched ID that somebody has (`MatchedAreOurs`); the second is where
`~QuickReuse` is needed. `NoneSpared` needs `NotOverlooked`, that the match and the
opening pass over nobody who was there from the beginning, and `VisitedAreDone`:
what the last loop has passed has exited or been killed. `KillsOnlyOverdue` needs
`AllWarned`: behind the loop of SIGTERMs every process with an open pidfd has been
sent one, and when the deadline of a call is over so are the three seconds of each
of them. Another call's signals only add to that (`SignalsGrow`).

`TaskPreparationProofs`: `FetchedStays` from an invariant that relates the GC's
place to the age of the image: an image in use is in `used` after the first list
or is still fresh, and neither is among the victims. It assumes `~SlowRounds` and
that the images of containers can be looked up. `EnvoyReachesConsul` from the
content of the file at each stage, for an address that is set and for none; it
needs neither. `NamesResolve` because only
`writeResolvConf` touches the file and `hostResolvConf` returns something that
resolves for every list of host files (`HostResolves`): the first with a real
nameserver, which exists because `<` on the positions is well-founded, or the default.

`HandleClientsProofs`: `AnswersAreTrue` from *a closed `doneCh` has a result*, for
any waiters, runs and codes; `UsageIsPossible` from bounds that tie both readings
to the counter and the clock, which hold across restarts because a counter that
went back counts nothing.

Assumed, all about constants: `CallersAssumption` (finitely many callers,
`Nobody` is none of them), `AllocOfAssumption`, `IdsAssumption`,
`BoundsAssumption`; `PidsAssumption`, `ReuseAssumption`; `ImageAssumption`,
`BootstrapAssumption`, `FilesAssumption`, `CrashAssumption`; `BoundsAssumption` and
`CodesAssumption` of `HandleClients`. What a theorem needs besides is in its
`ASSUME`.

Only model-checked: liveness, which is out of the prover's reach (`CallsReturn`,
the liveness of `SharedSandbox!Spec` and of `TaskContract!Spec` (`FulfilsContract`;
its safety is `KeepsContract`), `LossIsNoticed`, `DriverCallsReturn`,
`CleanupReturns`, `WaitersAnswered`, `StreamEnds`, `ImagesReclaimed`,
`PreparationReturns`); and `NothingLeft` and `BootsOnCleanSlate`, which rest on
`PromptExit` and on deletes that do not fail. The code gives neither (`async_kill`
refutes the first without it): the run shows that a boot's undo and a teardown are
complete when nothing gets in their way, and what holds when something does are the
theorems about `OnlyRefusedLeft` and `BootsMeetOnlyRefused`. Every other property of
a passing run is a theorem.

## Plan

Done: the shared sandbox, the manager, containerd, the task lifecycle with
handles, verdicts, markers, crashes and recovery; the orphan cleanup; the
preparation of a task and the image GC; waiters and statistics; the theorems
above, the contract of a task among them. What is left, in this order:

1. What a start may rely on when `DestroyTask` has given up waiting: a contract
   with an exit that is reported late.
2. The merging of commands, propagation options and port labels as operators
   against reference definitions.

## Not modelled

Exec, signals, inspection of images and task events: the driver keeps no state
for them. Schemas, defaults and the fingerprint: no state besides what
`SetConfig` installs once, before any task. Registry credentials: files and a
helper are read and the result is passed on. Hosts file, mounts, devices, ports
and the merging of commands and environment: pure formatting within one step of
`StartTask`. The decoding of the driver configuration, of metrics and of
protocol buffers: generated or library code. `main.go` and the Nix packaging.
A `DestroyTask` without force, which Nomad's task runner does not call, and an
error of `SetDriverState`. The path of the marker is a directory in which a task
named `sandbox-dead` would have its own; it is among the hazards.
