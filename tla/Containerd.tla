----------------------------- MODULE Containerd -----------------------------
(***************************************************************************)
(* kata/containerd.go and the containerd it talks to: the containers, the  *)
(* task of each and the sandbox records.  Every operation is one RPC       *)
(* wrapper of the driver; it outlives the plugin process.  A task is       *)
(*                                                                         *)
(*    none      there is no task                                           *)
(*    running                                                              *)
(*    dying     SIGKILL was delivered, the exit is not recorded yet        *)
(*    stopped   exited; its record is still there                          *)
(*    dead      of a sandbox: the VM and its shim are gone, every call     *)
(*              about it ends in a transport error                         *)
(***************************************************************************)
CONSTANTS Ids,        \* the container IDs
          Faults,     \* the calls that may fail at any time
          PromptExit, \* a kill takes effect before the next DeleteTask
          Watched     \* the IDs whose refused deletes are remembered, for the
                      \* properties that read them

VARIABLES containers,  \* IDs with a container
          task,        \* the task of each ID
          meta,        \* IDs with a record in the sandbox store
          refused,     \* history: containers that a refused or failed delete left
          refusedMeta  \* history: records that a failed delete left

refusals == <<refused, refusedMeta>>
ctrVars  == <<containers, task, meta, refused, refusedMeta>>

TaskStates == {"none", "running", "dying", "stopped", "dead"}
Alive      == {"running", "dying"}

CtrTypeOK ==
    /\ containers \in SUBSET Ids
    /\ task \in [Ids -> TaskStates]
    /\ meta \in SUBSET Ids
    /\ refused \in SUBSET Ids
    /\ refusedMeta \in SUBSET Ids

CtrInit ==
    /\ containers = {}
    /\ task = [id \in Ids |-> "none"]
    /\ meta = {}
    /\ refused = {}
    /\ refusedMeta = {}

Outcome(rpc) == IF rpc \in Faults THEN BOOLEAN ELSE {TRUE}

\* A second container of the same ID is refused (AlreadyExists).
CreateResults(id) ==
    IF id \in containers THEN {FALSE} ELSE Outcome("CreateContainer")

CreateContainer(id, ok) ==
    /\ containers' = IF ok THEN containers \cup {id} ELSE containers
    /\ UNCHANGED <<task, meta, refusals>>

\* A container can only start the one task it has.
StartResults(id) ==
    IF id \in containers /\ task[id] = "none" THEN Outcome("StartTask") ELSE {FALSE}

StartTaskDetached(id, ok) ==
    /\ task' = IF ok THEN [task EXCEPT ![id] = "running"] ELSE task
    /\ UNCHANGED <<containers, meta, refusals>>

\* SIGKILL is asynchronous: the task still runs when the call returns.
KillTask(id) ==
    /\ \E ok \in Outcome("KillTask") :
           task' = IF ok /\ task[id] = "running"
                   THEN [task EXCEPT ![id] = "dying"] ELSE task
    /\ UNCHANGED <<containers, meta, refusals>>

\* Refused while the task runs; then its container stays too.
DeleteTask(id) ==
    /\ PromptExit => task[id] # "dying"
    /\ \E ok \in Outcome("DeleteTask") :
           task' = IF ok /\ task[id] \notin Alive
                   THEN [task EXCEPT ![id] = "none"] ELSE task
    /\ refused' = IF task'[id] = "none" THEN refused ELSE refused \cup ({id} \cap Watched)
    /\ UNCHANGED <<containers, meta, refusedMeta>>

\* Refused while the container has a task.  Only a call that fails counts as a
\* refusal here: that a task was left behind is DeleteTask's to excuse.
DeleteContainer(id) ==
    /\ \E ok \in Outcome("DeleteContainer") :
           /\ containers' = IF ok /\ task[id] = "none" THEN containers \ {id} ELSE containers
           /\ refused' = containers' \cap (IF ok THEN refused ELSE refused \cup ({id} \cap Watched))
    /\ UNCHANGED <<task, meta, refusedMeta>>

\* An existing record is as good as a new one.
CreateSandboxMetadata(id, ok) ==
    /\ meta' = IF ok THEN meta \cup {id} ELSE meta
    /\ UNCHANGED <<containers, task, refusals>>

DeleteSandboxMetadata(id) ==
    /\ \E ok \in Outcome("DeleteSandboxMetadata") :
           /\ meta' = IF ok THEN meta \ {id} ELSE meta
           /\ refusedMeta' = meta' \cap (IF ok THEN refusedMeta ELSE refusedMeta \cup ({id} \cap Watched))
    /\ UNCHANGED <<containers, task, refused>>

\* What TaskState may report.  "unknown" is an error that is no evidence of
\* anything, and what a lost VM answers with too when its error has a text that
\* sandboxTransportFailed does not know; "lost" is an error whose text it takes
\* for the end of the VM, which a connection between driver and containerd that
\* closes has too.
TaskState(id) ==
    (IF "TaskState" \in Faults THEN {"unknown"} ELSE {})
    \cup (IF "Transport" \in Faults THEN {"lost"} ELSE {})
    \cup {CASE task[id] \in Alive -> "running"
            [] task[id] = "dead"  -> "lost"
            [] OTHER              -> "stopped"}
=============================================================================
