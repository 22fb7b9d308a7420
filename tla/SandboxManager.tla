--------------------------- MODULE SandboxManager ---------------------------
(***************************************************************************)
(* kata/sandbox.go: the registry of shared Kata VMs, one per allocation,   *)
(* with a reference count per VM and one process-wide mutex that is held   *)
(* across every containerd call of a boot and of a teardown.               *)
(*                                                                         *)
(* The definitions carry an SM prefix, or the name of the call they step   *)
(* through, because KataDriver extends this module and composes its steps  *)
(* with containerd's.  Here containerd only succeeds or fails.             *)
(***************************************************************************)
EXTENDS Integers, FiniteSets

CONSTANTS Callers,   \* the goroutines that call the manager: one per task
          Allocs,    \* the allocations
          AllocOf,   \* the allocation of each caller
          Nobody     \* the owner of an unlocked mutex

ASSUME CallersAssumption == IsFiniteSet(Callers) /\ Nobody \notin Callers
ASSUME AllocOfAssumption == AllocOf \in [Callers -> Allocs]

VARIABLES
    mu,         \* who holds SandboxManager.mu
    sandboxes,  \* the allocations with an entry in SandboxManager.sandboxes
    refCount,   \* Sandbox.refCount of each entry, 0 where there is none
    call        \* where each caller stands

smVars == <<mu, sandboxes, refCount, call>>

\* GetOrCreate after a miss, and Release of the last reference: both run with
\* the mutex held, one stage per containerd call.
Booting     == {"pull", "create", "meta", "start", "undoMeta", "undoCreate"}
TearingDown == {"kill", "deleteTask", "deleteContainer", "deleteMeta"}
Critical    == Booting \cup TearingDown

\* A caller uses a sandbox from the return of GetOrCreate until Release has
\* counted it out.
Using  == {"in", "release"}
Stages == {"out", "lookup"} \cup Using \cup Critical

Holders(a)      == {c \in Callers : AllocOf[c] = a /\ call[c] \in Using}
BeingTornDown(a) == \E c \in Callers : AllocOf[c] = a /\ call[c] \in TearingDown

SMTypeOK ==
    /\ mu \in Callers \cup {Nobody}
    /\ sandboxes \in SUBSET Allocs
    /\ refCount \in [Allocs -> Nat]
    /\ call \in [Callers -> Stages]

SMInit ==
    /\ mu = Nobody
    /\ sandboxes = {}
    /\ refCount = [a \in Allocs |-> 0]
    /\ call = [c \in Callers |-> "out"]

-----------------------------------------------------------------------------
(* Steps of one caller.                                                    *)

Step(c, from, to) ==
    /\ call[c] = from
    /\ call' = [call EXCEPT ![c] = to]

Lock(c)   == mu = Nobody /\ mu' = c
Unlock(c) == mu = c /\ mu' = Nobody
Holding(c) == mu = c /\ UNCHANGED mu

CountOf(a, n) == refCount' = [refCount EXCEPT ![a] = n]

-----------------------------------------------------------------------------
(* GetOrCreate.                                                            *)

GetOrCreateCall(c) ==
    /\ Step(c, "out", "lookup")
    /\ UNCHANGED <<mu, sandboxes, refCount>>

\* As if a reuse were not counted.
Mutant_ReuseUncounted(c) ==
    /\ Step(c, "lookup", "in")
    /\ mu = Nobody
    /\ AllocOf[c] \in sandboxes
    /\ UNCHANGED <<mu, sandboxes, refCount>>

\* The allocation has a sandbox: count this caller in, in one critical section.
Reuse(c) ==
    /\ Step(c, "lookup", "in")
    /\ mu = Nobody
    /\ AllocOf[c] \in sandboxes
    /\ CountOf(AllocOf[c], refCount[AllocOf[c]] + 1)
    /\ UNCHANGED <<mu, sandboxes>>

Boot(c) ==
    /\ Step(c, "lookup", "pull")
    /\ Lock(c)
    /\ AllocOf[c] \notin sandboxes
    /\ UNCHANGED <<sandboxes, refCount>>

\* A boot that fails returns with the lock released and no entry.
BootFails(c, from) ==
    /\ Step(c, from, "out")
    /\ Unlock(c)
    /\ UNCHANGED <<sandboxes, refCount>>

BootStage(c, from, to) ==
    /\ Step(c, from, to)
    /\ Holding(c)
    /\ UNCHANGED <<sandboxes, refCount>>

\* As if a failed pull returned with the mutex held.
Mutant_PullFailureKeepsLock(c, ok) ==
    IF ok THEN BootStage(c, "pull", "create")
    ELSE /\ Step(c, "pull", "out")
         /\ Holding(c)
         /\ UNCHANGED <<sandboxes, refCount>>

EnsurePauseImage(c, ok) ==
    IF ok THEN BootStage(c, "pull", "create") ELSE BootFails(c, "pull")

CreatePause(c, ok) ==
    IF ok THEN BootStage(c, "create", "meta") ELSE BootFails(c, "create")

CreateMeta(c, ok) ==
    BootStage(c, "meta", IF ok THEN "start" ELSE "undoCreate")

\* As if the entry were installed but the first reference were never stored.
Mutant_StartUncounted(c, ok) ==
    IF ok THEN /\ Step(c, "start", "in")
               /\ Unlock(c)
               /\ sandboxes' = sandboxes \cup {AllocOf[c]}
               /\ UNCHANGED refCount
          ELSE BootStage(c, "start", "undoMeta")

\* The VM runs: register it with one reference and return it.
StartPause(c, ok) ==
    IF ok THEN /\ Step(c, "start", "in")
               /\ Unlock(c)
               /\ sandboxes' = sandboxes \cup {AllocOf[c]}
               /\ CountOf(AllocOf[c], 1)
          ELSE BootStage(c, "start", "undoMeta")

UndoMeta(c)   == BootStage(c, "undoMeta", "undoCreate")
UndoCreate(c) == BootFails(c, "undoCreate")

-----------------------------------------------------------------------------
(* Release.                                                                *)

ReleaseCall(c) ==
    /\ Step(c, "in", "release")
    /\ UNCHANGED <<mu, sandboxes, refCount>>

\* No entry, or other users remain: Release returns at once.
ReleaseShared(c) ==
    /\ Step(c, "release", "out")
    /\ mu = Nobody
    /\ AllocOf[c] \in sandboxes => refCount[AllocOf[c]] - 1 > 0
    /\ CountOf(AllocOf[c], IF AllocOf[c] \in sandboxes
                           THEN refCount[AllocOf[c]] - 1
                           ELSE refCount[AllocOf[c]])
    /\ UNCHANGED <<mu, sandboxes>>

\* As if the mutex were released before the teardown's containerd calls.
Mutant_TeardownUnlocked(c) ==
    /\ Step(c, "release", "kill")
    /\ mu = Nobody
    /\ mu' = Nobody
    /\ AllocOf[c] \in sandboxes
    /\ refCount[AllocOf[c]] - 1 <= 0
    /\ CountOf(AllocOf[c], refCount[AllocOf[c]] - 1)
    /\ UNCHANGED sandboxes

\* The last user: start the teardown, still under the mutex.
ReleaseLast(c) ==
    /\ Step(c, "release", "kill")
    /\ Lock(c)
    /\ AllocOf[c] \in sandboxes
    /\ refCount[AllocOf[c]] - 1 <= 0
    /\ CountOf(AllocOf[c], refCount[AllocOf[c]] - 1)
    /\ UNCHANGED sandboxes

TeardownStage(c, from, to) ==
    /\ Step(c, from, to)
    /\ Holding(c)
    /\ UNCHANGED <<sandboxes, refCount>>

\* The calls of Cleanup(sb.ID), whose errors are dropped.
KillPause(c)            == TeardownStage(c, "kill", "deleteTask")
DeletePauseTask(c)      == TeardownStage(c, "deleteTask", "deleteContainer")
DeletePauseContainer(c) == TeardownStage(c, "deleteContainer", "deleteMeta")

\* As if the entry were left in the map.
Mutant_KeepEntry(c) ==
    /\ Step(c, "deleteMeta", "out")
    /\ Unlock(c)
    /\ CountOf(AllocOf[c], 0)
    /\ UNCHANGED sandboxes

\* Delete the metadata, drop the entry and unlock.
DeleteMeta(c) ==
    /\ Step(c, "deleteMeta", "out")
    /\ Unlock(c)
    /\ sandboxes' = sandboxes \ {AllocOf[c]}
    /\ CountOf(AllocOf[c], 0)

-----------------------------------------------------------------------------
(* Recover: one critical section that makes no containerd call.            *)

\* As if every recovered task installed an entry of its own.
Mutant_RecoverOverwrites(c) ==
    /\ Step(c, "out", "in")
    /\ mu = Nobody
    /\ UNCHANGED mu
    /\ sandboxes' = sandboxes \cup {AllocOf[c]}
    /\ CountOf(AllocOf[c], 1)

Recover(c) ==
    /\ Step(c, "out", "in")
    /\ mu = Nobody
    /\ UNCHANGED mu
    /\ sandboxes' = sandboxes \cup {AllocOf[c]}
    /\ CountOf(AllocOf[c], IF AllocOf[c] \in sandboxes
                           THEN refCount[AllocOf[c]] + 1
                           ELSE 1)

\* The plugin process dies: the manager lives in its memory only.
SMCrash ==
    /\ mu' = Nobody
    /\ sandboxes' = {}
    /\ refCount' = [a \in Allocs |-> 0]
    /\ call' = [c \in Callers |-> "out"]

-----------------------------------------------------------------------------
\* Steps that wait for the mutex, and steps taken with it held.
TakeLock(c) == Reuse(c) \/ Boot(c) \/ ReleaseShared(c) \/ ReleaseLast(c)

PullStep(c) == \E ok \in BOOLEAN : EnsurePauseImage(c, ok)
BootStep(c) ==
    \/ \E ok \in BOOLEAN : CreatePause(c, ok) \/ CreateMeta(c, ok) \/ StartPause(c, ok)
    \/ UndoMeta(c) \/ UndoCreate(c)
TeardownStep(c) ==
    KillPause(c) \/ DeletePauseTask(c) \/ DeletePauseContainer(c) \/ DeleteMeta(c)

CallerStep(c) ==
    \/ GetOrCreateCall(c) \/ ReleaseCall(c) \/ Recover(c)
    \/ TakeLock(c) \/ PullStep(c) \/ BootStep(c) \/ TeardownStep(c)

SMNext == (\E c \in Callers : CallerStep(c)) \/ SMCrash

SMSpec == SMInit /\ [][SMNext]_smVars

\* sync.Mutex hands the lock over in FIFO order once a waiter starves, so no
\* waiter is passed over for ever; containerd's calls return, the pull of the
\* pause image among them although GetOrCreate sets no deadline for it.
\* Nothing makes a caller call, or the process crash.
LockIsFair      == \A c \in Callers : SF_smVars(TakeLock(c))
ContainerdAnswers == \A c \in Callers : WF_smVars(BootStep(c)) /\ WF_smVars(TeardownStep(c))
RegistryAnswers == \A c \in Callers : WF_smVars(PullStep(c))

SMFairSpec == SMSpec /\ LockIsFair /\ ContainerdAnswers /\ RegistryAnswers

-----------------------------------------------------------------------------
(* Properties.                                                             *)

\* The mutex serialises whole boots and teardowns: only its owner is inside
\* one, so two callers never boot or dismantle VMs at the same time.
MutexHeld == \A c \in Callers : call[c] \in Critical <=> mu = c

\* The counter of every allocation is the number of callers that were handed
\* its sandbox and are not yet counted out, through reuse, failed boots,
\* recovery and teardown.
RefCountExact == \A a \in Allocs : refCount[a] = Cardinality(Holders(a))

\* An entry exists exactly while somebody uses the sandbox or its last user is
\* dismantling it: no user without an entry, no entry left behind.
EntryIffUsed ==
    \A a \in Allocs : a \in sandboxes <=> Holders(a) # {} \/ BeingTornDown(a)

\* Nobody holds a sandbox while it is booted or dismantled, and only an
\* allocation without an entry is booted: two VMs never serve one allocation
\* and no caller is handed a VM on its way out.
CriticalIsAlone ==
    \A c \in Callers : call[c] \in Critical =>
        /\ Holders(AllocOf[c]) = {}
        /\ call[c] \in Booting <=> AllocOf[c] \notin sandboxes

\* Every call of GetOrCreate and of Release returns, whatever other callers
\* of this and of other allocations do.
CallsReturn ==
    \A c \in Callers :
        /\ call[c] = "lookup" ~> call[c] \in {"in", "out"}
        /\ call[c] = "release" ~> call[c] = "out"

\* The manager implements the shared sandbox: its users are the counted
\* callers, its sandboxes the entries of the map.
Abstract == INSTANCE SharedSandbox WITH
    Users   <- Callers,
    users   <- {c \in Callers : call[c] \in Using},
    up      <- sandboxes

SharedSandboxSpec == Abstract!Spec
=============================================================================
