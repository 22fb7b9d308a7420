---------------------------- MODULE OrphanCleanup ----------------------------
(***************************************************************************)
(* kata/orphan.go: cleanupSandboxProcesses, which markSandboxDead calls    *)
(* for the ID of a dead sandbox, possibly in several goroutines at once,   *)
(* and the processes of the host that come and go meanwhile.  A call is at *)
(*                                                                         *)
(*    idle         no call                                                 *)
(*    match        sandboxProcessIDs: reading /proc one process at a time  *)
(*    open         a pidfd for each match                                  *)
(*    terminate    SIGTERM to each                                         *)
(*    wait, kill   one deadline for all: wait for each, or SIGKILL         *)
(*    close        the deferred closes                                     *)
(***************************************************************************)
EXTENDS Naturals

CONSTANTS Cleaners,   \* goroutines that may call it at the same time
          Pids,       \* the process IDs
          Faults,     \* the system calls that may fail at any time
          QuickReuse  \* a stranger may get a matched process's ID before it is opened

ASSUME PidsAssumption == Pids \subseteq Nat
ASSUME ReuseAssumption == QuickReuse \in BOOLEAN

VARIABLES
    phase,    \* where each call stands
    todo,     \* the processes the current loop has yet to visit
    found,    \* the processes matched so far
    handle,   \* the pidfds of the call: none, open, or readable (exited)
    expired,  \* the call's three seconds are over
    result,   \* what the last call returned
    proc,     \* the process that has each ID: none, sandbox or other
    sig,      \* the most the driver did to it: none, term, due, kill
    present   \* what was of the sandbox when the call began and has not exited

cleanerVars == <<phase, todo, found, handle, expired, result, present>>
vars        == <<phase, todo, found, handle, expired, result, proc, sig, present>>

Phases  == {"idle", "match", "open", "terminate", "wait", "kill", "close"}
Results == {"none", "ok", "failed"}

TypeOK ==
    /\ phase \in [Cleaners -> Phases]
    /\ todo \in [Cleaners -> SUBSET Pids]
    /\ found \in [Cleaners -> SUBSET Pids]
    /\ handle \in [Cleaners -> [Pids -> {"none", "open", "exited"}]]
    /\ expired \in [Cleaners -> BOOLEAN]
    /\ result \in [Cleaners -> Results]
    /\ proc \in [Pids -> {"none", "sandbox", "other"}]
    /\ sig \in [Pids -> {"none", "term", "due", "kill"}]
    /\ present \in [Cleaners -> SUBSET Pids]

Init ==
    /\ phase = [c \in Cleaners |-> "idle"]
    /\ todo = [c \in Cleaners |-> {}]
    /\ found = [c \in Cleaners |-> {}]
    /\ handle = [c \in Cleaners |-> [p \in Pids |-> "none"]]
    /\ expired = [c \in Cleaners |-> FALSE]
    /\ result = [c \in Cleaners |-> "none"]
    /\ proc \in [Pids -> {"none", "sandbox", "other"}]
    /\ sig = [p \in Pids |-> "none"]
    /\ present = [c \in Cleaners |-> {}]

Move(c, from, to) ==
    /\ phase[c] = from
    /\ phase' = [phase EXCEPT ![c] = to]

\* The process a loop visits next: /proc is read in the order of the IDs.
IsNext(c, p) == p \in todo[c] /\ \A q \in todo[c] : p <= q
Visit(c, p)  == todo' = [todo EXCEPT ![c] = @ \ {p}]

MayFail(call) == call \in Faults

\* The call gives up on an error, its pidfds still to be closed.
Fail(c, from) ==
    /\ Move(c, from, "close")
    /\ todo' = [todo EXCEPT ![c] = {}]
    /\ result' = [result EXCEPT ![c] = "failed"]
    /\ present' = [present EXCEPT ![c] = {}]
    /\ UNCHANGED <<found, handle, expired, proc, sig>>

-----------------------------------------------------------------------------
\* os.ReadDir of /proc, or its error.
ListProcesses(c) ==
    /\ \/ /\ Move(c, "idle", "match")
          /\ todo' = [todo EXCEPT ![c] = {p \in Pids : proc[p] # "none"}]
          /\ result' = [result EXCEPT ![c] = "none"]
          /\ present' = [present EXCEPT ![c] = {p \in Pids : proc[p] = "sandbox"}]
       \/ /\ MayFail("ReadDir")
          /\ phase[c] = "idle"
          /\ result' = [result EXCEPT ![c] = "failed"]
          /\ UNCHANGED <<phase, todo, present>>
    /\ UNCHANGED <<found, handle, expired, proc, sig>>

\* As if the first match ended the search.
Mutant_FirstMatchOnly(c, p) ==
    /\ phase[c] = "match"
    /\ IsNext(c, p)
    /\ todo' = [todo EXCEPT ![c] = IF proc[p] = "sandbox" THEN {} ELSE @ \ {p}]
    /\ found' = [found EXCEPT ![c] = IF proc[p] = "sandbox" THEN @ \cup {p} ELSE @]
    /\ UNCHANGED <<present, phase, handle, expired, result, proc, sig>>

\* A process that is gone, or whose files cannot be read, is passed over.
MatchProcess(c, p) ==
    /\ phase[c] = "match"
    /\ IsNext(c, p) /\ Visit(c, p)
    /\ found' = [found EXCEPT ![c] = IF proc[p] = "sandbox" THEN @ \cup {p} ELSE @]
    /\ UNCHANGED <<present, phase, handle, expired, result, proc, sig>>

\* The next loop; the deadline is set between the last SIGTERM and the first
\* wait.
EndLoop(c) ==
    /\ todo[c] = {}
    /\ \/ /\ Move(c, "match", "open")
          /\ todo' = [todo EXCEPT ![c] = found[c]]
          /\ found' = [found EXCEPT ![c] = {}]
          /\ UNCHANGED <<expired, result>>
       \/ /\ \/ Move(c, "open", "terminate")
             \/ Move(c, "terminate", "wait")
          /\ todo' = [todo EXCEPT ![c] = {p \in Pids : handle[c][p] # "none"}]
          /\ expired' = [expired EXCEPT ![c] = FALSE]
          /\ UNCHANGED <<found, result>>
       \/ /\ Move(c, "wait", "close")
          /\ result' = [result EXCEPT ![c] = "ok"]
          /\ UNCHANGED <<todo, found, expired>>
    /\ UNCHANGED <<present, handle, proc, sig>>

\* As if ESRCH did not skip the process: its nil handle joins the others.
Mutant_GoneAppended(c, p) ==
    /\ phase[c] = "open"
    /\ IsNext(c, p) /\ Visit(c, p)
    /\ handle' = [handle EXCEPT ![c][p] = IF proc[p] = "none" THEN "nil" ELSE "open"]
    /\ UNCHANGED <<present, phase, found, expired, result, proc, sig>>

\* pidfd_open of whatever has the ID now; nobody (ESRCH) is passed over.
OpenProcess(c, p) ==
    /\ phase[c] = "open"
    /\ IsNext(c, p) /\ Visit(c, p)
    /\ handle' = [handle EXCEPT ![c][p] = IF proc[p] = "none" THEN "none" ELSE "open"]
    /\ UNCHANGED <<present, phase, found, expired, result, proc, sig>>

\* Any other error returns at once: the closes are not deferred yet, so the
\* pidfds opened so far go out of scope as they are.
OpenFails(c) ==
    /\ MayFail("Open")
    /\ todo[c] # {}
    /\ Move(c, "open", "idle")
    /\ todo' = [todo EXCEPT ![c] = {}]
    /\ handle' = [handle EXCEPT ![c] = [p \in Pids |-> "none"]]
    /\ result' = [result EXCEPT ![c] = "failed"]
    /\ present' = [present EXCEPT ![c] = {}]
    /\ UNCHANGED <<found, expired, proc, sig>>

\* A signal through the pidfd reaches the process it was opened for, or nobody
\* (ESRCH), never a later one with the same ID.
Signalled(c, p, s) ==
    sig' = IF handle[c][p] = "open" THEN [sig EXCEPT ![p] = s] ELSE sig

\* As if a process that is gone ended the loop.
Mutant_StopAtGone(c, p) ==
    /\ phase[c] = "terminate"
    /\ IsNext(c, p)
    /\ todo' = [todo EXCEPT ![c] = IF handle[c][p] = "exited" THEN {} ELSE @ \ {p}]
    /\ Signalled(c, p, IF sig[p] = "none" THEN "term" ELSE sig[p])
    /\ UNCHANGED <<present, phase, found, handle, expired, result, proc>>

\* SIGTERM.
TerminateProcess(c, p) ==
    /\ phase[c] = "terminate"
    /\ IsNext(c, p) /\ Visit(c, p)
    /\ Signalled(c, p, IF sig[p] = "none" THEN "term" ELSE sig[p])
    /\ UNCHANGED <<present, phase, found, handle, expired, result, proc>>

\* As if the deadline were waited for in full for every process.
Mutant_WaitForExit(c, p) ==
    /\ phase[c] = "wait"
    /\ IsNext(c, p) /\ Visit(c, p)
    /\ handle[c][p] = "exited"
    /\ UNCHANGED <<present, phase, found, handle, expired, result, proc, sig>>

\* As if only the first process that does not exit in time were killed.
Mutant_LateOnesSpared(c, p) ==
    /\ IsNext(c, p)
    /\ \/ /\ handle[c][p] = "exited" \/ expired[c]
          /\ phase[c] = "wait"
          /\ Visit(c, p)
          /\ UNCHANGED <<phase, expired, sig>>
       \/ /\ handle[c][p] = "open" /\ ~expired[c]
          /\ Move(c, "wait", "kill")
          /\ expired' = [expired EXCEPT ![c] = TRUE]
          /\ sig' = [q \in Pids |-> IF handle[c][q] = "open" /\ sig[q] = "term"
                                    THEN "due" ELSE sig[q]]
          /\ UNCHANGED todo
    /\ UNCHANGED <<present, found, handle, result, proc>>

\* Poll the pidfd for what is left of the three seconds: the process exits, or
\* the time is up, for all that were sent SIGTERM.
AwaitProcess(c, p) ==
    /\ IsNext(c, p)
    /\ \/ /\ handle[c][p] = "exited"
          /\ phase[c] = "wait"
          /\ Visit(c, p)
          /\ UNCHANGED <<phase, expired, sig>>
       \/ /\ handle[c][p] = "open"
          /\ Move(c, "wait", "kill")
          /\ expired' = [expired EXCEPT ![c] = TRUE]
          /\ sig' = [q \in Pids |->
                        IF ~expired[c] /\ handle[c][q] = "open" /\ sig[q] = "term"
                        THEN "due" ELSE sig[q]]
          /\ UNCHANGED todo
    /\ UNCHANGED <<present, found, handle, result, proc>>

\* As if the signal went to the ID, as kill(2) sends it.
Mutant_KillByPid(c, p) ==
    /\ Move(c, "kill", "wait")
    /\ IsNext(c, p) /\ Visit(c, p)
    /\ sig' = IF proc[p] # "none" THEN [sig EXCEPT ![p] = "kill"] ELSE sig
    /\ UNCHANGED <<present, found, handle, expired, result, proc>>

\* SIGKILL; the process may have exited since the poll.
KillProcess(c, p) ==
    /\ Move(c, "kill", "wait")
    /\ IsNext(c, p) /\ Visit(c, p)
    /\ Signalled(c, p, "kill")
    /\ UNCHANGED <<present, found, handle, expired, result, proc>>

\* The first error ends the call, whatever is still to be done: a signal that
\* is refused, a poll that is interrupted.
Abort(c) ==
    /\ todo[c] # {}
    /\ \/ MayFail("Signal") /\ (Fail(c, "terminate") \/ Fail(c, "kill"))
       \/ MayFail("Poll") /\ Fail(c, "wait")

Close(c) ==
    /\ Move(c, "close", "idle")
    /\ handle' = [handle EXCEPT ![c] = [p \in Pids |-> "none"]]
    /\ expired' = [expired EXCEPT ![c] = FALSE]
    /\ present' = [present EXCEPT ![c] = {}]
    /\ UNCHANGED <<todo, found, result, proc, sig>>

\* What a call does as long as nothing fails.
Proceed(c) ==
    \/ EndLoop(c) \/ Close(c)
    \/ \E p \in Pids :
           \/ MatchProcess(c, p) \/ OpenProcess(c, p) \/ TerminateProcess(c, p)
           \/ AwaitProcess(c, p) \/ KillProcess(c, p)

CleanerStep(c) == Proceed(c) \/ OpenFails(c) \/ Abort(c)

-----------------------------------------------------------------------------
(* The host's processes.                                                   *)

\* A process exits by itself or because of a signal: its pidfds turn readable
\* and its ID is free.
Exit(p) ==
    /\ proc[p] # "none"
    /\ proc' = [proc EXCEPT ![p] = "none"]
    /\ sig' = [sig EXCEPT ![p] = "none"]
    /\ handle' = [c \in Cleaners |->
                     IF handle[c][p] = "open" THEN [handle[c] EXCEPT ![p] = "exited"]
                     ELSE handle[c]]
    /\ present' = [c \in Cleaners |-> present[c] \ {p}]
    /\ UNCHANGED <<phase, todo, found, expired, result>>

\* Some cleanup matched the process that had this ID and has yet to open it.
Matched(p) == \E c \in Cleaners : \/ p \in found[c]
                               \/ (phase[c] = "open" /\ p \in todo[c])

\* A process is started under a free ID: another one of the sandbox, or a
\* stranger's.
Start(p) ==
    /\ proc[p] = "none"
    /\ \E kind \in {"sandbox", "other"} :
           /\ kind = "other" /\ ~QuickReuse => ~Matched(p)
           /\ proc' = [proc EXCEPT ![p] = kind]
    /\ UNCHANGED <<cleanerVars, sig>>

-----------------------------------------------------------------------------
Next ==
    \/ \E c \in Cleaners : ListProcesses(c) \/ CleanerStep(c)
    \/ \E p \in Pids : Exit(p) \/ Start(p)

Spec == Init /\ [][Next]_vars

\* The goroutine is scheduled, a poll ends, and SIGKILL is obeyed.  No call has
\* to fail.
Fairness ==
    /\ \A c \in Cleaners : WF_vars(Proceed(c))
    /\ \A p \in Pids : WF_vars(sig[p] = "kill" /\ Exit(p))

FairSpec == Spec /\ Fairness

-----------------------------------------------------------------------------
(* Properties.                                                             *)

\* README: only exact orphans are cleaned.  No signal ever reaches a process
\* that is not of the sandbox, although IDs are reused while a call is on its
\* way.
OnlySandboxProcesses ==
    \A p \in Pids : sig[p] # "none" => proc[p] = "sandbox"

\* A process is killed only if three seconds have passed since its SIGTERM,
\* whatever place it has in the row that shares the deadline.
KillsOnlyOverdue ==
    [][\A p \in Pids : sig'[p] = "kill" => sig[p] \in {"due", "kill"}]_vars

\* A call that reports success has spared nobody: whatever was of the sandbox
\* when it began, and whatever else it opened, has exited or has been killed.
NoneSpared ==
    \A c \in Cleaners : phase[c] = "close" /\ result[c] = "ok" =>
        \A p \in Pids : p \in present[c] \/ handle[c][p] = "open" => sig[p] = "kill"

\* Every call returns, however stubborn the processes are.
CleanupReturns ==
    \A c \in Cleaners : phase[c] # "idle" ~> phase[c] = "idle"
=============================================================================
