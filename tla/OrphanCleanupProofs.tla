------------------------- MODULE OrphanCleanupProofs -------------------------
(***************************************************************************)
(* The cleanup of orphaned processes, for any number of concurrent calls,  *)
(* any set of process IDs and whatever system calls fail.                  *)
(***************************************************************************)
EXTENDS OrphanCleanup, TLAPS

\* A pidfd that is not readable yet stands for a process of the sandbox.
HandlesOfSandbox ==
    \A c \in Cleaners, p \in Pids : handle[c][p] = "open" => proc[p] = "sandbox"

\* Nobody else has got the ID of a process between its match and its open.
MatchedAreOurs ==
    \A p \in Pids : Matched(p) => proc[p] # "other"

\* A process of the sandbox that was there when a call began, and still is, has
\* yet to be matched or opened by it, or has been.
NotOverlooked ==
    \A c \in Cleaners : \A p \in present[c] :
        /\ proc[p] = "sandbox"
        /\ phase[c] # "idle"
        /\ phase[c] = "match" => p \in todo[c] \cup found[c]
        /\ phase[c] = "open" => p \in todo[c] \/ handle[c][p] = "open"
        /\ phase[c] \notin {"match", "open"} => handle[c][p] = "open"

\* While the deadline runs, whoever was visited has exited or was killed.
VisitedAreDone ==
    \A c \in Cleaners : phase[c] \in {"wait", "kill"} =>
        \A p \in Pids \ todo[c] : handle[c][p] = "open" => sig[p] = "kill"

\* So was everybody when it ends well.
OpenedAreDone ==
    \A c \in Cleaners : phase[c] = "close" /\ result[c] = "ok" =>
        \A p \in Pids : handle[c][p] = "open" => sig[p] = "kill"

\* Whoever has been visited by the first loop has been sent SIGTERM; when the
\* deadline of a call is over, the time of all its processes is.
AllWarned ==
    \A c \in Cleaners, p \in Pids : handle[c][p] = "open" =>
        /\ (phase[c] = "terminate" /\ p \notin todo[c]) \/ phase[c] \in {"wait", "kill"}
             => sig[p] # "none"
        /\ phase[c] \in {"wait", "kill"} /\ expired[c] => sig[p] # "term"
        /\ phase[c] = "kill" => expired[c]

Ours == HandlesOfSandbox /\ MatchedAreOurs /\ OnlySandboxProcesses

-----------------------------------------------------------------------------
\* The types are inductive.
LEMMA TypesStep == TypeOK /\ [Next]_vars => TypeOK'
<1> SUFFICES ASSUME TypeOK, [Next]_vars PROVE TypeOK'
  OBVIOUS
<1> USE DEF TypeOK, Phases, Results
<1>1. ASSUME NEW c \in Cleaners, ListProcesses(c) PROVE TypeOK'
  <2>1. phase' \in [Cleaners -> Phases] /\ result' \in [Cleaners -> Results]
    BY <1>1 DEF ListProcesses, Move
  <2>2. {p \in Pids : proc[p] # "none"} \in SUBSET Pids
    OBVIOUS
  <2>3. todo' \in [Cleaners -> SUBSET Pids]
    BY <1>1, <2>2 DEF ListProcesses
  <2>4. {p \in Pids : proc[p] = "sandbox"} \in SUBSET Pids
    OBVIOUS
  <2>5. present' \in [Cleaners -> SUBSET Pids]
    BY <1>1, <2>4 DEF ListProcesses
  <2> QED
    BY <1>1, <2>1, <2>3, <2>5 DEF ListProcesses
<1>2. ASSUME NEW c \in Cleaners, EndLoop(c) PROVE TypeOK'
  <2>1. phase' \in [Cleaners -> Phases] /\ result' \in [Cleaners -> Results]
    BY <1>2 DEF EndLoop, Move
  <2>2. {p \in Pids : handle[c][p] # "none"} \in SUBSET Pids
    OBVIOUS
  <2>3. todo' \in [Cleaners -> SUBSET Pids]
    BY <1>2, <2>2 DEF EndLoop
  <2>4. found' \in [Cleaners -> SUBSET Pids] /\ expired' \in [Cleaners -> BOOLEAN]
    BY <1>2 DEF EndLoop
  <2> QED
    BY <1>2, <2>1, <2>3, <2>4 DEF EndLoop
<1>3. ASSUME NEW c \in Cleaners, OpenFails(c) \/ Abort(c) \/ Close(c) PROVE TypeOK'
  <2>1. phase' \in [Cleaners -> Phases]
    BY <1>3 DEF OpenFails, Abort, Close, Fail, Move
  <2>2. todo' \in [Cleaners -> SUBSET Pids]
    <3>1. {} \in SUBSET Pids
      OBVIOUS
    <3>2. todo' = todo \/ todo' = [todo EXCEPT ![c] = {}]
      BY <1>3 DEF OpenFails, Abort, Close, Fail
    <3> QED
      BY <3>1, <3>2
  <2>3. handle' \in [Cleaners -> [Pids -> {"none", "open", "exited"}]]
    <3>1. [p \in Pids |-> "none"] \in [Pids -> {"none", "open", "exited"}]
      OBVIOUS
    <3>2. handle' = handle \/ handle' = [handle EXCEPT ![c] = [p \in Pids |-> "none"]]
      BY <1>3 DEF OpenFails, Abort, Close, Fail
    <3> QED
      BY <3>1, <3>2
  <2>4. expired' \in [Cleaners -> BOOLEAN] /\ result' \in [Cleaners -> Results]
    BY <1>3 DEF OpenFails, Abort, Close, Fail
  <2>5. UNCHANGED <<found, proc, sig>>
    BY <1>3 DEF OpenFails, Abort, Close, Fail
  <2>6. present' \in [Cleaners -> SUBSET Pids]
    <3>1. {} \in SUBSET Pids
      OBVIOUS
    <3>2. present' = present \/ present' = [present EXCEPT ![c] = {}]
      BY <1>3 DEF OpenFails, Abort, Close, Fail
    <3> QED
      BY <3>1, <3>2
  <2> QED
    BY <2>1, <2>2, <2>3, <2>4, <2>5, <2>6
<1>4. ASSUME NEW c \in Cleaners, NEW p \in Pids,
             \/ MatchProcess(c, p) \/ OpenProcess(c, p) \/ TerminateProcess(c, p)
             \/ AwaitProcess(c, p) \/ KillProcess(c, p)
      PROVE  TypeOK'
  <2>1. todo' \in [Cleaners -> SUBSET Pids]
    BY <1>4 DEF MatchProcess, OpenProcess, TerminateProcess, AwaitProcess, KillProcess, Visit
  <2>2. phase' \in [Cleaners -> Phases]
    <3>1. \/ phase' = phase
          \/ phase' = [phase EXCEPT ![c] = "kill"] \/ phase' = [phase EXCEPT ![c] = "wait"]
      BY <1>4 DEF MatchProcess, OpenProcess, TerminateProcess, AwaitProcess, KillProcess, Move
    <3> QED
      BY <3>1
  <2>3. found' \in [Cleaners -> SUBSET Pids]
    <3>1. found[c] \cup {p} \in SUBSET Pids
      OBVIOUS
    <3>2. found' = found \/ found' = [found EXCEPT ![c] = found[c] \cup {p}]
      BY <1>4 DEF MatchProcess, OpenProcess, TerminateProcess, AwaitProcess, KillProcess
    <3> QED
      BY <3>1, <3>2
  <2>4. expired' \in [Cleaners -> BOOLEAN]
    BY <1>4 DEF MatchProcess, OpenProcess, TerminateProcess, AwaitProcess, KillProcess
  <2>5. handle' \in [Cleaners -> [Pids -> {"none", "open", "exited"}]]
    <3>1. CASE OpenProcess(c, p)
      <4>1. \/ handle' = [handle EXCEPT ![c][p] = "none"]
            \/ handle' = [handle EXCEPT ![c][p] = "open"]
        BY <3>1 DEF OpenProcess
      <4>2. ASSUME NEW s \in {"none", "open"}
            PROVE  [handle EXCEPT ![c][p] = s]
                       \in [Cleaners -> [Pids -> {"none", "open", "exited"}]]
        OBVIOUS
      <4> QED
        BY <4>1, <4>2
    <3>2. CASE ~OpenProcess(c, p)
      BY <1>4, <3>2 DEF MatchProcess, TerminateProcess, AwaitProcess, KillProcess
    <3> QED
      BY <3>1, <3>2
  <2>6. sig' \in [Pids -> {"none", "term", "due", "kill"}]
    BY <1>4
    DEF MatchProcess, OpenProcess, TerminateProcess, AwaitProcess, KillProcess, Signalled
  <2>7. UNCHANGED <<result, proc, present>>
    BY <1>4 DEF MatchProcess, OpenProcess, TerminateProcess, AwaitProcess, KillProcess
  <2> QED
    BY <2>1, <2>2, <2>3, <2>4, <2>5, <2>6, <2>7
<1>5. ASSUME NEW p \in Pids, Exit(p) PROVE TypeOK'
  <2>1. handle' \in [Cleaners -> [Pids -> {"none", "open", "exited"}]]
    BY <1>5 DEF Exit
  <2>2. present' \in [Cleaners -> SUBSET Pids]
    BY <1>5 DEF Exit
  <2> QED
    BY <1>5, <2>1, <2>2 DEF Exit
<1>6. ASSUME NEW p \in Pids, Start(p) PROVE TypeOK'
  BY <1>6 DEF Start, cleanerVars
<1>7. CASE UNCHANGED vars
  BY <1>7 DEF vars
<1> QED
  BY <1>1, <1>2, <1>3, <1>4, <1>5, <1>6, <1>7 DEF Next, CleanerStep, Proceed

\* Every variable of the cleanup keeps its type.
THEOREM OrphanTypes == Spec => []TypeOK
<1>1. Init => TypeOK
  BY DEF Init, TypeOK, Phases, Results
<1> QED
  BY <1>1, TypesStep, PTL DEF Spec

-----------------------------------------------------------------------------
\* What a step does to the pidfds, the signals and the processes.
LEMMA OursStep == ~QuickReuse /\ TypeOK /\ Ours /\ [Next]_vars => Ours'
<1> SUFFICES ASSUME ~QuickReuse, TypeOK, Ours, [Next]_vars PROVE Ours'
  OBVIOUS
<1> USE DEF Ours, TypeOK, HandlesOfSandbox, MatchedAreOurs, OnlySandboxProcesses, Matched
<1>1. ASSUME NEW c \in Cleaners, ListProcesses(c) \/ EndLoop(c) PROVE Ours'
  <2>1. UNCHANGED <<handle, proc, sig>>
    BY <1>1 DEF ListProcesses, EndLoop
  <2>2. ASSUME NEW p \in Pids, Matched(p)' PROVE proc[p] # "other"
    <3>1. CASE ListProcesses(c)
      BY <3>1, <2>2 DEF ListProcesses, Move
    <3>2. CASE EndLoop(c)
      <4>1. PICK d \in Cleaners : p \in found'[d] \/ (phase'[d] = "open" /\ p \in todo'[d])
        BY <2>2
      <4>2. p \in found[d] \/ (phase[d] = "open" /\ p \in todo[d])
        BY <3>2, <4>1 DEF EndLoop, Move
      <4> QED
        BY <4>2
    <3> QED
      BY <1>1, <3>1, <3>2
  <2> QED
    BY <2>1, <2>2
<1>2. ASSUME NEW c \in Cleaners, OpenFails(c) \/ Abort(c) \/ Close(c) PROVE Ours'
  <2>1. UNCHANGED <<proc, sig, found>>
    BY <1>2 DEF OpenFails, Abort, Close, Fail
  <2>2. \A d \in Cleaners, p \in Pids : handle'[d][p] = "open" => handle[d][p] = "open"
    BY <1>2 DEF OpenFails, Abort, Close, Fail
  <2>3. \A d \in Cleaners : phase'[d] = "open" => phase[d] = "open" /\ todo'[d] = todo[d]
    BY <1>2 DEF OpenFails, Abort, Close, Fail, Move
  <2> QED
    BY <2>1, <2>2, <2>3
<1>3. ASSUME NEW c \in Cleaners, NEW p \in Pids, MatchProcess(c, p) PROVE Ours'
  <2>1. UNCHANGED <<handle, proc, sig, phase>>
    BY <1>3 DEF MatchProcess
  <2>2. ASSUME NEW q \in Pids, Matched(q)' PROVE proc[q] # "other"
    <3>1. Matched(q) \/ proc[q] = "sandbox"
      BY <1>3, <2>2 DEF MatchProcess, Visit
    <3> QED
      BY <3>1
  <2> QED
    BY <2>1, <2>2
<1>4. ASSUME NEW c \in Cleaners, NEW p \in Pids, OpenProcess(c, p) PROVE Ours'
  <2>1. UNCHANGED <<proc, sig, phase, found>>
    BY <1>4 DEF OpenProcess
  <2>2. \A q \in Pids : Matched(q)' => Matched(q)
    BY <1>4 DEF OpenProcess, Visit
  <2>3. Matched(p)
    BY <1>4 DEF OpenProcess, IsNext
  <2>4. ASSUME NEW d \in Cleaners, NEW q \in Pids, handle'[d][q] = "open"
        PROVE  proc[q] = "sandbox"
    <3>1. handle[d][q] = "open" \/ (q = p /\ proc[p] # "none")
      BY <1>4, <2>4 DEF OpenProcess
    <3> QED
      BY <3>1, <2>3
  <2> QED
    BY <2>1, <2>2, <2>4
<1>5. ASSUME NEW c \in Cleaners, NEW p \in Pids,
             TerminateProcess(c, p) \/ AwaitProcess(c, p) \/ KillProcess(c, p)
      PROVE  Ours'
  <2>1. UNCHANGED <<handle, proc, found>>
    BY <1>5 DEF TerminateProcess, AwaitProcess, KillProcess
  <2>2. \A d \in Cleaners : phase'[d] = "open" => phase[d] = "open" /\ todo'[d] = todo[d]
    BY <1>5 DEF TerminateProcess, AwaitProcess, KillProcess, Visit, Move
  <2>3. \A q \in Pids : sig'[q] # "none" =>
            sig[q] # "none" \/ (q = p /\ handle[c][p] = "open")
    <3>1. CASE TerminateProcess(c, p)
      BY <3>1 DEF TerminateProcess, Signalled
    <3>2. CASE AwaitProcess(c, p)
      BY <3>2 DEF AwaitProcess
    <3>3. CASE KillProcess(c, p)
      BY <3>3 DEF KillProcess, Signalled
    <3> QED
      BY <1>5, <3>1, <3>2, <3>3
  <2> QED
    BY <2>1, <2>2, <2>3
<1>6. ASSUME NEW p \in Pids, Exit(p) PROVE Ours'
  <2>1. \A c \in Cleaners, q \in Pids :
            handle'[c][q] = "open" => handle[c][q] = "open" /\ q # p
    BY <1>6 DEF Exit
  <2> QED
    BY <1>6, <2>1 DEF Exit
<1>7. ASSUME NEW p \in Pids, Start(p) PROVE Ours'
  BY <1>7 DEF Start, cleanerVars
<1>8. CASE UNCHANGED vars
  BY <1>8 DEF vars
<1> QED
  BY <1>1, <1>2, <1>3, <1>4, <1>5, <1>6, <1>7, <1>8 DEF Next, CleanerStep, Proceed

\* No process but the sandbox's own is ever signalled, however many cleanups
\* run at once and however IDs are reused once their processes are opened; a
\* stranger that gets an ID between match and open would be.
THEOREM OrphanOnlySandbox == ASSUME ~QuickReuse PROVE Spec => []OnlySandboxProcesses
<1>1. Init => Ours
  BY DEF Init, Ours, HandlesOfSandbox, MatchedAreOurs, OnlySandboxProcesses, Matched
<1>2. Ours => OnlySandboxProcesses
  BY DEF Ours
<1> QED
  BY <1>1, <1>2, OursStep, OrphanTypes, PTL DEF Spec

-----------------------------------------------------------------------------
\* A killed process stays killed until it has exited.
LEMMA KillsLast ==
    ASSUME TypeOK, [Next]_vars, NEW c \in Cleaners, NEW p \in Pids,
           handle[c][p] = "open", handle'[c][p] = "open", sig[p] = "kill"
    PROVE  sig'[p] = "kill"
<1> USE DEF TypeOK
<1>1. ASSUME NEW d \in Cleaners, NEW q \in Pids,
             TerminateProcess(d, q) \/ AwaitProcess(d, q) \/ KillProcess(d, q)
      PROVE  sig'[p] = "kill"
  BY <1>1 DEF TerminateProcess, AwaitProcess, KillProcess, Signalled
<1>2. ASSUME NEW q \in Pids, Exit(q) PROVE sig'[p] = "kill"
  BY <1>2 DEF Exit
<1> QED
  BY <1>1, <1>2
  DEF Next, CleanerStep, Proceed, ListProcesses, EndLoop, OpenFails, Abort, Fail, Close, MatchProcess,
      OpenProcess, Start, vars

\* The deadline's loop leaves nobody behind.
LEMMA SparedStep ==
    TypeOK /\ VisitedAreDone /\ OpenedAreDone /\ [Next]_vars => VisitedAreDone' /\ OpenedAreDone'
<1> SUFFICES ASSUME TypeOK, VisitedAreDone, OpenedAreDone, [Next]_vars,
                    NEW c \in Cleaners, NEW p \in Pids, handle'[c][p] = "open",
                    \/ phase'[c] \in {"wait", "kill"} /\ p \notin todo'[c]
                    \/ phase'[c] = "close" /\ result'[c] = "ok"
             PROVE  sig'[p] = "kill"
  BY DEF VisitedAreDone, OpenedAreDone
<1> USE DEF TypeOK, VisitedAreDone, OpenedAreDone
<1> DEFINE Done == \/ phase[c] \in {"wait", "kill"} /\ p \notin todo[c]
                   \/ phase[c] = "close" /\ result[c] = "ok"
<1>1. CASE Done /\ handle[c][p] = "open"
  <2>1. sig[p] = "kill"
    BY <1>1
  <2> QED
    BY <2>1, <1>1, KillsLast
<1>2. CASE UNCHANGED <<phase, todo, result, handle>>
  BY <1>2, <1>1
<1>3. ASSUME NEW d \in Cleaners, ListProcesses(d) PROVE sig'[p] = "kill"
  BY <1>3, <1>1 DEF ListProcesses, Move
<1>4. ASSUME NEW d \in Cleaners, EndLoop(d) PROVE sig'[p] = "kill"
  BY <1>4, <1>1 DEF EndLoop, Move
<1>5. ASSUME NEW d \in Cleaners, OpenFails(d) \/ Abort(d) \/ Close(d) PROVE sig'[p] = "kill"
  BY <1>5, <1>1 DEF OpenFails, Abort, Fail, Close, Move, Results
<1>6. ASSUME NEW d \in Cleaners, NEW q \in Pids,
             MatchProcess(d, q) \/ OpenProcess(d, q) \/ TerminateProcess(d, q)
      PROVE  sig'[p] = "kill"
  BY <1>6, <1>1 DEF MatchProcess, OpenProcess, TerminateProcess, Visit
<1>7. ASSUME NEW d \in Cleaners, NEW q \in Pids, AwaitProcess(d, q) PROVE sig'[p] = "kill"
  BY <1>7, <1>1 DEF AwaitProcess, Visit, Move
<1>8. ASSUME NEW d \in Cleaners, NEW q \in Pids, KillProcess(d, q) PROVE sig'[p] = "kill"
  <2>1. CASE Done
    BY <2>1, <1>8, <1>1 DEF KillProcess
  <2>2. CASE ~Done
    BY <2>2, <1>8 DEF KillProcess, Visit, Move, Signalled
  <2> QED
    BY <2>1, <2>2
<1>9. ASSUME NEW q \in Pids, Exit(q) PROVE sig'[p] = "kill"
  <2>1. handle[c][p] = "open"
    BY <1>9 DEF Exit
  <2> QED
    BY <2>1, <1>9, <1>1 DEF Exit
<1>10. ASSUME NEW q \in Pids, Start(q) PROVE sig'[p] = "kill"
  BY <1>10, <1>2 DEF Start, cleanerVars
<1>11. CASE UNCHANGED vars
  BY <1>11, <1>2 DEF vars
<1> QED
  BY <1>3, <1>4, <1>5, <1>6, <1>7, <1>8, <1>9, <1>10, <1>11 DEF Next, CleanerStep, Proceed

\* Neither the match nor the opening of pidfds passes over a process that stays.
LEMMA OverlookedStep == TypeOK /\ NotOverlooked /\ [Next]_vars => NotOverlooked'
<1> SUFFICES ASSUME TypeOK, NotOverlooked, [Next]_vars PROVE NotOverlooked'
  OBVIOUS
<1> USE DEF TypeOK, NotOverlooked
<1>1. ASSUME NEW c \in Cleaners, ListProcesses(c) PROVE NotOverlooked'
  BY <1>1 DEF ListProcesses, Move
<1>2. ASSUME NEW c \in Cleaners, EndLoop(c) PROVE NotOverlooked'
  <2> SUFFICES ASSUME NEW d \in Cleaners, NEW p \in present[d]
               PROVE  /\ phase'[d] # "idle"
                      /\ phase'[d] = "match" => p \in todo'[d] \cup found'[d]
                      /\ phase'[d] = "open" => p \in todo'[d] \/ handle[d][p] = "open"
                      /\ phase'[d] \notin {"match", "open"} => handle[d][p] = "open"
    BY <1>2 DEF EndLoop
  <2>1. CASE d # c
    BY <1>2, <2>1 DEF EndLoop, Move
  <2>2. CASE d = c
    BY <1>2, <2>2 DEF EndLoop, Move
  <2> QED
    BY <2>1, <2>2
<1>3. ASSUME NEW c \in Cleaners, OpenFails(c) \/ Abort(c) \/ Close(c) PROVE NotOverlooked'
  BY <1>3 DEF OpenFails, Abort, Fail, Close, Move
<1>4. ASSUME NEW c \in Cleaners, NEW q \in Pids, MatchProcess(c, q) PROVE NotOverlooked'
  BY <1>4 DEF MatchProcess, Visit
<1>5. ASSUME NEW c \in Cleaners, NEW q \in Pids, OpenProcess(c, q) PROVE NotOverlooked'
  BY <1>5 DEF OpenProcess, Visit
<1>6. ASSUME NEW c \in Cleaners, NEW q \in Pids,
             TerminateProcess(c, q) \/ AwaitProcess(c, q) \/ KillProcess(c, q)
      PROVE  NotOverlooked'
  BY <1>6 DEF TerminateProcess, AwaitProcess, KillProcess, Visit, Move
<1>7. ASSUME NEW q \in Pids, Exit(q) PROVE NotOverlooked'
  BY <1>7 DEF Exit
<1>8. ASSUME NEW q \in Pids, Start(q) PROVE NotOverlooked'
  BY <1>8 DEF Start, cleanerVars
<1>9. CASE UNCHANGED vars
  BY <1>9 DEF vars
<1> QED
  BY <1>1, <1>2, <1>3, <1>4, <1>5, <1>6, <1>7, <1>8, <1>9 DEF Next, CleanerStep, Proceed

\* A cleanup that reports success has left alone none of the sandbox's processes
\* that were there when it began, nor any other that it opened: each has exited or
\* has been sent SIGKILL.
THEOREM OrphanNoneSpared == Spec => []NoneSpared
<1>1. Init => VisitedAreDone /\ OpenedAreDone /\ NotOverlooked
  BY DEF Init, VisitedAreDone, OpenedAreDone, NotOverlooked
<1>2. TypeOK /\ OpenedAreDone /\ NotOverlooked => NoneSpared
  BY DEF TypeOK, OpenedAreDone, NotOverlooked, NoneSpared
<1> QED
  BY <1>1, <1>2, SparedStep, OverlookedStep, OrphanTypes, PTL DEF Spec

-----------------------------------------------------------------------------
\* What a signal adds to: a process never falls back to an earlier state.
LEMMA SignalsGrow ==
    ASSUME TypeOK, [Next]_vars, NEW c \in Cleaners, NEW p \in Pids,
           handle[c][p] = "open", handle'[c][p] = "open"
    PROVE  /\ sig[p] # "none" => sig'[p] # "none"
           /\ sig[p] \in {"due", "kill"} => sig'[p] \in {"due", "kill"}
<1> USE DEF TypeOK
<1>1. ASSUME NEW d \in Cleaners, NEW q \in Pids,
             TerminateProcess(d, q) \/ AwaitProcess(d, q) \/ KillProcess(d, q)
      PROVE  /\ sig[p] # "none" => sig'[p] # "none"
             /\ sig[p] \in {"due", "kill"} => sig'[p] \in {"due", "kill"}
  BY <1>1 DEF TerminateProcess, AwaitProcess, KillProcess, Signalled
<1>2. CASE \E q \in Pids : Exit(q)
  BY <1>2 DEF Exit
<1> QED
  BY <1>1, <1>2
  DEF Next, CleanerStep, Proceed, ListProcesses, EndLoop, OpenFails, Abort, Fail, Close,
      MatchProcess, OpenProcess, Start, vars

\* The steps of the loops keep the order of SIGTERM, deadline and SIGKILL.
LEMMA WarnedStep == TypeOK /\ AllWarned /\ [Next]_vars => AllWarned'
<1> SUFFICES ASSUME TypeOK, AllWarned, [Next]_vars,
                    NEW c \in Cleaners, NEW p \in Pids, handle'[c][p] = "open"
             PROVE  /\ (phase'[c] = "terminate" /\ p \notin todo'[c])
                          \/ phase'[c] \in {"wait", "kill"} => sig'[p] # "none"
                    /\ phase'[c] \in {"wait", "kill"} /\ expired'[c] => sig'[p] # "term"
                    /\ phase'[c] = "kill" => expired'[c]
  BY DEF AllWarned
<1> DEFINE Warned == /\ (phase'[c] = "terminate" /\ p \notin todo'[c])
                           \/ phase'[c] \in {"wait", "kill"} => sig'[p] # "none"
                     /\ phase'[c] \in {"wait", "kill"} /\ expired'[c] => sig'[p] # "term"
                     /\ phase'[c] = "kill" => expired'[c]
<1>a. sig[p] \in {"none", "term", "due", "kill"} /\ sig'[p] \in {"none", "term", "due", "kill"}
  BY TypesStep DEF TypeOK
<1> USE DEF TypeOK, AllWarned
<1>1. CASE /\ handle[c][p] = "open" /\ phase'[c] = phase[c] /\ todo'[c] = todo[c]
           /\ expired'[c] = expired[c]
  BY <1>1, <1>a, SignalsGrow
<1>2. ASSUME NEW d \in Cleaners, ListProcesses(d) \/ OpenFails(d) \/ Abort(d) \/ Close(d)
      PROVE  Warned
  BY <1>2, <1>1 DEF ListProcesses, OpenFails, Abort, Fail, Close, Move
<1>3. ASSUME NEW d \in Cleaners, EndLoop(d) PROVE Warned
  BY <1>3, <1>1 DEF EndLoop, Move
<1>4. ASSUME NEW d \in Cleaners, NEW q \in Pids, MatchProcess(d, q) \/ OpenProcess(d, q)
      PROVE  Warned
  BY <1>4, <1>1 DEF MatchProcess, OpenProcess, Visit
<1>5. ASSUME NEW d \in Cleaners, NEW q \in Pids, TerminateProcess(d, q) PROVE Warned
  BY <1>5, <1>1 DEF TerminateProcess, Visit, Signalled
<1>6. ASSUME NEW d \in Cleaners, NEW q \in Pids, AwaitProcess(d, q) PROVE Warned
  <2>1. handle[c][p] = "open"
    BY <1>6 DEF AwaitProcess
  <2>2. CASE d # c
    BY <1>6, <2>1, <2>2, <1>1 DEF AwaitProcess, Visit, Move
  <2>3. CASE d = c
    BY <1>6, <2>1, <2>3, <1>a DEF AwaitProcess, Visit, Move
  <2> QED
    BY <2>2, <2>3
<1>7. ASSUME NEW d \in Cleaners, NEW q \in Pids, KillProcess(d, q) PROVE Warned
  <2>1. handle[c][p] = "open"
    BY <1>7 DEF KillProcess
  <2>2. CASE d # c
    BY <1>7, <2>1, <2>2, <1>1 DEF KillProcess, Visit, Move
  <2>3. CASE d = c
    BY <1>7, <2>1, <2>3, <1>a DEF KillProcess, Visit, Move, Signalled
  <2> QED
    BY <2>2, <2>3
<1>8. ASSUME NEW q \in Pids, Exit(q) PROVE Warned
  <2>1. handle[c][p] = "open"
    BY <1>8 DEF Exit
  <2> QED
    BY <1>8, <2>1, <1>1 DEF Exit
<1>9. CASE (\E q \in Pids : Start(q)) \/ UNCHANGED vars
  BY <1>9, <1>1 DEF Start, cleanerVars, vars
<1> QED
  BY <1>2, <1>3, <1>4, <1>5, <1>6, <1>7, <1>8, <1>9 DEF Next, CleanerStep, Proceed

\* No process is sent SIGKILL before three seconds have passed since its
\* SIGTERM, by whatever cleanup, in whatever place of the row.
THEOREM OrphanKillsOnlyOverdue == Spec => KillsOnlyOverdue
<1>1. Init => AllWarned
  BY DEF Init, AllWarned
<1>2. TypeOK /\ AllWarned /\ [Next]_vars =>
          [\A p \in Pids : sig'[p] = "kill" => sig[p] \in {"due", "kill"}]_vars
  <2> SUFFICES ASSUME TypeOK, AllWarned, Next, NEW p \in Pids, sig'[p] = "kill", sig[p] # "kill"
               PROVE  sig[p] = "due"
    BY DEF TypeOK, vars
  <2>1. PICK c \in Cleaners, q \in Pids : KillProcess(c, q)
    BY DEF TypeOK, Next, CleanerStep, Proceed, ListProcesses, EndLoop, OpenFails, Abort, Fail,
           Close, MatchProcess, OpenProcess, TerminateProcess, AwaitProcess, Signalled, Exit, Start
  <2>2. q = p /\ handle[c][p] = "open" /\ phase[c] = "kill"
    BY <2>1 DEF KillProcess, Signalled, Move, TypeOK
  <2> QED
    BY <2>2 DEF AllWarned, TypeOK
<1> QED
  BY <1>1, <1>2, WarnedStep, OrphanTypes, PTL DEF Spec, KillsOnlyOverdue
=============================================================================
