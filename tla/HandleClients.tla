---------------------------- MODULE HandleClients ----------------------------
(***************************************************************************)
(* The clients of one task's handles: kata/driver.go's taskStore, WaitTask *)
(* and TaskStats over kata/handle.go and kata/stats.go, while the task     *)
(* exits, is destroyed and is started again.  Every start makes a handle   *)
(* of its own, numbered 1, 2, ...; all of them go by one container ID.     *)
(*                                                                         *)
(* The goroutine of WaitTask call w is at   none, select, send or closed;  *)
(* the goroutine of the stats stream at     none, tick, parse, send or     *)
(* closed.                                                                 *)
(***************************************************************************)
EXTENDS Integers

CONSTANTS Waiters,     \* WaitTask calls that may be open at a time
          ExitCodes,   \* what a task may exit with
          MaxStarts,   \* bound: handles made
          MaxTime      \* bound: units of time that pass

ASSUME BoundsAssumption == MaxStarts \in Nat /\ MaxTime \in Nat
ASSUME CodesAssumption  == ExitCodes \cap {"none", "cancelled"} = {}

VARIABLES
    made,       \* handles made so far
    stored,     \* the handle in taskStore, 0 for none
    exit,       \* exitResult of each handle
    doneCh,     \* handles whose doneCh is closed
    container,  \* the container: none, running or stopped
    cpu,        \* its CPU time, as its cgroup counts it
    now,        \* the time
    wait,       \* the WaitTask calls
    stream,     \* where the stats stream stands
    stop,       \* the stream's context is cancelled
    sample,     \* the metrics it has just read
    previous,   \* the metrics of its last report
    usage       \* its last report

taskVars  == <<made, stored, exit, doneCh, container>>
clock     == <<cpu, now>>
statsVars == <<stream, stop, sample, previous, usage>>
vars      == <<made, stored, exit, doneCh, container, cpu, now, wait,
               stream, stop, sample, previous, usage>>

Handles == 1 .. MaxStarts

Calls == [at: {"none", "select", "send", "closed"}, of: 0 .. MaxStarts,
          answer: ExitCodes \cup {"none", "cancelled"}, cancelled: BOOLEAN, reader: BOOLEAN]
NoCall == [at |-> "none", of |-> 0, answer |-> "none", cancelled |-> FALSE, reader |-> FALSE]

\* A reading of the counter, when it was taken and the timestamp it was given.
Metrics   == [cpu: Nat, read: Nat, stamp: Int]
NoMetrics == [cpu |-> 0, read |-> 0, stamp |-> -1]

\* CPU time over elapsed time, and how late the earlier timestamp was.
Reports  == [used: Int, elapsed: Int, late: Int]
NoReport == [used |-> 0, elapsed |-> 0, late |-> 0]

TypeOK ==
    /\ made \in 0 .. MaxStarts
    /\ stored \in 0 .. made
    /\ exit \in [Handles -> ExitCodes \cup {"none"}]
    /\ doneCh \in SUBSET Handles
    /\ container \in {"none", "running", "stopped"}
    /\ cpu \in Nat /\ now \in Nat
    /\ wait \in [Waiters -> Calls]
    /\ stream \in {"none", "tick", "parse", "send", "closed"}
    /\ stop \in BOOLEAN
    /\ sample \in Metrics /\ previous \in Metrics
    /\ usage \in Reports

Init ==
    /\ made = 0 /\ stored = 0
    /\ exit = [h \in Handles |-> "none"]
    /\ doneCh = {}
    /\ container = "none"
    /\ cpu = 0 /\ now = 0
    /\ wait = [w \in Waiters |-> NoCall]
    /\ stream = "none" /\ stop = FALSE
    /\ sample = NoMetrics /\ previous = NoMetrics
    /\ usage = NoReport

-----------------------------------------------------------------------------
(* The task and its handles.                                               *)

\* StartTask: what is left of the container is cleaned up, and a new handle
\* follows a new one, whose counter starts at zero.
StartTask ==
    /\ stored = 0 /\ container # "running"
    /\ made < MaxStarts
    /\ made' = made + 1
    /\ stored' = made + 1
    /\ container' = "running"
    /\ UNCHANGED <<exit, doneCh, clock, wait, statsVars>>

\* The container exits, by itself or of a signal, and its cgroup goes.
TaskExits ==
    /\ container = "running"
    /\ container' = "stopped"
    /\ cpu' = 0
    /\ UNCHANGED <<made, stored, exit, doneCh, now, wait, statsVars>>

\* What handle h follows has exited.
Ended(h) == h < made \/ container # "running"

\* As if doneCh were closed before the result is stored.
Mutant_ClosedFirst(h) ==
    /\ h \in 1 .. made \ doneCh
    /\ doneCh' = doneCh \cup {h}
    /\ UNCHANGED <<made, stored, exit, container, clock, wait, statsVars>>

\* setExit, under the handle's mutex, when RunTask or MonitorTask returns, or at
\* once when the log files cannot be opened or the task cannot be waited for.
SetExit(h) ==
    /\ h \in 1 .. made
    /\ exit[h] = "none"
    /\ \E code \in ExitCodes : exit' = [exit EXCEPT ![h] = code]
    /\ UNCHANGED <<made, stored, doneCh, container, clock, wait, statsVars>>

\* The deferred close, after it.
CloseDone(h) ==
    /\ h \in 1 .. made \ doneCh
    /\ exit[h] # "none"
    /\ doneCh' = doneCh \cup {h}
    /\ UNCHANGED <<made, stored, exit, container, clock, wait, statsVars>>

\* As if the entry were set to nil and not deleted.
Mutant_SetToNil ==
    /\ stored # 0
    /\ container' = IF container = "stopped" THEN "none" ELSE container
    /\ stored' = -1
    /\ UNCHANGED <<made, exit, doneCh, clock, wait, statsVars>>

\* A task that runs is killed and waited for, five seconds at most; then the
\* container goes, unless it still runs, and the handle leaves the store.
DestroyTask ==
    /\ stored # 0
    /\ container' = IF container = "stopped" THEN "none" ELSE container
    /\ stored' = 0
    /\ UNCHANGED <<made, exit, doneCh, clock, wait, statsVars>>

-----------------------------------------------------------------------------
(* WaitTask.                                                               *)

WaitTask(w) ==
    /\ stored # 0
    /\ wait[w].at \in {"none", "closed"}
    /\ wait' = [wait EXCEPT ![w] = [NoCall EXCEPT !.at = "select", !.of = stored,
                                                  !.reader = TRUE]]
    /\ UNCHANGED <<taskVars, clock, statsVars>>

\* As if the handle were looked up again once the wait is over.
Mutant_LookedUpAgain(w) ==
    /\ wait[w].at = "select"
    /\ \/ /\ wait[w].of \in doneCh /\ stored # 0
          /\ wait' = [wait EXCEPT ![w].at = "send", ![w].answer = exit[stored]]
       \/ /\ wait[w].cancelled
          /\ wait' = [wait EXCEPT ![w].at = "send", ![w].answer = "cancelled"]
    /\ UNCHANGED <<taskVars, clock, statsVars>>

\* As if the context were not looked at.
Mutant_ContextIgnored(w) ==
    /\ wait[w].at = "select"
    /\ wait[w].of \in doneCh
    /\ wait' = [wait EXCEPT ![w].at = "send", ![w].answer = exit[wait[w].of]]
    /\ UNCHANGED <<taskVars, clock, statsVars>>

\* doneCh or the context; whichever is chosen if both are ready.
Select(w) ==
    /\ wait[w].at = "select"
    /\ \/ /\ wait[w].of \in doneCh
          /\ wait' = [wait EXCEPT ![w].at = "send", ![w].answer = exit[wait[w].of]]
       \/ /\ wait[w].cancelled
          /\ wait' = [wait EXCEPT ![w].at = "send", ![w].answer = "cancelled"]
    /\ UNCHANGED <<taskVars, clock, statsVars>>

\* The channel has no buffer: the send takes a reader, and then it is closed.
Send(w) ==
    /\ wait[w].at = "send"
    /\ wait[w].reader
    /\ wait' = [wait EXCEPT ![w].at = "closed"]
    /\ UNCHANGED <<taskVars, clock, statsVars>>

Cancel(w) ==
    /\ wait[w].at \in {"select", "send"} /\ ~wait[w].cancelled
    /\ wait' = [wait EXCEPT ![w].cancelled = TRUE]
    /\ UNCHANGED <<taskVars, clock, statsVars>>

\* A reader that selects on the same context may leave without an answer.
ReaderLeaves(w) ==
    /\ wait[w].cancelled /\ wait[w].reader /\ wait[w].at # "closed"
    /\ wait' = [wait EXCEPT ![w].reader = FALSE]
    /\ UNCHANGED <<taskVars, clock, statsVars>>

-----------------------------------------------------------------------------
(* TaskStats.                                                              *)

TaskStats ==
    /\ stored # 0
    /\ stream \in {"none", "closed"}
    /\ stream' = "tick"
    /\ UNCHANGED <<taskVars, clock, wait, stop, sample, previous, usage>>

\* Metrics: the shim reads the counter of whatever runs under the container ID.
\* A read that fails leaves the loop where it is, the previous sample too.
ReadMetrics ==
    /\ stream = "tick"
    /\ container = "running"
    /\ stream' = "parse"
    /\ sample' = [sample EXCEPT !.cpu = cpu, !.read = now]
    /\ UNCHANGED <<taskVars, clock, wait, stop, previous, usage>>

\* The reply is lost: a transport error, or the cancelled context.
ReadFails ==
    /\ stream = "parse"
    /\ stream' = "tick"
    /\ sample' = NoMetrics
    /\ UNCHANGED <<taskVars, clock, wait, stop, previous, usage>>

\* As the difference of two uint64 (here of 16 bits) would be without the guard.
Mutant_Wraps(before, current) == (current - before) % (2^16)

\* The CPU time between two readings; a counter that went back counts nothing.
percent(before, current) == IF current <= before THEN 0 ELSE current - before

\* ResourceUsage, against the previous report; the timestamp is taken when the
\* reply is parsed.
Report ==
    /\ stream = "parse"
    /\ stream' = "send"
    /\ usage' = IF previous.stamp >= 0 /\ now > previous.stamp
                THEN [used    |-> percent(previous.cpu, sample.cpu),
                      elapsed |-> now - previous.stamp,
                      late    |-> previous.stamp - previous.read]
                ELSE NoReport
    /\ previous' = [sample EXCEPT !.stamp = now]
    /\ sample' = NoMetrics
    /\ UNCHANGED <<taskVars, clock, wait, stop>>

Deliver ==
    /\ stream = "send"
    /\ ~stop
    /\ stream' = "tick"
    /\ usage' = NoReport
    /\ UNCHANGED <<taskVars, clock, wait, stop, sample, previous>>

\* As if the report were sent without a look at the context.
Mutant_BlockingSend ==
    /\ stop
    /\ stream = "tick"
    /\ stream' = "closed" /\ stop' = FALSE
    /\ previous' = NoMetrics /\ usage' = NoReport
    /\ UNCHANGED <<taskVars, clock, wait, sample>>

\* The context ends the stream in either select.
EndStream ==
    /\ stop
    /\ stream \in {"tick", "send"}
    /\ stream' = "closed" /\ stop' = FALSE
    /\ previous' = NoMetrics /\ usage' = NoReport
    /\ UNCHANGED <<taskVars, clock, wait, sample>>

\* The reader is gone, the report it did not take too.
StopStream ==
    /\ stream \in {"tick", "parse", "send"} /\ ~stop
    /\ stop' = TRUE
    /\ UNCHANGED <<taskVars, clock, wait, stream, sample, previous, usage>>

-----------------------------------------------------------------------------
\* A unit of time, for which a running container has the CPU or not.
Tick ==
    /\ now < MaxTime
    /\ now' = now + 1
    /\ \/ container = "running" /\ cpu' = cpu + 1
       \/ UNCHANGED cpu
    /\ UNCHANGED <<taskVars, wait, statsVars>>

\* The last run Nomad asked for is over.
Gone == stored = 0 /\ made = MaxStarts /\ UNCHANGED vars

WaiterStep(w) == Select(w) \/ Send(w)

Next ==
    \/ StartTask \/ TaskExits \/ DestroyTask
    \/ \E h \in Handles : SetExit(h) \/ CloseDone(h)
    \/ \E w \in Waiters : WaitTask(w) \/ WaiterStep(w) \/ Cancel(w) \/ ReaderLeaves(w)
    \/ TaskStats \/ ReadMetrics \/ ReadFails \/ Report \/ Deliver \/ EndStream \/ StopStream
    \/ Tick
    \/ Gone

Spec == Init /\ [][Next]_vars

\* Goroutines are scheduled, a select does not pass over its ready context for
\* ever, and a reader that stays reads.  Nothing has to exit.
Fairness ==
    /\ \A h \in Handles : WF_vars(Ended(h) /\ SetExit(h)) /\ WF_vars(CloseDone(h))
    /\ \A w \in Waiters : WF_vars(WaiterStep(w))
    /\ SF_vars(EndStream) /\ WF_vars(ReadFails \/ Report)

FairSpec == Spec /\ Fairness

-----------------------------------------------------------------------------
(* Properties.                                                             *)

\* What InspectTask says of a handle, and what DestroyTask goes by.
IsRunning(h) == exit[h] = "none"

\* WaitTask answers with the exit of the run it was called for, never with none
\* or with that of a later run under the same task ID, and then InspectTask and
\* an unforced DestroyTask agree that this run is over; it answers with the
\* context's error only if the context was cancelled.
AnswersAreTrue ==
    \A w \in Waiters : wait[w].at \in {"send", "closed"} =>
        \/ wait[w].answer = "cancelled" /\ wait[w].cancelled
        \/ wait[w].answer = exit[wait[w].of] /\ ~IsRunning(wait[w].of)

\* No report claims more CPU time than one processor has in the interval it is
\* about, whatever was restarted, lost or reset in between.  The interval starts
\* with the previous reading, which the timestamp may follow late.
UsageIsPossible == stream = "send" => usage.used <= usage.elapsed + usage.late

\* Whoever waits for a run that has ended or failed is answered, unless the reader leaves.
WaitersAnswered ==
    \A w \in Waiters :
        (wait[w].at = "select"
            /\ (wait[w].cancelled \/ Ended(wait[w].of) \/ ~IsRunning(wait[w].of)))
        ~> (wait[w].at = "closed" \/ ~wait[w].reader)

\* A stats stream whose context is cancelled ends, also when the task or its
\* container is gone, or when nobody reads.
StreamEnds == stop ~> stream = "closed"
=============================================================================
