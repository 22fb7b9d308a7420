------------------------- MODULE HandleClientsProofs -------------------------
(***************************************************************************)
(* The clients of a task's handles, for any number of waiters and runs and *)
(* however long it goes on.                                                *)
(***************************************************************************)
EXTENDS HandleClients, TLAPS

\* Nobody finds doneCh closed and no result behind it.
DoneHasExit == \A h \in doneCh : exit[h] # "none"

AnswersInv == DoneHasExit /\ AnswersAreTrue

\* A processor cannot be used for longer than time has passed since a reading.
Fits(m) == /\ m.read <= now
           /\ cpu - m.cpu <= now - m.read

UsageInv ==
    /\ cpu <= now
    /\ Fits(previous) /\ previous.stamp <= now
    /\ stream = "parse" => /\ Fits(sample)
                           /\ sample.cpu - previous.cpu <= sample.read - previous.read
                           /\ previous.read <= sample.read
    /\ UsageIsPossible

-----------------------------------------------------------------------------
\* The types are inductive.
LEMMA ClientTypesStep == TypeOK /\ [Next]_vars => TypeOK'
<1> SUFFICES ASSUME TypeOK, [Next]_vars PROVE TypeOK'
  OBVIOUS
<1> USE BoundsAssumption DEF TypeOK, Handles, Metrics, Reports, NoMetrics, NoReport
<1>1. CASE StartTask
  BY <1>1 DEF StartTask, clock, statsVars
<1>2. CASE TaskExits
  BY <1>2 DEF TaskExits, statsVars
<1>3. CASE DestroyTask
  BY <1>3 DEF DestroyTask, clock, statsVars
<1>4. ASSUME NEW h \in Handles, SetExit(h) \/ CloseDone(h) PROVE TypeOK'
  BY <1>4 DEF SetExit, CloseDone, clock, statsVars
<1>5. ASSUME NEW w \in Waiters,
             WaitTask(w) \/ WaiterStep(w) \/ Cancel(w) \/ ReaderLeaves(w)
      PROVE  TypeOK'
  <2> DEFINE c == wait[w]
  <2>1. c \in Calls
    OBVIOUS
  <2>2. \E d \in Calls : wait' = [wait EXCEPT ![w] = d]
    <3>1. CASE WaitTask(w)
      <4>1. [NoCall EXCEPT !.at = "select", !.of = stored, !.reader = TRUE] \in Calls
        <5>1. stored \in 0 .. MaxStarts
          OBVIOUS
        <5> QED
          BY <5>1 DEF NoCall, Calls
      <4> QED
        BY <3>1, <4>1 DEF WaitTask
    <3>2. CASE Select(w)
      <4>1. \A a \in ExitCodes \cup {"none", "cancelled"} :
               [c EXCEPT !.at = "send", !.answer = a] \in Calls
        BY <2>1 DEF Calls
      <4>2. c.of \in doneCh => exit[c.of] \in ExitCodes \cup {"none", "cancelled"}
        OBVIOUS
      <4>3. \/ c.of \in doneCh
               /\ wait' = [wait EXCEPT ![w] = [c EXCEPT !.at = "send", !.answer = exit[c.of]]]
            \/ wait' = [wait EXCEPT ![w] = [c EXCEPT !.at = "send", !.answer = "cancelled"]]
        BY <3>2 DEF Select
      <4> QED
        BY <4>1, <4>2, <4>3
    <3>3. CASE Send(w)
      <4>1. [c EXCEPT !.at = "closed"] \in Calls
        BY <2>1 DEF Calls
      <4> QED
        BY <3>3, <4>1 DEF Send
    <3>4. CASE Cancel(w)
      <4>1. [c EXCEPT !.cancelled = TRUE] \in Calls
        BY <2>1 DEF Calls
      <4> QED
        BY <3>4, <4>1 DEF Cancel
    <3>5. CASE ReaderLeaves(w)
      <4>1. [c EXCEPT !.reader = FALSE] \in Calls
        BY <2>1 DEF Calls
      <4> QED
        BY <3>5, <4>1 DEF ReaderLeaves
    <3> QED
      BY <1>5, <3>1, <3>2, <3>3, <3>4, <3>5 DEF WaiterStep
  <2>3. wait' \in [Waiters -> Calls]
    BY <2>2
  <2>4. UNCHANGED <<taskVars, clock, statsVars>>
    BY <1>5 DEF WaitTask, WaiterStep, Select, Send, Cancel, ReaderLeaves
  <2> QED
    BY <2>3, <2>4 DEF taskVars, clock, statsVars
<1>6. CASE TaskStats \/ StopStream
  <2>1. UNCHANGED <<taskVars, clock, wait, sample, previous, usage>>
    BY <1>6 DEF TaskStats, StopStream
  <2>2. stream' \in {"none", "tick", "parse", "send", "closed"} /\ stop' \in BOOLEAN
    BY <1>6 DEF TaskStats, StopStream
  <2> QED
    BY <2>1, <2>2 DEF taskVars, clock
<1>7. CASE ReadMetrics \/ ReadFails \/ Deliver \/ EndStream
  <2>1. UNCHANGED <<taskVars, clock, wait>>
    BY <1>7 DEF ReadMetrics, ReadFails, Deliver, EndStream
  <2>2. stream' \in {"none", "tick", "parse", "send", "closed"} /\ stop' \in BOOLEAN
    BY <1>7 DEF ReadMetrics, ReadFails, Deliver, EndStream
  <2>3. sample' \in Metrics /\ previous' \in Metrics /\ usage' \in Reports
    <3>1. CASE ReadMetrics
      <4>1. [sample EXCEPT !.cpu = cpu, !.read = now] \in Metrics
        OBVIOUS
      <4> QED
        BY <3>1, <4>1 DEF ReadMetrics
    <3>2. CASE ReadFails \/ Deliver \/ EndStream
      <4>1. NoMetrics \in Metrics /\ NoReport \in Reports
        OBVIOUS
      <4>2. sample' \in {sample, NoMetrics} /\ previous' \in {previous, NoMetrics}
        BY <3>2 DEF ReadFails, Deliver, EndStream
      <4>3. usage' \in {usage, NoReport}
        BY <3>2 DEF ReadFails, Deliver, EndStream
      <4> QED
        BY <4>1, <4>2, <4>3
    <3> QED
      BY <1>7, <3>1, <3>2
  <2> QED
    BY <2>1, <2>2, <2>3 DEF taskVars, clock
<1>8. CASE Report
  <2>1. UNCHANGED <<taskVars, clock, wait, stop>> /\ stream' = "send"
    BY <1>8 DEF Report
  <2>2. sample' \in Metrics /\ previous' \in Metrics
    BY <1>8 DEF Report, clock
  <2>3. usage' \in Reports
    <3>1. percent(previous.cpu, sample.cpu) \in Int
      BY DEF percent
    <3>2. now - previous.stamp \in Int /\ previous.stamp - previous.read \in Int
      OBVIOUS
    <3> QED
      BY <1>8, <3>1, <3>2 DEF Report
  <2> QED
    BY <2>1, <2>2, <2>3 DEF taskVars, clock
<1>9. CASE Tick
  BY <1>9 DEF Tick, taskVars, statsVars
<1>10. CASE Gone \/ UNCHANGED vars
  BY <1>10 DEF Gone, vars
<1> QED
  BY <1>1, <1>2, <1>3, <1>4, <1>5, <1>6, <1>7, <1>8, <1>9, <1>10 DEF Next

\* Every variable keeps its type.
THEOREM ClientTypes == Spec => []TypeOK
<1>1. ASSUME Init PROVE TypeOK
  <2>1. NoCall \in Calls
    BY BoundsAssumption DEF NoCall, Calls
  <2>2. NoMetrics \in Metrics /\ NoReport \in Reports
    BY DEF NoMetrics, Metrics, NoReport, Reports
  <2>3. made \in 0 .. MaxStarts /\ stored \in 0 .. made /\ cpu \in Nat /\ now \in Nat
    BY <1>1, BoundsAssumption DEF Init
  <2>4. /\ exit \in [Handles -> ExitCodes \cup {"none"}]
        /\ wait \in [Waiters -> Calls]
    BY <1>1, <2>1 DEF Init
  <2> QED
    BY <1>1, <2>2, <2>3, <2>4 DEF Init, TypeOK
<1> QED
  BY <1>1, ClientTypesStep, PTL DEF Spec

-----------------------------------------------------------------------------
\* What the goroutines of WaitTask and of the handles do to the answers.
LEMMA AnswersStep == TypeOK /\ AnswersInv /\ [Next]_vars => AnswersInv'
<1> SUFFICES ASSUME TypeOK, AnswersInv, [Next]_vars PROVE AnswersInv'
  OBVIOUS
<1> USE DEF AnswersInv, DoneHasExit, AnswersAreTrue, IsRunning
<1>1. ASSUME NEW h \in Handles, SetExit(h) PROVE AnswersInv'
  <2>1. UNCHANGED <<wait, doneCh>> /\ exit[h] = "none"
    BY <1>1 DEF SetExit, statsVars
  <2>2. \A g \in Handles : exit[g] # "none" => exit'[g] = exit[g]
    BY <1>1 DEF SetExit, TypeOK
  <2>3. \A w \in Waiters : wait[w].of \in Handles /\ exit[wait[w].of] # "none" =>
            exit'[wait[w].of] = exit[wait[w].of]
    BY <2>2
  <2>4. \A w \in Waiters : wait[w].of \notin Handles => exit'[wait[w].of] = exit[wait[w].of]
    BY <1>1 DEF SetExit, TypeOK
  <2> QED
    BY <2>1, <2>2, <2>3, <2>4 DEF TypeOK
<1>2. ASSUME NEW h \in Handles, CloseDone(h) PROVE AnswersInv'
  BY <1>2 DEF CloseDone
<1>3. ASSUME NEW w \in Waiters,
             WaitTask(w) \/ WaiterStep(w) \/ Cancel(w) \/ ReaderLeaves(w)
      PROVE  AnswersInv'
  <2>1. UNCHANGED <<exit, doneCh>>
    BY <1>3 DEF WaitTask, WaiterStep, Select, Send, Cancel, ReaderLeaves, taskVars
  <2>2. \A v \in Waiters \ {w} : wait'[v] = wait[v]
    BY <1>3 DEF WaitTask, WaiterStep, Select, Send, Cancel, ReaderLeaves, TypeOK
  <2>3. wait'[w].at \in {"send", "closed"} =>
            \/ wait'[w].answer = "cancelled" /\ wait'[w].cancelled
            \/ wait'[w].answer = exit[wait'[w].of] /\ exit[wait'[w].of] # "none"
    <3> USE DEF TypeOK, Calls, NoCall
    <3>1. CASE WaitTask(w)
      BY <3>1 DEF WaitTask
    <3>2. CASE Select(w)
      BY <3>2 DEF Select
    <3>3. CASE Send(w)
      BY <3>3 DEF Send
    <3>4. CASE Cancel(w)
      BY <3>4 DEF Cancel
    <3>5. CASE ReaderLeaves(w)
      BY <3>5 DEF ReaderLeaves
    <3> QED
      BY <1>3, <3>1, <3>2, <3>3, <3>4, <3>5 DEF WaiterStep
  <2> QED
    BY <2>1, <2>2, <2>3
<1>4. CASE UNCHANGED <<exit, doneCh, wait>>
  BY <1>4
<1>5. ASSUME StartTask \/ TaskExits \/ DestroyTask \/ Tick \/ Gone \/ UNCHANGED vars
             \/ TaskStats \/ ReadMetrics \/ ReadFails \/ Report \/ Deliver \/ EndStream
             \/ StopStream
      PROVE  UNCHANGED <<exit, doneCh, wait>>
  BY <1>5
  DEF StartTask, TaskExits, DestroyTask, Tick, Gone, TaskStats, ReadMetrics, ReadFails,
      Report, Deliver, EndStream, StopStream, taskVars, vars
<1> QED
  BY <1>1, <1>2, <1>3, <1>4, <1>5 DEF Next

\* A waiter is told the exit of its own run, and only when it is over.
THEOREM ClientAnswers == Spec => []AnswersAreTrue
<1>1. Init => AnswersInv
  BY DEF Init, AnswersInv, DoneHasExit, AnswersAreTrue, NoCall
<1>2. AnswersInv => AnswersAreTrue
  BY DEF AnswersInv
<1> QED
  BY <1>1, <1>2, ClientTypes, AnswersStep, PTL DEF Spec

-----------------------------------------------------------------------------
\* What time, restarts and the stream do to the readings.
LEMMA UsageStep == TypeOK /\ UsageInv /\ [Next]_vars => UsageInv'
<1> SUFFICES ASSUME TypeOK, UsageInv, [Next]_vars PROVE UsageInv'
  OBVIOUS
<1> USE DEF UsageInv, UsageIsPossible, Fits, TypeOK, Metrics, Reports, NoMetrics, NoReport
<1>1. CASE TaskExits
  BY <1>1 DEF TaskExits, statsVars
<1>2. CASE Tick
  BY <1>2 DEF Tick, statsVars
<1>3. CASE ReadMetrics
  BY <1>3 DEF ReadMetrics, clock
<1>4. CASE Report
  BY <1>4 DEF Report, percent, clock
<1>5. CASE ReadFails \/ Deliver \/ EndStream \/ TaskStats \/ StopStream
  BY <1>5 DEF ReadFails, Deliver, EndStream, TaskStats, StopStream, clock
<1>6. CASE UNCHANGED <<clock, statsVars>>
  BY <1>6 DEF clock, statsVars
<1>7. ASSUME StartTask \/ DestroyTask \/ Gone \/ UNCHANGED vars
             \/ (\E h \in Handles : SetExit(h) \/ CloseDone(h))
             \/ (\E w \in Waiters : WaitTask(w) \/ WaiterStep(w) \/ Cancel(w) \/ ReaderLeaves(w))
      PROVE  UNCHANGED <<clock, statsVars>>
  BY <1>7
  DEF StartTask, DestroyTask, Gone, SetExit, CloseDone, WaitTask, WaiterStep, Select, Send,
      Cancel, ReaderLeaves, clock, statsVars, vars
<1> QED
  BY <1>1, <1>2, <1>3, <1>4, <1>5, <1>6, <1>7 DEF Next

\* No report claims more than a processor can do.
THEOREM ClientUsage == Spec => []UsageIsPossible
<1>1. Init => UsageInv
  BY DEF Init, UsageInv, UsageIsPossible, Fits, NoMetrics
<1>2. UsageInv => UsageIsPossible
  BY DEF UsageInv
<1> QED
  BY <1>1, <1>2, ClientTypes, UsageStep, PTL DEF Spec
=============================================================================
