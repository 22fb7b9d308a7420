---------------------------- MODULE TaskContract ----------------------------
(***************************************************************************)
(* What the driver promises Nomad about each task: a container starts once *)
(* per handle and never beside one that is left of an earlier run, an exit *)
(* is reported when the container has ended or the driver has lost sight   *)
(* of it, and in no other case, the handle is given up only after the      *)
(* report, and a crash of the plugin neither starts nor stops anything.    *)
(* No sandbox, no goroutine and no containerd.                             *)
(*                                                                         *)
(*    absent      no handle                                                *)
(*    starting    a handle whose container has not been started            *)
(*    running     started, no exit reported                                *)
(*    exited      the exit is reported                                     *)
(*    lost        Nomad's handle after a crash                             *)
(*    recovered   a handle again, its container not looked at yet          *)
(***************************************************************************)
CONSTANT Tasks

VARIABLES state,   \* what Nomad was told of each task
          live,    \* the tasks whose container has not ended
          unseen   \* those of them that the driver has lost sight of

contractVars == <<state, live, unseen>>

Moves(t, from, to) ==
    /\ state[t] = from
    /\ state' = [state EXCEPT ![t] = to]

Init ==
    /\ state = [t \in Tasks |-> "absent"]
    /\ live = {}
    /\ unseen = {}

\* StartTask succeeds; a container that a crash left has ended by then.
Start(t) ==
    /\ Moves(t, "absent", "starting")
    /\ t \notin live
    /\ UNCHANGED <<live, unseen>>

\* The container starts after the call has returned, or fails to.
Launch(t) ==
    /\ Moves(t, "starting", "running")
    /\ live' \in {live, live \cup {t}}
    /\ UNCHANGED unseen

\* The wait for the exit of a task breaks off.
Lose(t) ==
    /\ state[t] = "running" /\ t \in live
    /\ unseen' = unseen \cup {t}
    /\ UNCHANGED <<state, live>>

\* The exit is reported.
Report(t) ==
    /\ state[t] \in {"starting", "running"}
    /\ t \in live => t \in unseen
    /\ state' = [state EXCEPT ![t] = "exited"]
    /\ UNCHANGED <<live, unseen>>

\* DestroyTask returns.
Destroy(t) == Moves(t, "exited", "absent") /\ UNCHANGED <<live, unseen>>

\* Containers end, by themselves, killed or with their VM.
End ==
    /\ live' \in SUBSET live
    /\ unseen' = unseen \cap live'
    /\ UNCHANGED state

\* The plugin dies: nothing in flight is reported, and Nomad asks again for the
\* tasks it has handles of, unless it was destroying them.
Crash ==
    /\ \E kept \in SUBSET {t \in Tasks : state[t] # "absent"} :
           state' = [t \in Tasks |-> IF t \in kept THEN "lost" ELSE "absent"]
    /\ unseen' = {}
    /\ UNCHANGED live

Recover(t) == Moves(t, "lost", "recovered") /\ UNCHANGED <<live, unseen>>

\* RecoverTask refuses.
GiveUp(t) == Moves(t, "lost", "absent") /\ UNCHANGED <<live, unseen>>

\* A recovered task is waited for again, or its exit is reported at once: a
\* container that still runs is lost sight of.
Attach(t) ==
    /\ \/ Moves(t, "recovered", "running") /\ unseen' \in {unseen, unseen \cup ({t} \cap live)}
       \/ Moves(t, "recovered", "exited") /\ unseen' = unseen \cup ({t} \cap live)
    /\ UNCHANGED live

Next ==
    \/ End
    \/ \E t \in Tasks :
           \/ Start(t) \/ Launch(t) \/ Lose(t) \/ Report(t) \/ Destroy(t)
           \/ Recover(t) \/ GiveUp(t) \/ Attach(t)
    \/ Crash

Safety == Init /\ [][Next]_contractVars

\* An exit is reported sooner or later.
Spec == Safety /\ \A t \in Tasks : WF_contractVars(Report(t))
=============================================================================
