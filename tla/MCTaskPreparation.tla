-------------------------- MODULE MCTaskPreparation --------------------------
(* Two tasks with the same image, an image containerd will not delete, and *)
(* a proxy whose bootstrap spells its keys the other way, for TLC.         *)
EXTENDS TaskPreparation

CONSTANTS app, envoy, i1, i2

MCTasks     == {app, envoy}
MCImages    == {i1, i2}
MCImageOf   == [t \in MCTasks |-> i1]
MCForcePull == {app}
MCStuck     == {i2}
HostDns     == [t \in MCTasks |-> {}]
MCHostFiles == {<<{"127.0.0.53", "search"}, {"10.0.0.2"}>>, <<{"127.0.0.53"}, {}>>}
MCBootstrap ==
    [t \in MCTasks |->
        IF t = app THEN {}
        ELSE {[name |-> "local_agent", keys |-> "loadAssignment", address |-> "pipe"],
              [name |-> "admin", keys |-> "load_assignment", address |-> "pipe"]}]
MCFaults    == {"WriteFile", "CreateContainer", "ListImages"}
=============================================================================
