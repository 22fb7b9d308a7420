---------------------------- MODULE MCKataDriver ----------------------------
(* Two tasks of one allocation, for TLC.  The ID of a container or of a    *)
(* sandbox is its task or its allocation.                                  *)
EXTENDS KataDriver, TLC

CONSTANTS t1, t2, a1

Pair == {t1, t2}

MCAllocs    == {a1}
NoAllocs    == {}
MCAllocOf   == [t \in Callers |-> a1]
MCIds       == Callers \cup Allocs
MCContainer == [t \in Callers |-> t]
MCSandbox   == [a \in Allocs |-> a]

Once        == [t \in Callers |-> 1]
Twice       == [t \in Callers |-> 2]
\* Only t1 is restarted.
OneRestarts == [t \in Callers |-> IF t = t1 THEN 2 ELSE 1]

NoFaults     == {}
StartFaults  == {"Config", "EnsurePauseImage", "CreateContainer",
                 "CreateSandboxMetadata", "StartTask", "Prepare", "Wait"}
HostFaults   == {"Logs", "Marker", "TaskState", "Transport", "Wait"}
KillFaults   == {"KillTask", "TaskState"}
LogFaults    == {"Logs"}

MCSymmetry == Permutations(Callers)
=============================================================================
