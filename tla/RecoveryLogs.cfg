SPECIFICATION Spec
CONSTANTS
    t1 = t1
    t2 = t2
    a1 = a1
    Nobody = Nobody
    Callers <- Pair
    Allocs <- MCAllocs
    AllocOf <- MCAllocOf
    Ids <- MCIds
    ContainerID <- MCContainer
    SandboxID <- MCSandbox
    Faults <- LogFaults
    PromptExit = TRUE
    Watched <- NoAllocs
    NumSlots = 1
    MaxStarts <- Once
    MaxCrashes = 1
    KillTimeouts = FALSE
    Lossy <- MCAllocs
SYMMETRY MCSymmetry
INVARIANTS
    ExitMeansStopped
