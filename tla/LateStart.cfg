SPECIFICATION Spec
CONSTANTS
    t1 = t1
    t2 = t2
    a1 = a1
    Nobody = Nobody
    Callers <- Pair
    Allocs <- MCAllocs
    AllocOf <- MCAllocOf
    Ids <- MCIds
    ContainerID <- MCContainer
    SandboxID <- MCSandbox
    Faults <- NoFaults
    PromptExit = TRUE
    Watched <- NoAllocs
    NumSlots = 2
    MaxStarts <- Twice
    MaxCrashes = 0
    KillTimeouts = TRUE
    Lossy <- NoAllocs
SYMMETRY MCSymmetry
INVARIANTS
    OnlyLostVMsCondemned
