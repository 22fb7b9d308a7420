SPECIFICATION Spec
CONSTANTS
    t1 = t1
    t2 = t2
    a1 = a1
    Nobody = Nobody
    Callers <- Pair
    Allocs <- MCAllocs
    AllocOf <- MCAllocOf
    Ids <- MCIds
    ContainerID <- MCContainer
    SandboxID <- MCSandbox
    Faults <- NoFaults
    PromptExit = FALSE
    Watched <- MCAllocs
    NumSlots = 2
    MaxStarts <- OneRestarts
    MaxCrashes = 0
    KillTimeouts = TRUE
    Lossy <- NoAllocs
INVARIANTS
    OnlyRefusedLeft
    BootsMeetOnlyRefused
