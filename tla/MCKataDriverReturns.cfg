SPECIFICATION FairSpec
CONSTANTS
    t1 = t1
    t2 = t2
    a1 = a1
    Nobody = Nobody
    Callers <- Pair
    Allocs <- MCAllocs
    AllocOf <- MCAllocOf
    Ids <- MCIds
    ContainerID <- MCContainer
    SandboxID <- MCSandbox
    Faults <- KillFaults
    PromptExit = TRUE
    Watched <- NoAllocs
    NumSlots = 1
    MaxStarts <- Once
    MaxCrashes = 0
    KillTimeouts = TRUE
    Lossy <- MCAllocs
PROPERTIES
    DriverCallsReturn
