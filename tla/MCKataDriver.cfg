SPECIFICATION FairSpec
CONSTANTS
    t1 = t1
    t2 = t2
    a1 = a1
    Nobody = Nobody
    Callers <- Pair
    Allocs <- MCAllocs
    AllocOf <- MCAllocOf
    Ids <- MCIds
    ContainerID <- MCContainer
    SandboxID <- MCSandbox
    Faults <- StartFaults
    PromptExit = TRUE
    Watched <- Pair
    NumSlots = 1
    MaxStarts <- Twice
    MaxCrashes = 0
    KillTimeouts = FALSE
    Lossy <- MCAllocs
INVARIANTS
    TypeOK
    OnlyLostVMsCondemned
    ExitWasSeen
    NothingLeft
    BootsOnCleanSlate
    ContainersRemoved
PROPERTIES
    KillsOnlyIdleVM
    LossIsNoticed
    FulfilsContract
