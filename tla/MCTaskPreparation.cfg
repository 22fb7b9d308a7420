SPECIFICATION FairSpec
CONSTANTS
    app = app
    envoy = envoy
    i1 = i1
    i2 = i2
    Tasks <- MCTasks
    Images <- MCImages
    ImageOf <- MCImageOf
    ForcePull <- MCForcePull
    Servers <- HostDns
    HostFiles <- MCHostFiles
    Bootstrap <- MCBootstrap
    Stuck <- MCStuck
    Faults <- MCFaults
    SlowRounds = FALSE
    MaxCrashes = 1
INVARIANTS
    TypeOK
    FetchedStays
    EnvoyReachesConsul
    NamesResolve
PROPERTIES
    ImagesReclaimed
    PreparationReturns
