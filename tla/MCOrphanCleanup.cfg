SPECIFICATION FairSpec
CONSTANTS
    c1 = c1
    c2 = c2
    Cleaners <- Two
    Pids <- MCPids
    Faults <- AllFaults
    QuickReuse = FALSE
INVARIANTS
    TypeOK
    OnlySandboxProcesses
    NoneSpared
PROPERTIES
    KillsOnlyOverdue
    CleanupReturns
