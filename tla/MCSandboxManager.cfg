SPECIFICATION SMFairSpec
CONSTANTS
    c1 = c1
    c2 = c2
    c3 = c3
    c4 = c4
    c5 = c5
    a1 = a1
    a2 = a2
    Nobody = Nobody
    Callers <- MCCallers
    Allocs <- MCAllocs
    AllocOf <- MCAllocOf
INVARIANTS
    SMTypeOK
    RefCountExact
    EntryIffUsed
    CriticalIsAlone
PROPERTIES
    CallsReturn
    SharedSandboxSpec
