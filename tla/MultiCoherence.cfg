CONSTANTS
    NumDomains = 3
    Threads = {0, 1, 2}
    TidToDomain <- ThreeThreads
    NumSets = 1
    Assoc = 1
    NumPages = 1
    LinesPerPage = 2
    CounterMod = 2
    CountCompulsory = FALSE
    DoAddrTrans = FALSE
SPECIFICATION Spec
INVARIANTS Coherence StatsBalance
PROPERTIES MemoryReadsAreFresh ImplementsSharing
