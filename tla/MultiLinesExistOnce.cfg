CONSTANTS
    NumDomains = 2
    Threads = {0, 1}
    TidToDomain <- TwoThreads
    NumSets = 2
    Assoc = 2
    NumPages = 4
    LinesPerPage = 2
    CounterMod = 1
    CountCompulsory = FALSE
    DoAddrTrans = FALSE
    Prefetcher = "sequential"
SPECIFICATION PrefetchingSpec
INVARIANTS LinesExistOnce
