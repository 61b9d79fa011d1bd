CONSTANTS
    NumDomains = 2
    Threads = {0, 1}
    TidToDomain <- TwoThreads
    NumSets = 4
    Assoc = 1
    NumPages = 2
    LinesPerPage = 2
    CounterMod = 1
    CountCompulsory = FALSE
    DoAddrTrans = FALSE
    Prefetcher = "sequential"
SPECIFICATION PrefetchingSpec
PROPERTIES MissesAreNoted
