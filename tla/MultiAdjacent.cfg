CONSTANTS
    NumDomains = 2
    Threads = {0, 1}
    TidToDomain <- TwoThreads
    NumSets = 2
    Assoc = 1
    NumPages = 2
    LinesPerPage = 2
    CounterMod = 1
    CountCompulsory = FALSE
    DoAddrTrans = FALSE
    Prefetcher = "adjacent"
SPECIFICATION PrefetchingSpec
PROPERTIES EveryAccessReturns
