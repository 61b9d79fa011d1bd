CONSTANTS
    NumSets = 4
    Assoc = 1
    NumPages = 2
    LinesPerPage = 4
    CounterMod = 2
    CountCompulsory = FALSE
    DoAddrTrans = FALSE
    Prefetcher = "sequential"
SPECIFICATION PrefetchingSpec
INVARIANTS SetsWellKept StatsBalance PrefetchesDoNotNest
PROPERTIES EveryAccessReturns PrefetchesCountWriteBacksOnly
