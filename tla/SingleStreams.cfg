CONSTANTS
    NumSets = 4
    Assoc = 1
    NumPages = 2
    LinesPerPage = 4
    CounterMod = 1
    CountCompulsory = FALSE
    DoAddrTrans = FALSE
    Prefetcher = "sequential"
SPECIFICATION PrefetchingSpec
PROPERTIES StreamsGoOn
