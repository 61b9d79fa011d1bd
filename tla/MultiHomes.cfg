CONSTANTS
    NumDomains = 2
    Threads = {0, 1, 2}
    TidToDomain <- SharedDomain
    NumSets = 1
    Assoc = 2
    NumPages = 2
    LinesPerPage = 2
    CounterMod = 1
    CountCompulsory = FALSE
    DoAddrTrans = TRUE
SPECIFICATION Spec
INVARIANTS TypeOK SetsWellKept HomesKnown TranslationInjective
PROPERTIES HomesNeverMove
