CONSTANTS
    NumDomains = 1
    Threads = {0}
    TidToDomain <- OneThread
    NumSets = 2
    Assoc = 1
    NumPages = 2
    LinesPerPage = 2
    CounterMod = 2
    CountCompulsory = TRUE
    DoAddrTrans = TRUE
SPECIFICATION Spec
PROPERTIES ImplementsSingle
