CONSTANTS
    NumSets = 1
    Assoc = 2
    NumPages = 3
    LinesPerPage = 1
    CounterMod = 2
    CountCompulsory = TRUE
    DoAddrTrans = TRUE
    LineBytes = 32
    DataType = 8
    BytesIgnored = 6
    SimThreshold = 50
    Entries = 2
    FrequencyThreshold = 1
    Options <- CommandLines
    TraceData <- TraceBlocks
    MaxFreq = 9
    MaxSame = 9
    Frequency = 2
    WindowStart = 0
    WindowEnd = 3
    MaxLines = 4
SPECIFICATION SimulationSpec
INVARIANTS SimulationTypeOK DequeIsLru DirtyIffWritten PrintedMissesCountSkipped UpdatesKeepUp EntryCompressesWell EvictionRecordsAreWriteBacks
PROPERTIES CompulsoryIsMiss WriteBackIffWritten TurnoverCountsSurvivors TraceOmitsReadHits
CHECK_DEADLOCK FALSE
