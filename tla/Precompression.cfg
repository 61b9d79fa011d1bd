CONSTANTS
    LineBytes = 4
    DataType = 4
    BytesIgnored = 2
    SimThreshold = 3
    Entries = 2
    FrequencyThreshold = 1
    Assoc = 1
    Sets = {0}
    Tags = {0, 1}
    TraceData <- TraceBlocks
    Options <- CommandLines
    MaxFreq = 3
    MaxSame = 2
SPECIFICATION HistorySpec
INVARIANTS FrequencyNeverAborts MappingIsMostSimilar MappedDataxIsCurrent FrequentLinesAreRecent
PROPERTIES TableHoldsMostFrequent ErasedOnlyIfIdle StaleOnlyAfterUpdates
CHECK_DEADLOCK FALSE
