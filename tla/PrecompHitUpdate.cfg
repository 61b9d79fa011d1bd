CONSTANTS
    LineBytes = 4
    DataType = 4
    BytesIgnored = 2
    SimThreshold = 3
    Entries = 2
    FrequencyThreshold = 1
    Assoc = 2
    Sets = {0}
    Tags = {0, 1, 2}
    TraceData <- TraceBlocks
    Options <- UpdateOnHit
    MaxFreq = 3
    MaxSame = 3
SPECIFICATION HistorySpec
INVARIANTS HitUpdatesDatax
CHECK_DEADLOCK FALSE
