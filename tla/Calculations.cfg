CONSTANTS
    LineBytes = 64
    AddressBits = 6
    IntBits = 5
    LineSizes = {4, 8}
    SetCounts = {1, 2, 3, 4, 5, 8}
    CachedLines <- WordLines
    DataTypes <- Divisors
SPECIFICATION Spec
INVARIANTS BdiIsSmallest BdiNeverTooSmall LinesToldApart MasksAreRemainders ThresholdIsReached
CHECK_DEADLOCK FALSE
