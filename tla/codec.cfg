SPECIFICATION FairCodec
CONSTANTS
    MTU = 11
    Radix = 2
    U64 = 8
    NumBits = 7
    Octets = 3
    OctetBits = 3
    Capacities = {4, 5, 7}
    VarBase = 4
INVARIANTS
    ZeroesCount
    ShiftInRange
    IndexSurvives
    IndexFieldMinimal
    EmptyMeansComplete
    SendsFirstRanges
    TruncatesLate
    AsksForZeroes
PROPERTIES
    WorkedOff
CHECK_DEADLOCK FALSE
