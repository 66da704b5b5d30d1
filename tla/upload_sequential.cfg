SPECIFICATION Spec
CONSTANTS
    NumChunks = 2
    LastChunkSize = 1
    Flows = {f1, f2}
    Sessions = {s1, s2}
    None = None
    MaxRanges = 1
    MaxQueue = 1
    LoginIndex = 10
    Duplicable = {"chunk"}
    Faults = {"timeout", "refused", "clientCrash", "serverCrash"}
SYMMETRY Symmetry
INVARIANTS
    ReceivedIsWritten
    DoneIsWritten
    ZeroesExact
PROPERTIES
    FinFindsBitmapFull
CHECK_DEADLOCK FALSE
