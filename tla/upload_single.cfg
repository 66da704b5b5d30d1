SPECIFICATION Spec
CONSTANTS
    NumChunks = 3
    LastChunkSize = 1
    Flows = {f1}
    Sessions = {s1}
    None = None
    MaxRanges = 1
    MaxQueue = 2
    LoginIndex = 10
    Duplicable = {"login", "chunk", "status"}
    Faults = {"lose", "timeout", "refused", "clientCrash", "serverCrash"}
INVARIANTS
    TypeOK
    ReceivedInPlace
    DoneIsComplete
CHECK_DEADLOCK FALSE
