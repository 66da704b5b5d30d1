SPECIFICATION Spec
CONSTANTS
    NumChunks = 2
    LastChunkSize = 1
    Flows = {f1, f2}
    Sessions = {s1, s2}
    None = None
    MaxRanges = 1
    MaxQueue = 1
    LoginIndex = 10
    Duplicable = {}
    Faults = {"clientCrash", "timeout"}
INVARIANTS
    DoneIsComplete
CHECK_DEADLOCK FALSE
