SPECIFICATION Spec
CONSTANTS
    NumChunks = 2
    LastChunkSize = 1
    Flows = {f1, f2}
    Sessions = {s1, s2}
    None = None
    MaxRanges = 1
    MaxQueue = 2
    LoginIndex = 10
    Duplicable = {}
    Faults = {"earlyRestart", "clientCrash", "refused", "serverCrash"}
SYMMETRY Symmetry
INVARIANTS
    UploadInv
    SetUpAgrees
PROPERTIES
    RemovedIsWritten
    ImplementsUploadSpec
CHECK_DEADLOCK FALSE
