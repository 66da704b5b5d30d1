SPECIFICATION FairSpecH
CONSTANTS
    NumChunks = 3
    LastChunkSize = 1
    Flows = {f1}
    Sessions = {s1}
    None = None
    MaxRanges = 1
    MaxQueue = 1
    LoginIndex = 10
    Duplicable = {}
    Faults = {"lose"}
PROPERTIES
    UploadCompletes
    ArmedCompletes
    LastStatusRepeats
CHECK_DEADLOCK FALSE
