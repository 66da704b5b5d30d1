SPECIFICATION FairSession
CONSTANTS
    Window = 2
    MaxPackets = 2
    Horizon = 4
    Timeout = 7
    Stall = 1
    MinGap = 2
    MaxGap = 6
INVARIANTS
    TimeoutNotEarly
    SilenceDetected
    AverageUsable
    AverageTracksWindow
    StatusesKeepSession
PROPERTIES
    FinEndsSession
CHECK_DEADLOCK FALSE
