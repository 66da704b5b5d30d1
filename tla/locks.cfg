SPECIFICATION Spec
CONSTANTS
    MaxTicks = 2
PROPERTIES
    RootUpdateIgnored
CHECK_DEADLOCK FALSE
