SPECIFICATION CodecSpec
CONSTANTS
    MTU = 11
    Radix = 2
    U64 = 8
    NumBits = 7
    Octets = 3
    OctetBits = 3
    Capacities = {4, 5, 7}
    VarBase = 4
INVARIANTS
    PayloadsCoverFile
CHECK_DEADLOCK FALSE
