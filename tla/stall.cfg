CONSTANTS
    TwoTo32 = 64
    MAX_PAYLOAD_SIZE = 1
    UINT16_MAX = 15
    RtTimeout = 1
    LingerTimeouts = 1
    ClientBytes = 2
    ServerBytes = 0
    Capacity = 1
    Closers = {"client"}
    Streams <- MCStreams
    SendCapacity <- MCCapacity
    RecvCapacity <- MCCapacity
    ISN <- MCISN
    Faults = {"lose"}
    MaxFaults = 0
    MaxRetx = 2
    MaxChannel = 2
SPECIFICATION FairSpec
PROPERTIES ServerGetsAll
CHECK_DEADLOCK FALSE
