CONSTANTS
    TwoTo32 = 64
    MAX_PAYLOAD_SIZE = 2
    UINT16_MAX = 15
    Stream <- MCStream
    SendCapacity = 4
    ISN = 62
    InitialRTO = 2
    Roles = {"connect", "listen"}
    MaxWindow = 3
    MaxMessages = 3
    MaxRetx = 2
    MaxTimer = 3
SPECIFICATION Spec
INVARIANTS TypeOK QueueContiguous NothingLost EndsOnce BackoffLaw
PROPERTIES PushFillsWindow
