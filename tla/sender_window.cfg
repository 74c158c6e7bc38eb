CONSTANTS
    TwoTo32 = 64
    MAX_PAYLOAD_SIZE = 2
    UINT16_MAX = 15
    Stream <- MCStream
    SendCapacity = 2
    ISN = 62
    InitialRTO = 2
    Roles = {"connect"}
    MaxWindow = 2
    MaxMessages = 3
    MaxRetx = 2
    MaxTimer = 3
SPECIFICATION Spec
PROPERTY NothingIntoFullWindow
CONSTRAINT TakesWholeSegments
