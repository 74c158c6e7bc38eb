CONSTANTS
    TwoTo32 = 64
    MAX_PAYLOAD_SIZE = 1
    UINT16_MAX = 15
    RtTimeout = 1
    LingerTimeouts = 1
    ClientBytes = 1
    ServerBytes = 0
    Capacity = 6
    Closers = {"client", "server"}
    Streams <- MCStreams
    SendCapacity <- MCCapacity
    RecvCapacity <- MCCapacity
    ISN <- MCISN
    Faults = {"lose", "repeat", "overtake"}
    MaxFaults = 1
    MaxRetx = 1
    MaxChannel = 2
SPECIFICATION Spec
INVARIANTS TypeOK DeliveredInOrder AckedIsAssembled EndIsTheEnd OpenIsSynchronized StopsAfterAll
CHECK_DEADLOCK FALSE
