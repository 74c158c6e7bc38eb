CONSTANTS
    TwoTo32 = 64
    Outgoing = 3
    Incoming = 1
    Arriving <- MCArriving
    buffer_size = 2
    kReadBufferSize = 4
    Room = 1
    Failures = {}
    MaxFailures = 0
SPECIFICATION Spec
INVARIANT SuccessTriggers
CHECK_DEADLOCK FALSE
