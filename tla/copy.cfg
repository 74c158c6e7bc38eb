CONSTANTS
    TwoTo32 = 64
    Outgoing = 3
    Incoming = 1
    Arriving <- MCArriving
    buffer_size = 2
    kReadBufferSize = 4
    Room = 1
    Failures = {"socket", "stdout"}
    MaxFailures = 1
SPECIFICATION Spec
INVARIANTS TypeOK CopiedInOrder EndsWhole NeverThrows
PROPERTIES Returns
CHECK_DEADLOCK FALSE
