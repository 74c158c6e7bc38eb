CONSTANTS
    TwoTo32 = 64
    MAX_PAYLOAD_SIZE = 2
    UINT16_MAX = 15
    RtTimeout = 1
    LingerTimeouts = 0
    Roles = {"connect", "listen"}
    Streams <- MCStreams
    ISN <- MCISN
    RemoteISN <- MCRemoteISN
    SendCapacity = 2
    RecvCapacity = 4
    PipeRoom = 1
    Calls = {"wait", "destroy", "close"}
    MaxFaults = 1
    MaxChannel = 1
SPECIFICATION Spec
INVARIANTS TypeOK OneConversation EndsWhenOver TerminatesOnlyWithBytesLeft ResetWindsDown
PROPERTIES SilentAfterReset
CONSTRAINT Running
CHECK_DEADLOCK FALSE
