CONSTANTS
    TwoTo32 = 8
    MaxSeqno = 40
    MAX_PAYLOAD_SIZE = 3
    UINT16_MAX = 65535
SPECIFICATION Spec
INVARIANTS TypeOK RawIsLowWord UnwrapIsClosest Transparent NeverAltered ListensToOne NeverPeeksEmpty
PROPERTIES NeverLosesCount
