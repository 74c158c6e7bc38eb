CONSTANTS
    TwoTo32 = 16
    Length = 10
    Capacity = 2
SPECIFICATION Spec
PROPERTIES WritesNextByte
