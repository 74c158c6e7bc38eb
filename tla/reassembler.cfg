CONSTANTS
    TwoTo32 = 64
    Capacity = 4
    Stream <- MCStream
SPECIFICATION Spec
INVARIANTS TypeOK OutputInOrder PendingSound ClosedAtEnd DrainIsTheLoop
PROPERTIES AssemblySpec
