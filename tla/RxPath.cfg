SPECIFICATION PathSpec
CONSTANTS
    Half = 3
    MaxBytes = 7
    Data <- MCData
    RING_SIZE = 4
    Chunks <- MCChunks
    SEM_LIMIT = 2
INVARIANTS
    RxTypeOK
    HandedInOrder
    OnlyWindowLoses
    RingTypeOK
    NoLostWakeup
PROPERTIES
    RingIsFifo
    ReachesParser
