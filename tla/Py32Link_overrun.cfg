SPECIFICATION Spec
CONSTANTS
    Crc16 <- py32_crc16
    VolMax = 0
    RING_SIZE = 8
    HostFrames <- MCFrames
    Damaged <- NoDamage
    Bursts = {4, 128}
    Levels = {0}
    MaxFrames = 2
    Maxima = {16}
    MaxFaults = 0
INVARIANTS
    LinkTypeOK
PROPERTIES
    BytesWakeHost
CHECK_DEADLOCK FALSE
