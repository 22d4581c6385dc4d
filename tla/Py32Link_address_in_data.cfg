SPECIFICATION Spec
CONSTANTS
    Crc16 <- py32_crc16
    VolMax = 16
    RING_SIZE = 64
    HostFrames <- OnlyQuiet
    Damaged <- NoDamage
    Bursts = {128}
    Levels = {8}
    MaxFrames = 2
    Maxima = {16}
    MaxFaults = 0
INVARIANTS
    EveryFrameReceived
CHECK_DEADLOCK FALSE
