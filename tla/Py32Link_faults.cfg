SPECIFICATION Spec
CONSTANTS
    Crc16 <- py32_crc16
    VolMax = 16
    RING_SIZE = 12
    HostFrames <- FewFrames
    Damaged <- MCDamaged
    Bursts = {128}
    Levels = {8}
    MaxFrames = 3
    Maxima = {0, 1, 2, 3, 4, 5, 6, 7, 8, 9, 10, 11, 12, 13, 14, 15, 16}
    MaxFaults = 1
INVARIANTS
    FrameFits
    ReceivedWereSent
    ResyncWithinTwo
    SettingsFollowHost
    EchoIsStable
    FullRange
    TurnsSmoothly
PROPERTIES
    ReportedVolumeIsCurrent
CHECK_DEADLOCK FALSE
