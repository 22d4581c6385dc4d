SPECIFICATION AudioSpec
CONSTANTS
    Levels = {1, 2}
    InitVolume = 1
    TableVolume = 2
    Frames <- MCFrames
    MaxEvents = 4
INVARIANTS
    AudioTypeOK
    VolumeInForce
    ToneFollowsSettings
PROPERTIES
    StartRecovers
    UnplugUnmutes
CHECK_DEADLOCK FALSE
