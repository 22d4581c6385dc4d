SPECIFICATION AudioSpec
CONSTANTS
    Levels = {1, 2}
    InitVolume = 1
    TableVolume = 2
    Frames <- MCFrames
    MaxEvents = 2
PROPERTIES
    MutedUntilUnplugged
CHECK_DEADLOCK FALSE
