SPECIFICATION SppSpec
CONSTANTS
    Messages <- MCMessages
    MAX_PAYLOAD = 4
    SLACK = 2
    BARE_MAX = 5
    MAX_PACKET = 12
    MaxMessages = 3
    MaxConnects = 2
INVARIANTS
    CopyStaysInside
CHECK_DEADLOCK FALSE
