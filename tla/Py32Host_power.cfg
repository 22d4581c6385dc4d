SPECIFICATION HostSpec
INVARIANTS
    IdleWorkArmed
    OnIsVisibleAlone
PROPERTIES
    SilenceTurnsOff
