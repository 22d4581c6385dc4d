SPECIFICATION HostSpec
INVARIANTS
    OnMeansVisible
