SPECIFICATION Spec
CONSTANTS
    SpinUp = 3
    SpinDown = 1
    ResetTime = 1
    Burst = 2
    ReleaseDelay = 1
    AcksEnabled = TRUE
    CommandNeedsAtnLow = TRUE
    Channels = {load, cmd}
    CommandChannel = cmd
    LoadChannel = load
    NoChannel = none
    HostBytes <- MostBytes
    QueuedBytes <- WakingBytes
    MaxQueue = 0
    load = load
    cmd = cmd
    none = none
INVARIANTS
    CommandIsWhole
