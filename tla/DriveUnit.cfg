SPECIFICATION FairSpec
CONSTANTS
    SpinUp = 2
    SpinDown = 1
    ResetTime = 1
    Burst = 1
    ReleaseDelay = 1
    AcksEnabled = TRUE
    CommandNeedsAtnLow = TRUE
    Channels = {load, cmd}
    CommandChannel = cmd
    LoadChannel = load
    NoChannel = none
    HostBytes <- MostBytes
    QueuedBytes <- WakingBytes
    MaxQueue = 2
    load = load
    cmd = cmd
    none = none
INVARIANTS
    NothingTakenUnarmed
    IdleUntilWoken
PROPERTIES
    PowerSettles
