SPECIFICATION Spec
CONSTANTS
    HostLines = {"atn", "clk"}
    DeviceLines = {"clk"}
    Devices = {d1, d2}
    PrimaryDevice = d1
    C64Period = 3
    DrivePeriods = {2, 3}
    C64ToBus = 1
    DriveToBus = 3
    BusToC64 = 2
    BusToDrive = 1
    Jitter = 0
    LineModelEnabled = TRUE
    MinLow <- OneUnit
    ReleaseDelay <- OneUnit
    d1 = d1
    d2 = d2
INVARIANTS
    NothingOverdue
    PullsOnTheirWay
    SamplesOnTheirWay
PROPERTIES
    PulseIsSeen
