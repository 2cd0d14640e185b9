SPECIFICATION Spec
CONSTANTS
    HostLines = {"atn", "clk"}
    DeviceLines = {"clk"}
    Devices = {d1, d2}
    PrimaryDevice = d1
    C64Period = 2
    DrivePeriods = {2}
    C64ToBus = 1
    DriveToBus = 1
    BusToC64 = 1
    BusToDrive = 1
    Jitter = 0
    LineModelEnabled = FALSE
    MinLow <- NoDelay
    ReleaseDelay <- NoDelay
    d1 = d1
    d2 = d2
PROPERTIES
    NoDoubleCommit
