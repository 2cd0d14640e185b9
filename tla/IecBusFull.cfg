SPECIFICATION FairSpec
CONSTANTS
    HostLines = {"clk"}
    DeviceLines = {"clk"}
    Devices = {d1}
    PrimaryDevice = d1
    C64Period = 2
    DrivePeriods = {2}
    C64ToBus = 1
    DriveToBus = 0
    BusToC64 = 0
    BusToDrive = 0
    Jitter = 1
    LineModelEnabled = TRUE
    MinLow <- TwoUnits
    ReleaseDelay <- TwoUnits
    d1 = d1
    d2 = d2
INVARIANTS
    LinesFollowPulls
PROPERTIES
    CallsReturn
    ReleasedLineRises
    ImplementsWiredBus
