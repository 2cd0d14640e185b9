SPECIFICATION DevicesSpec
CONSTANTS
    Byte = 2
    Chips <- BothChips
    CiaPrograms <- CiaTours
    TimerByte = 2
    Bits = 2
    Tenths = 2
    Sixty = 2
    Twelve = 2
    Wrap = 3
    Drives = {1, 2}
    Wires = {"ATN", "CLK", "DATA"}
    MaxStill = 20
    SegName <- CableNames
    Profiles <- CableProfiles
    Sessions <- ConsoleSessions
    OpenBusProfiles <- IdleLines
    BusPrograms <- BankTours
    TickWrap = 128
    Turn = 50
    AccWrap = 128
    MaxRelock = 6
    MaxStreak = 255
    LockPpm = 520
    ZoneEnd <- Zones
    Deltas <- EdgeDistances
    Weak <- WeakTicks
    Readers <- ReaderTours
    Codes <- CpuPrograms
    ResetVector = 57344
    IrqVector = 57347
    Plans <- BoardPlans
    ShiftBits = 3
    ActivityTicks = 2
    WriteTicks = 3
    ErrorHold = 2
    Window = 2
    EdgeLimit = 2
    Tracks = {1, 3}
    Sectors = {0, 1}
    SectorsPerTrack = 2
    TotalBlocks = 3
    CatalogSize = 3
    Channels = {0, 2, 15}
    LoadChannel = 0
    CommandChannel = 15
    NoChannel = 99
    Names <- HostNames
    Dollar <- DollarSign
    NoName <- Empty
    Dialogues <- HostDialogues
    BlockSize = 2
    MaskedBit = 4
    SectorsOf <- ImageTracks
    ImageZones <- ImageSpeeds
    ImageBlock = 16
    DirEntry <- DirLayout
    BamAt <- BamLayout
    Images <- DiskImages
    Stride = 21
    MaxConfidence = 3
    PassWrap = 3
    DirTrack = 2
    DirGuard = 3
INVARIANTS
    CiaKeeps
    CablesCarry
    CpuComputes
    BoardKeeps
    DosAnswers
    BusHolds
    ImagesHold
    ChannelReads
CHECK_DEADLOCK FALSE
