SPECIFICATION FairSpec
CONSTANTS
    Lines = 5
    Cycles = 8
    Pixels = 4
    FirstSprite = 1
    Latch = 2
    FirstVideo = 3
    Release = 5
    LateSprite = 7
    ShiftBits = 4
    FirstLine = 2
    RowLines = 2
    Rows = 1
    SpriteLines = 1
    Sprites = {sprite}
    Chips <- TwoChips
    LowSpan = 4
    HighParts = {0, 1}
    LowParts = {0, 3}
    sprite = sprite
INVARIANTS
    LockWithinLine
    SpriteInItsLines
    RingShort
PROPERTIES
    ProcessorGetsBus
    ColumnsInPlace
    MissedOnlyInARow
    RasterComes
