SPECIFICATION GrantSpec
CONSTANTS
    Tracks <- MCTracks
    Sectors <- MCSectors
    SectorsPerTrack = 2
    TotalBlocks = 3
    CatalogSize = 2
    Channels <- MCChannels
    LoadChannel = load
    CommandChannel = command
    Names <- MCNames
    Dollar = dollar
    NoName = noName
    NoChannel = none
    load = load
    command = command
    none = none
    dollar = dollar
    file = file
    noName = noName
PROPERTY
    FreeNeedsAllocation
