SPECIFICATION FairSpec
CONSTANTS
    Profiles <- Drives
    Bits = 2
    Bytes <- TwoBytes
    NoByte = none
    Directory <- DirectoryBytes
    Status <- StatusBytes
    AtnTimeout = 1
    AtnAckTicks = 1
    RxAckTicks = 1
    RxTimeout = 1
    TxTimeout = 1
    EoiTimeout = 1
    none = none
INVARIANTS
    CommandBytesWhole
    EoiAnswered
PROPERTIES
    WaitsEnd
    TransferSpec
