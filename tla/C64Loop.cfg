SPECIFICATION FairSpec
CONSTANTS
    Schedules <- Decode
    Code <- OpcodeTour
    Bottom = 244
    IrqVector = 500
    NmiVector = 600
    ResetVector = 2
    Cias = {cia1}
    Early <- OneEvent
    Late <- NoEvent
    Floor = 252
    cia1 = cia1
    cia2 = cia2
    event = event
INVARIANTS
    LoopConsistent
PROPERTIES
    InStep
    ProgramRuns
    NmiTaken
    IrqTaken
CHECK_DEADLOCK FALSE
