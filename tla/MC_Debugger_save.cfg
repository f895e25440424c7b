CONSTANTS
    ByteBase = 8
    NREGS = 2
    MEM_SIZE = 64
    OP_SPACE = 16
    PAGE_SIZE = 16
    RUN_CAP = 2
    Programs <- MCPrograms
    Inputs = {0, 9}
    NoHook = NoHook
    Intervals = {1}
    MaxCycle = 6
    Sessions <- RecordedSession
    StepArgs = {2}
    BackArgs = {}
    BreakArgs = {}
    kRingCap = 3
    U64 = 1000
    None = None
SPECIFICATION DHSpec
PROPERTY ReplSaveRestorable
CHECK_DEADLOCK FALSE
