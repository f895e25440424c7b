CONSTANTS
    ByteBase = 8
    NREGS = 2
    MEM_SIZE = 64
    OP_SPACE = 16
    PAGE_SIZE = 16
    RUN_CAP = 2
    Programs <- MCPrograms
    Inputs = {0, 9}
    NoHook = NoHook
    Intervals = {1}
    MaxCycle = 8
    Sessions <- RunsOffSession
    StepArgs = {}
    BackArgs = {}
    BreakArgs = {4}
    kRingCap = 3
    U64 = 1000
    None = None
SPECIFICATION DHSpec
PROPERTY BreakpointsAlwaysHit
CHECK_DEADLOCK FALSE
