CONSTANTS
    ByteBase = 8
    NREGS = 2
    MEM_SIZE = 64
    OP_SPACE = 16
    PAGE_SIZE = 16
    RUN_CAP = 2
    Programs <- MCPrograms
    Inputs = {0, 9}
    NoHook = NoHook
    Intervals = {1}
    MaxCycle = 6
    Sessions <- MCSessions
    StepArgs = {1, 3, 999}
    BackArgs = {1, 2}
    BreakArgs = {4105}
    kRingCap = 3
    U64 = 1000
    None = None
SPECIFICATION DHFairSpec
INVARIANTS DTypeOK RingContiguous RewindExact RingLeadsBack PromptMatchesRing CursorInPast StepExact
PROPERTIES ImplementsTimeTravel StepReturns BackReturns
CHECK_DEADLOCK FALSE
