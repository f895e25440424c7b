CONSTANTS
    ByteBase = 8
    NREGS = 2
    MEM_SIZE = 64
    OP_SPACE = 16
    PAGE_SIZE = 16
    RUN_CAP = 2
    Programs <- MCPrograms
    Inputs = {0, 9}
    NoHook = NoHook
    Intervals = {0, 1, 2}
    MaxCycle = 5
SPECIFICATION HSpec
INVARIANTS TypeOK UndoLog RunCountsExact SnapCadence
CHECK_DEADLOCK FALSE
