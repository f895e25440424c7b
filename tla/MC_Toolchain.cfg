CONSTANTS
    ByteBase = 16
    NREGS = 8
    MEM_SIZE = 64
    OP_SPACE = 16
    PAGE_SIZE = 16
    RUN_CAP = 2
    Programs = {}
    Inputs = {0, 9}
    NoHook = NoHook
    Intervals = {1, 2}
    MaxCycle = 6
    Sources <- MCSources
    MaxCommands = 4
    MaxFaults = 1
SPECIFICATION THSpec
INVARIANTS AsmFaithful NoLineMisread TornBinHalts SnapChain  SnapshotTransparent
CHECK_DEADLOCK FALSE
