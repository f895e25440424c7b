CONSTANTS
    ByteBase = 16
    NREGS = 8
    MEM_SIZE = 64
    OP_SPACE = 16
    PAGE_SIZE = 16
    RUN_CAP = 2
    Programs = {}
    Inputs = {0}
    NoHook = NoHook
    Intervals = {1}
    MaxCycle = 80
    Configs <- MCConfigs
    kBenchmarkLoopCount = 3
    kCell = 52
    kBenchRingCap = 12
    n_iters = 3
    NoTarget = NoTarget
SPECIFICATION BHSpec
INVARIANTS BTypeOK SanityHolds RunsAlike BenchRewindExact SteadyState
