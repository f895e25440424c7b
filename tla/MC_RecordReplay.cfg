CONSTANTS
    ByteBase = 8
    NREGS = 2
    MEM_SIZE = 64
    OP_SPACE = 16
    PAGE_SIZE = 16
    RUN_CAP = 2
    Programs <- MCPrograms
    Inputs = {0, 9}
    NoHook = NoHook
    Intervals = {1}
    MaxCycle = 7
    AtFrames = {0, 1}
SPECIFICATION RHSpec
INVARIANTS RTypeOK VerifiedIsFaithful IntactReplays TornShows SaveTellsTruth RestorePointExact
