CONSTANTS
    Reg = {0, 1}
    X0 = 0
    WordSize = 2
    MemSize = 2
    Fetchable <- Stream
    FetchReady = {TRUE}
    StallValues = {FALSE}
    NumSets = 1
    NumWays = 1
    LineWords = 1
    InitMem <- Mem0
    InitData = 0
SPECIFICATION ClockedSpec
INVARIANTS LoadLockServed StoreLockServed
PROPERTIES DcacheMoves RequestAnswered
