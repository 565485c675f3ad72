CONSTANTS
    Reg = {0, 1}
    X0 = 0
    WordSize = 2
    MemSize = 2
    Fetchable <- Stream
    FetchReady = {TRUE, FALSE}
    StallValues = {FALSE}
    InitMem <- Words
    InitData = 0
    Waiting = Waiting
SPECIFICATION ClockedSpec
INVARIANTS TypeOK LoadLockOwned StoreLockOwned SkipIsAnswered
PROPERTIES LockCapturesOwn BusStable PipelineMoves LoadWritesBack
