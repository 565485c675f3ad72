CONSTANTS
    Word = {0, 1}
    Line = {0, 1}
    NumSets = 1
    NumWays = 2
    LineWords = 2
    NoData = 0
    PowerUp = 0
    PowerUpData = 1
    InitMem <- Mem0
    InitData = 0
SPECIFICATION MemSpec
INVARIANT HitIsMemory
