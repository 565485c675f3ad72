CONSTANTS
    Reg = {0, 1, 2}
    X0 = 0
    WordSize = 16
    ImemSize = 8
    MemSize = 4
    Fetchable <- Fetched
    FetchReady = {TRUE}
    StallValues = {FALSE}
    Programs <- Programs0
    InitMem <- Mem0
    InitData = 9
SPECIFICATION ClockedSpec
INVARIANTS ArchCorrect BufferNeverOverflows MemoryIsArchitectural
PROPERTY DrainsWhenHalted
