CONSTANTS
    C_MEMORY_DEPTH = 2
    C_S_AXI_DATA_WIDTH = 2
    Byte = {0, 1}
    PAGESIZE = 2
    N_1MBARRAYS = 2
    Junk = Junk
    Outstanding = 2
    ReadRequest <- Reads
    WriteRequest <- Writes
    DebugRequest <- Debugs
SPECIFICATION FairBramSpec
INVARIANTS BramTypeOK NoLostWakeup NeverExhausted
PROPERTIES ImplementsFlatMemory EveryRequestServed
