CONSTANTS
    C_MEMORY_DEPTH = 2
    C_S_AXI_DATA_WIDTH = 2
    Byte = {0, 1}
    NoByte = NoByte
    Pointer = {p1, p2, p3}
    MAP_FAILED = MAP_FAILED
    Descriptor = {3, 4, 5}
    PeerWrite <- PeerWrites01
    FileMax = 2
    Request <- Requests
SYMMETRY Sym
CHECK_DEADLOCK FALSE
SPECIFICATION Spec
INVARIANTS PagesMapped ReadsReturnWrites EntriesOpen
