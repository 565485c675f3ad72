CONSTANTS
    Inst <- Insts
    Line = {0, 1, 2, 4}
    NumSets = 2
    NumWays = 2
    LineWords = 2
    Blank = 0
    PowerUp <- PowerUp0
    Rom <- Rom0
SPECIFICATION FairFetchSpec
INVARIANTS LineIsRom UniqueLine FetchCorrect
PROPERTY SteadyFetchIsServed
