CONSTANTS
    Inst <- Insts
    Line = {0, 1}
    NumSets = 1
    NumWays = 1
    LineWords = 2
    Blank = 0
    PowerUp <- PowerUp0
    Rom <- Rom0
SPECIFICATION FairAxiSpec
INVARIANTS AnswerIsAsked
PROPERTIES RefillEnds
