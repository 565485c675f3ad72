------------------------------ MODULE MCCoreMem -----------------------------
\* CoreMem on two registers and two words, fed with every stream over one of
\* two alphabets.  The store puts the value the first word has: the control
\* looks at no data, and a stale word shows as the other word.  (The rd field
\* of a store or branch is part of its immediate: not x0.)
EXTENDS LoadOwner

I(op, rd, rs1, rs2, imm) ==
    [op |-> op, rd |-> rd, rs1 |-> rs1, rs2 |-> rs2, imm |-> imm]

\* A load of the first word, a store, a branch that is taken; the branch waits
\* for a load's result.
Common == {I("load", 1, 0, 0, 0), I("store", 1, 0, 0, 0),
           I("beq", 1, 1, 1, WordSize - 1)}

\* With a load of the other word.
Accesses == Common \cup {I("load", 1, 0, 0, 1)}

\* With a branch that is not taken and a JAL.
Control == Common \cup {I("bne", 1, 1, 1, 0), I("jal", 0, 0, 0, 0)}

Stream == Accesses \cup Control

VARIABLES alphabet, clk

\* The clock as a signal: it never stops, whether or not a register changes.
ClockedInit == OwnerInit /\ alphabet \in {Accesses, Control} /\ clk = FALSE
ClockedNext ==
    /\ \E instr \in alphabet, fetched \in FetchReady, stall \in StallValues :
           OwnerClock(instr, fetched, stall)
    /\ clk' = ~clk
    /\ UNCHANGED alphabet
ClockedSpec ==
    /\ ClockedInit
    /\ [][ClockedNext]_<<ownervars, alphabet, clk>>
    /\ []<><<TRUE>>_clk

Words == [a \in 0 .. MemSize - 1 |-> a]
=============================================================================
