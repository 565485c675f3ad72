---------------------------- MODULE MCCoreDcache ----------------------------
\* CoreDcache on two registers and two words, each a line of its own in a
\* cache of one line: the loads of one word evict the other, and a load that
\* misses follows one that was just answered.
EXTENDS CoreDcache

VARIABLE clk

\* The clock as a signal: it never stops, whether or not a register changes.
ClockedInit == DcacheInit /\ clk = FALSE
ClockedNext == DcacheNext /\ clk' = ~clk
ClockedSpec ==
    /\ ClockedInit
    /\ [][ClockedNext]_<<dcachevars, clk>>
    /\ []<><<TRUE>>_clk

I(op, rd, rs1, rs2, imm) ==
    [op |-> op, rd |-> rd, rs1 |-> rs1, rs2 |-> rs2, imm |-> imm]

Stream == {NOP, I("load", 1, 0, 0, 0), I("load", 1, 0, 0, 1),
           I("store", 1, 0, 0, 0)}

Mem0 == [a \in 0 .. MemSize - 1 |-> 0]
=============================================================================
