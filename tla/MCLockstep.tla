----------------------------- MODULE MCLockstep -----------------------------
\* Lockstep on every scheduled program of a few instructions over small
\* alphabets.  An instruction memory image is the program, two idle
\* instructions to drain the pipeline, and "j ." everywhere else.
EXTENDS Lockstep, Sequences

VARIABLE clk

\* The clock as a signal: it never stops, whether or not a register changes.
ClockedInit == LockInit /\ clk = FALSE
ClockedNext == LockNext /\ clk' = ~clk
ClockedSpec ==
    /\ ClockedInit
    /\ [][ClockedNext]_<<lockvars, clk>>
    /\ []<><<TRUE>>_clk

I(op, rd, rs1, rs2, imm) ==
    [op |-> op, rd |-> rd, rs1 |-> rs1, rs2 |-> rs2, imm |-> imm]

Halt == I("jal", 0, 0, 0, 0)

Image(s) == [a \in 0 .. ImemSize - 1 |->
                IF a < Len(s) THEN s[a + 1]
                ELSE IF a < Len(s) + 2 THEN NOP ELSE Halt]

ScheduledImages(n, alphabet) ==
    {f \in {Image(s) : s \in [1 .. n -> alphabet]} : Scheduled(f)}

Common == {NOP, I("alui", 1, 0, 0, 3), I("alui", 2, 1, 0, 1),
           I("alu", 1, 1, 2, 0)}

\* Jumps and branches, forward and back, with the links and operands that
\* meet in the register file; no memory access.
ControlAlphabet == Common \cup
    {I("jal", 1, 0, 0, 1), I("jal", 2, 0, 0, 2), I("jalr", 2, 0, 0, 4),
     I("beq", 0, 1, 2, 2), I("bne", 0, 1, 2, 15), I("auipc", 2, 0, 0, 1),
     I("lui", 1, 0, 0, 4)}
ControlPrograms == ScheduledImages(4, ControlAlphabet)

\* Loads, stores, address dependences, and a branch and a JAL around them.
\* The rd field of a store or branch is part of its immediate: not x0.
MemAlphabet ==
    {NOP, I("alui", 2, 1, 0, 1), I("alu", 1, 1, 2, 0),
     I("load", 1, 0, 0, 1), I("load", 2, 1, 0, 1), I("store", 1, 1, 2, 0),
     I("jal", 1, 0, 0, 2), I("bne", 2, 1, 2, 2)}
MemPrograms == ScheduledImages(5, MemAlphabet)

Programs0 == ControlPrograms \cup MemPrograms

Fetched == ControlAlphabet \cup MemAlphabet \cup {Halt}

Mem0 == [a \in 0 .. MemSize - 1 |-> 5 + a]
=============================================================================
