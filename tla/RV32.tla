-------------------------------- MODULE RV32 --------------------------------
(***************************************************************************)
(* The instructions the pipeline tells apart and what the decoder (ID.v)   *)
(* says of each.  An instruction is its class and its fields; the ALU's    *)
(* own operation is one representative, wrap-around addition, because the  *)
(* pipeline's control never looks at which operation it is.                *)
(*                                                                         *)
(* Every address and immediate of the modelled programs is a multiple of   *)
(* four, so a number n stands for the 32-bit word 4n: PC+4 is n+1, the     *)
(* clearing of bit 0 by JALR is the identity, and arithmetic wraps at      *)
(* WordSize.                                                               *)
(***************************************************************************)
EXTENDS Naturals

CONSTANTS Reg,       \* register addresses
          X0,        \* the zero register
          WordSize   \* number of distinct words

ASSUME RV32Assumption == X0 \in Reg /\ WordSize \in Nat \ {0}

Word == 0 .. WordSize - 1
Zero == 0

\* 32-bit addition and the PC + 4 incrementer.
\* (A slip: the carry is kept.)
Plus_slip(a, b) == a + b

Plus(a, b) == (a + b) % WordSize
Next4(a) == Plus(a, 1)

Op == {"alu", "alui", "lui", "auipc", "load", "store",
       "beq", "bne", "jal", "jalr"}

Instr == [op : Op, rd : Reg, rs1 : Reg, rs2 : Reg, imm : Word]

\* 32'h00000013, addi x0, x0, 0.
NOP == [op |-> "alui", rd |-> X0, rs1 |-> X0, rs2 |-> X0, imm |-> Zero]

\* What an ID/EX register cleared by reset or flush holds: opcode 0, no enable.
Bubble == [op |-> "none", rd |-> X0, rs1 |-> X0, rs2 |-> X0, imm |-> Zero]
Decoded == Instr \cup {Bubble}

is_load(i)   == i.op = "load"
is_store(i)  == i.op = "store"
is_branch(i) == i.op \in {"beq", "bne"}
is_jalr(i)   == i.op = "jalr"
is_jump(i)   == i.op = "jal"

use_rs1(i) == i.op \in {"alu", "alui", "load", "store", "beq", "bne", "jalr"}
use_rs2(i) == i.op \in {"alu", "store", "beq", "bne"}

reg_write_en(i) ==
    i.op \in {"alu", "alui", "load", "jalr", "jal", "lui", "auipc"}

\* The branch condition the ALU evaluates for fun3 of a branch.
Taken(i, a, b) == IF i.op = "beq" THEN a = b ELSE i.op = "bne" /\ a # b
=============================================================================
