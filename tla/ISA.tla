--------------------------------- MODULE ISA --------------------------------
(***************************************************************************)
(* The architecture the pipeline promises: one instruction at a time, in   *)
(* program order, on registers and a data memory, with the RV32I meaning   *)
(* of each instruction class.  Programs end in a jump to itself ("j ."),   *)
(* as every program of src/sim and src/scripts/sw does.                    *)
(***************************************************************************)
EXTENDS RV32

CONSTANTS ImemSize, MemSize, InitMem

VARIABLES prog,    \* the program, a function on 0 .. ImemSize-1
          apc, aregs, amem

isavars == <<apc, aregs, amem>>

Fetched == prog[apc % ImemSize]

\* jal x0, .
Halts(i) == is_jump(i) /\ i.rd = X0 /\ i.imm = Zero
Halted == Halts(Fetched)

SetReg(rd, v) ==
    aregs' = IF rd = X0 THEN aregs ELSE [aregs EXCEPT ![rd] = v]

Init ==
    /\ apc = Zero
    /\ aregs = [r \in Reg |-> Zero]
    /\ amem = InitMem

\* Instructions that only produce a register value.
Compute ==
    LET i == Fetched
        a == aregs[i.rs1]
        b == aregs[i.rs2] IN
    /\ i.op \in {"alu", "alui", "lui", "auipc"}
    /\ SetReg(i.rd, CASE i.op = "alu"   -> Plus(a, b)
                      [] i.op = "alui"  -> Plus(a, i.imm)
                      [] i.op = "lui"   -> i.imm
                      [] i.op = "auipc" -> Plus(apc, i.imm))
    /\ apc' = Next4(apc)
    /\ UNCHANGED amem

MemAccess ==
    LET i == Fetched
        at == Plus(aregs[i.rs1], i.imm) % MemSize IN
    /\ \/ is_load(i) /\ SetReg(i.rd, amem[at]) /\ UNCHANGED amem
       \/ is_store(i) /\ amem' = [amem EXCEPT ![at] = aregs[i.rs2]]
                      /\ UNCHANGED aregs
    /\ apc' = Next4(apc)

Branch ==
    LET i == Fetched IN
    /\ is_branch(i)
    /\ apc' = IF Taken(i, aregs[i.rs1], aregs[i.rs2])
              THEN Plus(apc, i.imm) ELSE Next4(apc)
    /\ UNCHANGED <<aregs, amem>>

Jump ==
    LET i == Fetched IN
    /\ is_jump(i) \/ is_jalr(i)
    /\ apc' = Plus(IF is_jump(i) THEN apc ELSE aregs[i.rs1], i.imm)
    /\ SetReg(i.rd, Next4(apc))
    /\ UNCHANGED amem

Step == ~Halted /\ (Compute \/ MemAccess \/ Branch \/ Jump)
=============================================================================
