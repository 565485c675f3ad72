------------------------------ MODULE Lockstep ------------------------------
(***************************************************************************)
(* soc_top_bram beside the architecture: the ISA machine runs the same     *)
(* program, one instruction per clock until it halts, so it is never       *)
(* behind the pipeline.  When the pipeline has drained into the program's  *)
(* final jump-to-self the two must agree.                                  *)
(***************************************************************************)
EXTENDS SocBram

VARIABLES apc, aregs, amem,  \* the ISA machine
          amems              \* every data memory it has had so far

A == INSTANCE ISA

lockvars == <<socvars, A!isavars, amems>>

LockInit == SocInit /\ A!Init /\ amems = {amem}

ISAStep == A!Step \/ (A!Halted /\ UNCHANGED <<apc, aregs, amem>>)

LockNext == SocNext /\ ISAStep /\ amems' = amems \cup {amem'}

LockSpec == LockInit /\ [][LockNext]_lockvars

-----------------------------------------------------------------------------
\* The jump-to-self is in ID and nothing older is left in the pipeline.
Drained ==
    /\ ifid.valid /\ A!Halts(ifid.instr)
    /\ ~idex.valid
    /\ ~dmem_valid /\ ~memwb.is_load /\ (exwb.we => exwb.rd = X0)
    /\ lstate = "L_IDLE" /\ ~slock /\ ~buf.we

\* Then PC, registers and memory are the architecture's: no write was lost,
\* doubled, reordered with another one or done for a squashed instruction.
ArchCorrect ==
    Drained => /\ A!Halted
               /\ ifid.pc = apc
               /\ regs = aregs
               /\ mem = amem

\* The data memory only ever holds contents the architecture has produced:
\* no wrong-path or half-forwarded store reaches it, even for one cycle.
MemoryIsArchitectural == mem \in amems

\* A program the architecture finishes, the pipeline finishes.
DrainsWhenHalted == <>A!Halted => <>Drained

-----------------------------------------------------------------------------
\* The instruction order under which core_top on data_mem computes what the
\* architecture says.  The pipeline has no interlock for the cases these rules
\* exclude; each rule names the structure it protects.  f is a program, an
\* image of the instruction memory; the rules are about words in sequence, a
\* branch or jump may come from anywhere.
At(f, a) == f[a % ImemSize]

Writes(i) == reg_write_en(i) /\ i.rd # X0

\* i is a load whose result j reads: the load-use interlock holds j back.
LoadUse(i, j) ==
    /\ is_load(i) /\ i.rd # X0
    /\ (use_rs1(j) /\ j.rs1 = i.rd) \/ (use_rs2(j) /\ j.rs2 = i.rd)

\* One idle instruction j after a store i: the instruction held in EX while
\* the store is on the bus loses its register-file operands
\* (core_top.v:175-177), and a second access would meet the stale ready.
StoreSpaced(i, j) == is_store(i) => j = NOP

\* After a load i either its consumer j, which the interlock delays, or two
\* idle instructions: the load's late write-back and its late entry in the
\* forward chain (register_EX.v:145-148) would overtake a younger result.
LoadSpaced(i, j, k) ==
    is_load(i) => LoadUse(i, j) \/ (j = NOP /\ k = NOP)

\* A JAL k acts in ID: not behind a branch or JALR j that may squash it, not
\* behind a writer of its own rd, and not behind two writers whose write-backs
\* would overflow the one-entry buffer of the register file.
JalSpaced(i, j, k) ==
    is_jump(k) =>
        /\ ~is_branch(j) /\ ~is_jalr(j)
        /\ Writes(j) /\ k.rd # X0 =>
            /\ j.rd # k.rd
            /\ Writes(i) => i.rd = k.rd

Scheduled(f) ==
    \A a \in Word :
        LET i == At(f, a)
            j == At(f, Next4(a))
            k == At(f, Next4(Next4(a))) IN
        StoreSpaced(i, j) /\ LoadSpaced(i, j, k) /\ JalSpaced(i, j, k)

\* Such programs are run here, with the stall port tied off.
ASSUME LockstepAssumption ==
    /\ \A f \in Programs : Scheduled(f)
    /\ StallValues = {FALSE}
=============================================================================
