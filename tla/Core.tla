-------------------------------- MODULE Core --------------------------------
(***************************************************************************)
(* core_top (src/RTL/core/core_top.v): PC, IF/ID, ID/EX, EX/MEM, EX/WB and *)
(* MEM/WB around the register file, the load/store lock and the hazard     *)
(* unit.  A wire is an operator of the registers and of in, the values on  *)
(* the input ports in this cycle; Clock(in) is the rising clock edge, at   *)
(* which every register of the core moves together.                        *)
(***************************************************************************)
EXTENDS RV32

VARIABLES pc,       \* PC_unit.pc_reg
          ifid,     \* IF_ID_reg: pc, instr, valid
          idex,     \* ID_EX_reg: pc, instr, valid
          exmem,    \* EX_MEM_reg: the data bus request and its rd
          exwb,     \* EX_WB_reg: ALU write-back
          memwb     \* MEM_WB_reg: load write-back

VARIABLES regs, buf, bypass, raw, raddr_q
VARIABLES lstate, first_cycle, dmem_ready_d1, slock, ld, chain, load_skip_stale

RF  == INSTANCE RegisterFile
LSL == INSTANCE LoadStoreLock
HC  == INSTANCE HazardCtrl

pipevars == <<pc, ifid, idex, exmem, exwb, memwb>>
corevars == <<pipevars, RF!rfvars, LSL!lslvars>>

\* The input ports of core_top.
Input == [stall : BOOLEAN, flush : BOOLEAN,
          exception : BOOLEAN, pc_exception : Word,
          interrupt : BOOLEAN, pc_interrupt : Word,
          imem_rdata : Instr, imem_ready : BOOLEAN,
          dmem_rdata : Word, dmem_ready : BOOLEAN]

Fetch == [pc : Word, instr : Instr, valid : BOOLEAN]
Issue == [pc : Word, instr : Decoded, valid : BOOLEAN]
Access == [ren : BOOLEAN, wen : BOOLEAN, rd : Reg, addr : Word, wdata : Word]
AluResult == [result : Word, rd : Reg, we : BOOLEAN]
LoadResult == [is_load : BOOLEAN, rd : Reg, data : Word]

FetchBubble == [pc |-> Zero, instr |-> NOP, valid |-> FALSE]
IssueBubble == [pc |-> Zero, instr |-> Bubble, valid |-> FALSE]
NoAccess == [ren |-> FALSE, wen |-> FALSE, rd |-> X0, addr |-> Zero,
             wdata |-> Zero]
NoAluResult == [result |-> Zero, rd |-> X0, we |-> FALSE]
NoLoadResult == [is_load |-> FALSE, rd |-> X0, data |-> Zero]

CoreTypeOK ==
    /\ pc \in Word
    /\ ifid \in Fetch
    /\ idex \in Issue
    /\ exmem \in Access
    /\ exwb \in AluResult
    /\ memwb \in LoadResult
    /\ RF!TypeOK
    /\ LSL!TypeOK

-----------------------------------------------------------------------------
\* ID: a JAL is resolved here, before EX, and writes its link on port 2.
jump_if == is_jump(ifid.instr) /\ ifid.valid
pc_jump_if == Plus(ifid.pc, ifid.instr.imm)
jal_link == [we |-> jump_if /\ ifid.instr.rd # X0,
             waddr |-> ifid.instr.rd, wdata |-> Next4(ifid.pc)]

\* EX: operand of register rs read on port p; the load lock's forward beats
\* the ALU forward, which beats the register file.
Operand(rs, p, in) ==
    IF /\ LSL!load_lock_out
       /\ ld.rd # X0
       /\ ld.rd = rs
    THEN LSL!rd_data_load_out(in.dmem_ready, in.dmem_rdata)
    ELSE IF chain[1].rd # X0 /\ chain[1].rd = rs THEN chain[1].data
    ELSE RF!RData(p)

Op1(in) == Operand(idex.instr.rs1, 1, in)
Op2(in) == Operand(idex.instr.rs2, 2, in)

\* instr_valid_final: a store waits while the store lock is held.
ex_valid == idex.valid /\ ~(slock /\ is_store(idex.instr))

ex_branch_taken(in) ==
    ex_valid /\ is_branch(idex.instr) /\ Taken(idex.instr, Op1(in), Op2(in))
ex_jalr == ex_valid /\ is_jalr(idex.instr)
pc_branch == Plus(idex.pc, idex.instr.imm)
pc_jalr(in) == Plus(Op1(in), idex.instr.imm)

\* A branch's ALU result is never written back.
ex_result(in) ==
    LET i == idex.instr IN
    IF ~ex_valid \/ is_branch(i) THEN Zero
    ELSE CASE i.op = "lui"   -> i.imm
           [] i.op = "auipc" -> Plus(idex.pc, i.imm)
           [] i.op = "jalr"  -> Next4(idex.pc)
           [] i.op = "alu"   -> Plus(Op1(in), Op2(in))
           [] OTHER          -> Plus(Op1(in), i.imm)

ex_access(in) ==
    [ren |-> ex_valid /\ is_load(idex.instr),
     wen |-> ex_valid /\ is_store(idex.instr),
     rd |-> idex.instr.rd,
     addr |-> Plus(Op1(in), idex.instr.imm),
     wdata |-> Op2(in)]

\* The data bus is driven straight from EX/MEM.
dmem_valid == exmem.ren \/ exmem.wen
dmem_request == [valid |-> dmem_valid, ren |-> exmem.ren, wen |-> exmem.wen,
                 addr |-> exmem.addr, wdata |-> exmem.wdata]

\* WB: a load result takes the one write port before an ALU result.
wb == IF memwb.is_load
      THEN [we |-> TRUE, waddr |-> memwb.rd, wdata |-> memwb.data]
      ELSE [we |-> exwb.we, waddr |-> exwb.rd, wdata |-> exwb.result]

-----------------------------------------------------------------------------
\* The hazard unit's input ports, wired as at core_top.v:124-152.
Hazard(in) ==
    [stall |-> in.stall, flush |-> in.flush, jump_if |-> jump_if,
     ex_branch_taken |-> ex_branch_taken(in), ex_jalr |-> ex_jalr,
     rd_load_use |-> LSL!rd_reg_load_out(is_load(idex.instr), idex.instr.rd),
     id_rs1 |-> ifid.instr.rs1, id_rs2 |-> ifid.instr.rs2,
     id_use_rs1 |-> use_rs1(ifid.instr), id_use_rs2 |-> use_rs2(ifid.instr),
     load_pending_in |-> LSL!load_pending_out(is_load(idex.instr)),
     mem_stall_req |-> LSL!mem_stall_req(is_store(idex.instr)),
     load_skip_stale |-> load_skip_stale,
     dmem_valid |-> dmem_valid, dmem_ready |-> in.dmem_ready,
     imem_ready |-> in.imem_ready]

\* register_EX's input ports, wired as at core_top.v:195-220.
LockInput(in) ==
    LET h == Hazard(in) IN
    [stall |-> HC!stall_front(h),
     flush |-> in.flush \/ HC!branch_hazard_ex(h),
     load_enable |-> is_load(idex.instr),
     store_enable |-> is_store(idex.instr),
     load_success |-> in.dmem_ready /\ exmem.ren,
     dmem_ready |-> in.dmem_ready,
     rd |-> idex.instr.rd,
     result |-> ex_result(in),
     rdata |-> in.dmem_rdata,
     reg_write_en |-> reg_write_en(idex.instr)]

\* PC_unit: any redirect beats a stall; JALR beats JAL beats a branch.
NextPC(in) ==
    IF in.exception THEN in.pc_exception
    ELSE IF in.interrupt THEN in.pc_interrupt
    ELSE IF ex_jalr THEN pc_jalr(in)
    ELSE IF jump_if THEN pc_jump_if
    ELSE IF ex_branch_taken(in) THEN pc_branch
    ELSE IF HC!stall_front(Hazard(in)) THEN pc
    ELSE Next4(pc)

\* A pipeline register: flush beats stall beats load.
Latch(flush, stall, bubble, held, next) ==
    IF flush THEN bubble ELSE IF stall THEN held ELSE next

Init ==
    /\ pc = Zero
    /\ ifid = FetchBubble
    /\ idex = IssueBubble
    /\ exmem = NoAccess
    /\ exwb = NoAluResult
    /\ memwb = NoLoadResult
    /\ RF!Init
    /\ LSL!Init

Clock(in) ==
    LET h == Hazard(in)
        front == HC!stall_front(h)
        back == HC!stall_back(h)
        reads == [p \in 1 .. 2 |-> IF p = 1 THEN ifid.instr.rs1
                                            ELSE ifid.instr.rs2] IN
    /\ pc' = NextPC(in)
    /\ ifid' = Latch(HC!flush_ifid(h), front, FetchBubble, ifid,
                     [pc |-> pc, instr |-> in.imem_rdata, valid |-> TRUE])
    /\ idex' = Latch(HC!flush_idex(h), back, IssueBubble, idex, ifid)
    /\ exmem' = Latch(in.flush, back, NoAccess, exmem, ex_access(in))
    /\ exwb' = IF in.flush THEN NoAluResult
               ELSE [result |-> ex_result(in), rd |-> idex.instr.rd,
                     we |-> reg_write_en(idex.instr)]
    /\ memwb' = Latch(in.flush, back, NoLoadResult, memwb,
                      [is_load |-> exmem.ren, rd |-> exmem.rd,
                       data |-> IF exmem.ren THEN in.dmem_rdata ELSE Zero])
    /\ RF!Clock(wb, jal_link, reads)
    /\ LSL!Clock(LockInput(in))
=============================================================================
