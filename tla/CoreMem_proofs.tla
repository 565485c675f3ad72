--------------------------- MODULE CoreMem_proofs ---------------------------
(***************************************************************************)
(* core_top, for any registers, any word size and any values on the input  *)
(* ports: every wire has its type, a clock edge preserves the types of all *)
(* registers, and what a clock edge does to the data bus and to the locks, *)
(* whatever memory answers.                                                *)
(*                                                                         *)
(* Then the core on the data BRAM, for any instruction stream and memory:  *)
(* types, the data bus protocol, the two locks and the word a load's lock  *)
(* captures; the locks of soc_top_bram; and the core on the data cache.    *)
(***************************************************************************)
EXTENDS SocBram, CoreDcache, LoadOwner, FiniteSetTheorems, TLAPS

-----------------------------------------------------------------------------
(* The core by itself.                                                     *)

LEMMA PlusType == ASSUME NEW a \in Word, NEW b \in Word PROVE Plus(a, b) \in Word
BY RV32Assumption DEF Plus, Word

LEMMA ConstantTypes ==
    /\ Zero \in Word
    /\ X0 \in Reg
    /\ \A a \in Word : Next4(a) \in Word
    /\ NOP \in Instr
    /\ NOP \in Decoded
    /\ Bubble \in Decoded
<1>1. Zero \in Word /\ X0 \in Reg
  BY RV32Assumption DEF Word, Zero
<1>2. ASSUME NEW a \in Word PROVE Next4(a) \in Word
  <2>1. CASE WordSize = 1
    BY <2>1, RV32Assumption DEF Next4, Plus, Word
  <2>2. CASE WordSize # 1
    <3>1. 1 \in Word
      BY <2>2, RV32Assumption DEF Word
    <3>2. QED
      BY <3>1, PlusType DEF Next4
  <2>3. QED
    BY <2>1, <2>2
<1>3. NOP \in Instr
  BY <1>1 DEF NOP, Instr, Op
<1>4. QED
  BY <1>1, <1>2, <1>3 DEF Decoded

\* The fields of an instruction in ID/EX.
LEMMA DecodedFields ==
    ASSUME NEW i \in Decoded
    PROVE  i.rd \in Reg /\ i.rs1 \in Reg /\ i.rs2 \in Reg /\ i.imm \in Word
BY ConstantTypes DEF Decoded, Instr, Bubble

\* The operands that reach the ALU.
LEMMA OperandType ==
    ASSUME CoreTypeOK, NEW in \in Input, NEW rs \in Reg, NEW p \in 1 .. 2
    PROVE  Operand(rs, p, in) \in Word
<1>1. LSL!rd_data_load_out(in.dmem_ready, in.dmem_rdata) \in Word
  BY DEF CoreTypeOK, LSL!TypeOK, LSL!rd_data_load_out, Input
<1>2. chain[1].data \in Word
  BY DEF CoreTypeOK, LSL!TypeOK, LSL!Forward
<1>3. RF!RData(p) \in Word
  BY ConstantTypes DEF CoreTypeOK, RF!TypeOK, RF!RData, RF!WritePort, RF!Port
<1>4. QED
  BY <1>1, <1>2, <1>3 DEF Operand

LEMMA OperandTypes ==
    ASSUME CoreTypeOK, NEW in \in Input
    PROVE  Op1(in) \in Word /\ Op2(in) \in Word
<1>1. idex.instr \in Decoded
  BY DEF CoreTypeOK, Issue
<1>2. idex.instr.rs1 \in Reg /\ idex.instr.rs2 \in Reg
  BY <1>1, DecodedFields
<1>3. QED
  BY <1>2, OperandType DEF Op1, Op2

\* What EX computes, drives towards the bus and sends to the PC.
LEMMA ExTypes ==
    ASSUME CoreTypeOK, NEW in \in Input
    PROVE  /\ ex_result(in) \in Word
           /\ ex_access(in) \in Access
           /\ pc_branch \in Word
           /\ pc_jalr(in) \in Word
<1>1. idex.instr \in Decoded /\ idex.pc \in Word
  BY DEF CoreTypeOK, Issue
<1>2. idex.instr.rd \in Reg /\ idex.instr.imm \in Word
  BY <1>1, DecodedFields
<1>3. Op1(in) \in Word /\ Op2(in) \in Word
  BY OperandTypes
<1>4. /\ Plus(idex.pc, idex.instr.imm) \in Word
      /\ Plus(Op1(in), idex.instr.imm) \in Word
      /\ Plus(Op1(in), Op2(in)) \in Word
      /\ Next4(idex.pc) \in Word
      /\ Zero \in Word
  BY <1>1, <1>2, <1>3, PlusType, ConstantTypes
<1>5. ex_result(in) \in Word
  <2> DEFINE i == idex.instr
  <2>1. CASE ~ex_valid \/ is_branch(i)
    BY <1>4, <2>1 DEF ex_result
  <2>2. CASE ~(~ex_valid \/ is_branch(i))
    <3>1. ex_result(in) = CASE i.op = "lui"   -> i.imm
                            [] i.op = "auipc" -> Plus(idex.pc, i.imm)
                            [] i.op = "jalr"  -> Next4(idex.pc)
                            [] i.op = "alu"   -> Plus(Op1(in), Op2(in))
                            [] OTHER          -> Plus(Op1(in), i.imm)
      BY <2>2 DEF ex_result
    <3>2. QED
      BY <1>2, <1>4, <3>1
  <2>3. QED
    BY <2>1, <2>2
<1>6. ex_access(in) \in Access
  BY <1>2, <1>3, <1>4
     DEF ex_access, Access, ex_valid, is_load, is_store
<1>7. QED
  BY <1>4, <1>5, <1>6 DEF pc_branch, pc_jalr

\* The two write requests and the read addresses at the register file.
LEMMA WriteTypes ==
    ASSUME CoreTypeOK
    PROVE  /\ wb \in RF!WritePort
           /\ jal_link \in RF!WritePort
           /\ ifid.instr.rs1 \in Reg /\ ifid.instr.rs2 \in Reg
           /\ pc_jump_if \in Word
<1>1. wb \in RF!WritePort
  BY DEF CoreTypeOK, wb, RF!WritePort, LoadResult, AluResult
<1>2. ifid.instr \in Instr /\ ifid.pc \in Word
  BY DEF CoreTypeOK, Fetch
<1>3. /\ ifid.instr.rd \in Reg /\ ifid.instr.rs1 \in Reg
      /\ ifid.instr.rs2 \in Reg /\ ifid.instr.imm \in Word
  BY <1>2 DEF Instr
<1>4. Next4(ifid.pc) \in Word /\ pc_jump_if \in Word
  BY <1>2, <1>3, PlusType, ConstantTypes DEF pc_jump_if
<1>5. ifid.valid \in BOOLEAN
  BY DEF CoreTypeOK, Fetch
<1>6. jump_if \in BOOLEAN
  BY <1>5 DEF jump_if, is_jump
<1>7. jal_link \in RF!WritePort
  BY <1>3, <1>4, <1>6 DEF jal_link, RF!WritePort
<1>8. QED
  BY <1>1, <1>3, <1>4, <1>7

\* The redirect and the stall requests are Booleans; the next PC is a word.
LEMMA HazardTypes ==
    ASSUME CoreTypeOK, NEW in \in Input
    PROVE  /\ HC!stall_front(Hazard(in)) \in BOOLEAN
           /\ HC!stall_back(Hazard(in)) \in BOOLEAN
           /\ NextPC(in) \in Word
<1>1. in.stall \in BOOLEAN
  BY DEF Input
<1>2. HC!stall_front(Hazard(in)) \in BOOLEAN
  BY <1>1 DEF HC!stall_front, Hazard
<1>3. HC!stall_back(Hazard(in)) \in BOOLEAN
  BY <1>1 DEF HC!stall_back, Hazard
<1>4. /\ in.pc_exception \in Word /\ in.pc_interrupt \in Word
      /\ pc \in Word /\ Next4(pc) \in Word
      /\ pc_jalr(in) \in Word /\ pc_jump_if \in Word /\ pc_branch \in Word
  BY ExTypes, WriteTypes, ConstantTypes DEF CoreTypeOK, Input
<1>5. NextPC(in) \in Word
  BY <1>4 DEF NextPC
<1>6. QED
  BY <1>2, <1>3, <1>5

\* register_EX sees inputs of the types its module declares.
LEMMA LockInputType ==
    ASSUME CoreTypeOK, NEW in \in Input
    PROVE  LockInput(in) \in LSL!Input
<1> DEFINE i == idex.instr
<1>1. i.rd \in Reg
  BY DecodedFields DEF CoreTypeOK, Issue
<1>2. is_load(i) \in BOOLEAN /\ is_store(i) \in BOOLEAN /\ reg_write_en(i) \in BOOLEAN
  BY DEF is_load, is_store, reg_write_en
<1>3. (in.dmem_ready /\ exmem.ren) \in BOOLEAN
  BY DEF Input, CoreTypeOK, Access
<1>4. (in.flush \/ HC!branch_hazard_ex(Hazard(in))) \in BOOLEAN
  BY DEF Input, HC!branch_hazard_ex
<1>5. in.dmem_ready \in BOOLEAN /\ in.dmem_rdata \in Word
  BY DEF Input
<1>6. ex_result(in) \in Word
  BY ExTypes
<1>7. HC!stall_front(Hazard(in)) \in BOOLEAN
  BY HazardTypes
<1>8. QED
  BY <1>1, <1>2, <1>3, <1>4, <1>5, <1>6, <1>7 DEF LockInput, LSL!Input

\* The load/store lock keeps its types.
LEMMA LockTypeStep ==
    ASSUME LSL!TypeOK, NEW i \in LSL!Input, LSL!Clock(i)
    PROVE  LSL!TypeOK'
<1>1. lstate' \in LSL!LState /\ first_cycle' \in BOOLEAN
  BY DEF LSL!Clock, LSL!FSM, LSL!Flushed, LSL!Start, LSL!Idle, LSL!Busy,
         LSL!Release, LSL!TypeOK, LSL!LState
<1>2. dmem_ready_d1' \in BOOLEAN
  BY DEF LSL!Clock, LSL!Input
<1>3. slock' \in BOOLEAN
  BY DEF LSL!Clock, LSL!StoreLock, LSL!TypeOK, LSL!Input
<1>4. ld' \in [rd : Reg, data : Word, saved : Word]
  <2>1. LSL!NoLoad \in [rd : Reg, data : Word, saved : Word]
    BY ConstantTypes DEF LSL!NoLoad
  <2>2. i.rdata \in Word /\ i.result \in Word /\ i.rd \in Reg
    BY DEF LSL!Input
  <2>3. QED
    BY <2>1, <2>2 DEF LSL!Clock, LSL!Capture, LSL!TypeOK
<1>5. chain' \in [1 .. 2 -> LSL!Forward]
  <2>1. [k \in 1 .. 2 |-> LSL!NoForward] \in [1 .. 2 -> LSL!Forward]
    BY ConstantTypes DEF LSL!NoForward, LSL!Forward
  <2>2. ASSUME NEW f \in LSL!Forward PROVE LSL!Push(f) \in [1 .. 2 -> LSL!Forward]
    BY DEF LSL!Push, LSL!TypeOK
  <2>3. [rd |-> ld.rd, data |-> ld.saved] \in LSL!Forward
    BY DEF LSL!TypeOK, LSL!Forward
  <2>4. [rd |-> i.rd, data |-> i.result] \in LSL!Forward
    BY DEF LSL!Input, LSL!Forward
  <2>5. chain \in [1 .. 2 -> LSL!Forward]
    BY DEF LSL!TypeOK
  <2>6. QED
    BY <2>1, <2>2, <2>3, <2>4, <2>5 DEF LSL!Clock, LSL!ForwardChain
<1>6. load_skip_stale' \in BOOLEAN
  BY DEF LSL!Clock, LSL!SkipStale
<1>7. QED
  BY <1>1, <1>2, <1>3, <1>4, <1>5, <1>6 DEF LSL!TypeOK

\* The register file keeps its types.
LEMMA RegisterTypeStep ==
    ASSUME RF!TypeOK, NEW w \in RF!WritePort, NEW link \in RF!WritePort,
           NEW raddr \in [RF!Port -> Reg], RF!Clock(w, link, raddr)
    PROVE  RF!TypeOK'
<1> DEFINE f == RF!Final(w, link)
<1>1. f \in RF!WritePort
  <2>1. RF!Effective(w, link) \in RF!WritePort
    BY DEF RF!Effective, RF!TypeOK, RF!WritePort
  <2>2. QED
    BY <2>1 DEF RF!Final, RF!WritePort
<1>2. regs' \in [Reg -> Word]
  <2>1. regs' = IF f.we THEN [regs EXCEPT ![f.waddr] = f.wdata] ELSE regs
    BY DEF RF!Clock
  <2>2. f.waddr \in Reg /\ f.wdata \in Word
    BY <1>1 DEF RF!WritePort
  <2> HIDE DEF f
  <2>3. QED
    BY <2>1, <2>2 DEF RF!TypeOK
<1>3. buf' \in RF!WritePort
  BY ConstantTypes DEF RF!Clock, RF!NoWrite, RF!WritePort
<1>4. bypass' \in RF!WritePort
  BY <1>1 DEF RF!Clock
<1>5. raw' \in [RF!Port -> Word]
  BY DEF RF!Clock, RF!TypeOK
<1>6. raddr_q' \in [RF!Port -> Reg]
  BY DEF RF!Clock
<1>7. QED
  BY <1>2, <1>3, <1>4, <1>5, <1>6 DEF RF!TypeOK

LEMMA CoreInitType == Init => CoreTypeOK
<1> SUFFICES ASSUME Init PROVE CoreTypeOK
  OBVIOUS
<1>1. pc \in Word /\ ifid \in Fetch /\ idex \in Issue
  BY ConstantTypes DEF Init, FetchBubble, Fetch, IssueBubble, Issue
<1>2. exmem \in Access /\ exwb \in AluResult /\ memwb \in LoadResult
  BY ConstantTypes DEF Init, NoAccess, Access, NoAluResult, AluResult,
                       NoLoadResult, LoadResult
<1>3. RF!TypeOK
  BY ConstantTypes DEF Init, RF!Init, RF!TypeOK, RF!NoWrite, RF!WritePort
<1>4. LSL!TypeOK
  BY ConstantTypes DEF Init, LSL!Init, LSL!TypeOK, LSL!LState, LSL!NoLoad,
                       LSL!NoForward, LSL!Forward
<1>5. QED
  BY <1>1, <1>2, <1>3, <1>4 DEF CoreTypeOK

\* One rising clock edge of the core.
LEMMA CoreTypeStep ==
    ASSUME CoreTypeOK, NEW in \in Input, Clock(in)
    PROVE  CoreTypeOK'
<1>1. pc' \in Word
  BY HazardTypes DEF Clock
<1>2. ifid' \in Fetch
  <2>1. FetchBubble \in Fetch
    BY ConstantTypes DEF FetchBubble, Fetch
  <2>2. ifid \in Fetch
    BY DEF CoreTypeOK
  <2>3. [pc |-> pc, instr |-> in.imem_rdata, valid |-> TRUE] \in Fetch
    BY DEF CoreTypeOK, Input, Fetch
  <2>4. QED
    BY <2>1, <2>2, <2>3 DEF Clock, Latch
<1>3. idex' \in Issue
  <2>1. IssueBubble \in Issue
    BY ConstantTypes DEF IssueBubble, Issue
  <2>2. ifid \in Issue
    BY DEF CoreTypeOK, Fetch, Issue, Decoded
  <2>3. idex \in Issue
    BY DEF CoreTypeOK
  <2>4. QED
    BY <2>1, <2>2, <2>3 DEF Clock, Latch
<1>4. exmem' \in Access
  <2>1. NoAccess \in Access
    BY ConstantTypes DEF NoAccess, Access
  <2>2. exmem \in Access
    BY DEF CoreTypeOK
  <2>3. QED
    BY <2>1, <2>2, ExTypes DEF Clock, Latch
<1>5. exwb' \in AluResult
  <2>1. NoAluResult \in AluResult
    BY ConstantTypes DEF NoAluResult, AluResult
  <2>2. idex.instr.rd \in Reg
    BY DecodedFields DEF CoreTypeOK, Issue
  <2>3. reg_write_en(idex.instr) \in BOOLEAN
    BY DEF reg_write_en
  <2>4. [result |-> ex_result(in), rd |-> idex.instr.rd,
         we |-> reg_write_en(idex.instr)] \in AluResult
    BY <2>2, <2>3, ExTypes DEF AluResult
  <2>5. QED
    BY <2>1, <2>4 DEF Clock
<1>6. memwb' \in LoadResult
  <2>1. NoLoadResult \in LoadResult
    BY ConstantTypes DEF NoLoadResult, LoadResult
  <2>2. memwb \in LoadResult
    BY DEF CoreTypeOK
  <2>3. [is_load |-> exmem.ren, rd |-> exmem.rd,
         data |-> IF exmem.ren THEN in.dmem_rdata ELSE Zero] \in LoadResult
    BY ConstantTypes DEF CoreTypeOK, Access, Input, LoadResult
  <2>4. QED
    BY <2>1, <2>2, <2>3 DEF Clock, Latch
<1>7. RF!TypeOK'
  <2> DEFINE reads == [p \in 1 .. 2 |-> IF p = 1 THEN ifid.instr.rs1
                                                 ELSE ifid.instr.rs2]
  <2>1. reads \in [RF!Port -> Reg]
    BY WriteTypes DEF RF!Port
  <2>2. RF!Clock(wb, jal_link, reads)
    BY DEF Clock
  <2>3. QED
    BY <2>1, <2>2, WriteTypes, RegisterTypeStep DEF CoreTypeOK
<1>8. LSL!TypeOK'
  BY LockInputType, LockTypeStep DEF CoreTypeOK, Clock
<1>9. QED
  BY <1>1, <1>2, <1>3, <1>4, <1>5, <1>6, <1>7, <1>8 DEF CoreTypeOK
-----------------------------------------------------------------------------
(* The data bus.                                                           *)

\* A request without its answer holds the back of the pipeline.
LEMMA WaitStalls ==
    ASSUME NEW in, dmem_valid, ~in.dmem_ready
    PROVE  HC!stall_back(Hazard(in))
BY DEF HC!stall_back, HC!mem_stall, Hazard

\* So EX/MEM keeps an unanswered request.
LEMMA RequestKept ==
    ASSUME NEW in, Clock(in), in.flush = FALSE, dmem_valid, ~in.dmem_ready
    PROVE  exmem' = exmem
<1>1. HC!stall_back(Hazard(in))
  BY WaitStalls
<1>2. exmem' = Latch(in.flush, HC!stall_back(Hazard(in)), NoAccess, exmem,
                     ex_access(in))
  BY DEF Clock
<1>3. QED
  BY <1>1, <1>2 DEF Latch

-----------------------------------------------------------------------------
(* The locks.                                                              *)

\* What one clock edge does to the registers of the locks.
LEMMA LockStep ==
    ASSUME NEW in, Clock(in)
    PROVE  /\ dmem_ready_d1' = in.dmem_ready
           /\ LSL!FSM(LockInput(in))
           /\ LSL!StoreLock(LockInput(in))
           /\ LSL!SkipStale(LockInput(in))
<1>1. LSL!Clock(LockInput(in))
  BY DEF Clock
<1>2. dmem_ready_d1' = in.dmem_ready
  BY <1>1 DEF LSL!Clock, LockInput
<1>3. QED
  BY <1>1, <1>2 DEF LSL!Clock

\* What lies in ID and EX without being valid is a NOP or a bubble, so a load
\* or a store there is always valid.
Shape ==
    /\ ifid.valid \/ ifid.instr = NOP
    /\ idex.valid \/ idex.instr \in {Bubble, NOP}

LEMMA ShapeInit == Init => Shape
BY DEF Init, FetchBubble, IssueBubble, Shape

LEMMA ShapeStep == ASSUME Shape, NEW in, Clock(in) PROVE Shape'
<1>1. \/ ifid' = FetchBubble
      \/ ifid' = ifid
      \/ ifid' = [pc |-> pc, instr |-> in.imem_rdata, valid |-> TRUE]
  BY DEF Clock, Latch
<1>2. idex' = IssueBubble \/ idex' = idex \/ idex' = ifid
  BY DEF Clock, Latch
<1>3. ifid'.valid \/ ifid'.instr = NOP
  BY <1>1 DEF Shape, FetchBubble
<1>4. idex'.valid \/ idex'.instr \in {Bubble, NOP}
  BY <1>2 DEF Shape, IssueBubble
<1>5. QED
  BY <1>3, <1>4 DEF Shape

LEMMA AccessIsValid ==
    ASSUME Shape, is_load(idex.instr) \/ is_store(idex.instr)
    PROVE  idex.valid
BY DEF Shape, is_load, is_store, Bubble, NOP

\* A load in EX stays there or goes on the bus, unless a branch squashes it.
LEMMA LoadMoves ==
    ASSUME Shape, NEW in, Clock(in), in.flush = FALSE, is_load(idex.instr),
           ~LockInput(in).flush
    PROVE  is_load(idex'.instr) \/ exmem'.ren
<1> DEFINE h == Hazard(in)
<1>1. h.flush = FALSE
  BY DEF Hazard
<1>2. ~HC!branch_hazard_ex(h)
  BY DEF LockInput
<1>3. CASE HC!stall_back(h)
  <2>1. ~HC!flush_idex(h)
    BY <1>1, <1>2, <1>3 DEF HC!flush_idex
  <2>2. idex' = idex
    BY <1>3, <2>1 DEF Clock, Latch
  <2>3. QED
    BY <2>2
<1>4. CASE ~HC!stall_back(h)
  <2>1. exmem' = ex_access(in)
    BY <1>4 DEF Clock, Latch
  <2>2. ex_valid
    BY AccessIsValid DEF ex_valid, is_load, is_store
  <2>3. QED
    BY <2>1, <2>2 DEF ex_access
<1>5. QED
  BY <1>3, <1>4

\* A store in EX goes on the bus when neither lock is held, no request waits
\* and no answer is being skipped.
LEMMA StoreMoves ==
    ASSUME Shape, NEW in, Clock(in), in.flush = FALSE, in.stall = FALSE,
           is_store(idex.instr), lstate # "L_BUSY", ~slock, ~load_skip_stale,
           ~dmem_valid \/ in.dmem_ready
    PROVE  exmem'.wen
<1>1. ~HC!stall_back(Hazard(in))
  BY DEF HC!stall_back, HC!mem_stall, Hazard, LSL!mem_stall_req
<1>2. exmem' = ex_access(in)
  BY <1>1 DEF Clock, Latch
<1>3. ex_valid
  BY AccessIsValid DEF ex_valid
<1>4. QED
  BY <1>2, <1>3 DEF ex_access

-----------------------------------------------------------------------------
(* Types.                                                                  *)

LEMMA InputType ==
    ASSUME TypeOK, NEW instr \in Fetchable, NEW fetched \in FetchReady,
           NEW stall \in StallValues
    PROVE  CoreInput(instr, fetched, stall) \in Input
BY CoreMemAssumption, ConstantTypes
   DEF CoreInput, Input, TypeOK, DM!TypeOK, DM!data_out, DM!ready

LEMMA MemAddrType == ASSUME NEW a \in Word PROVE DM!word_addr(a) \in DM!MemAddr
BY CoreMemAssumption, RV32Assumption DEF DM!word_addr, DM!MemAddr, Word

LEMMA MemTypeStep ==
    ASSUME TypeOK, DM!Clock(dmem_request)
    PROVE  DM!TypeOK'
<1>1. /\ exmem.addr \in Word /\ exmem.wdata \in Word
      /\ exmem.ren \in BOOLEAN /\ exmem.wen \in BOOLEAN
  BY DEF TypeOK, CoreTypeOK, Access
<1>2. DM!word_addr(exmem.addr) \in DM!MemAddr
  BY <1>1, MemAddrType
<1>3. mem' \in [DM!MemAddr -> Word]
  BY <1>1, <1>2 DEF DM!Clock, dmem_request, TypeOK, DM!TypeOK
<1>4. mem_data' \in Word
  BY <1>1, <1>2 DEF DM!Clock, dmem_request, TypeOK, DM!TypeOK
<1>5. ready_reg' \in BOOLEAN
  BY <1>1 DEF DM!Clock, dmem_request, dmem_valid
<1>6. QED
  BY <1>3, <1>4, <1>5 DEF DM!TypeOK

LEMMA TypeInit == MemInit => TypeOK
BY CoreInitType, CoreMemAssumption DEF MemInit, TypeOK, DM!Init, DM!TypeOK

LEMMA TypeStep == TypeOK /\ [MemNext]_memcorevars => TypeOK'
<1> SUFFICES ASSUME TypeOK, [MemNext]_memcorevars PROVE TypeOK'
  OBVIOUS
<1>1. CASE MemNext
  <2>1. PICK instr \in Fetchable, fetched \in FetchReady, stall \in StallValues :
            MemClock(instr, fetched, stall)
    BY <1>1 DEF MemNext
  <2>2. CoreTypeOK'
    BY <2>1, InputType, CoreTypeStep DEF MemClock, TypeOK
  <2>3. DM!TypeOK'
    BY <2>1, MemTypeStep DEF MemClock
  <2>4. QED
    BY <2>2, <2>3 DEF TypeOK
<1>2. CASE UNCHANGED memcorevars
  BY <1>2 DEF memcorevars, corevars, pipevars, RF!rfvars, LSL!lslvars, DM!memvars,
              TypeOK, CoreTypeOK, RF!TypeOK, LSL!TypeOK, DM!TypeOK
<1>3. QED
  BY <1>1, <1>2

\* Every register of the core and of the memory keeps its type.
THEOREM TypeCorrect == MemSpec => []TypeOK
BY TypeInit, TypeStep, PTL DEF MemSpec

-----------------------------------------------------------------------------
(* The data bus.                                                           *)

\* What the core sees of the memory in one clock edge.
LEMMA InputPorts ==
    ASSUME MemNext
    PROVE  \E in : /\ Clock(in)
                   /\ in.flush = FALSE /\ in.stall \in StallValues
                   /\ in.dmem_ready = ready_reg
                   /\ ready_reg' = dmem_valid
<1>1. PICK instr \in Fetchable, fetched \in FetchReady, stall \in StallValues :
          MemClock(instr, fetched, stall)
  BY DEF MemNext
<1>2. PICK in : in = CoreInput(instr, fetched, stall)
  OBVIOUS
<1>3. Clock(in) /\ ready_reg' = dmem_valid
  BY <1>1, <1>2 DEF MemClock, DM!Clock, dmem_request
<1>4. /\ in.flush = FALSE /\ in.stall \in StallValues
      /\ in.dmem_ready = ready_reg
  BY <1>2 DEF CoreInput, DM!ready
<1>5. QED
  BY <1>3, <1>4

LEMMA BusStep ==
    ASSUME MemNext, dmem_valid, ~ready_reg
    PROVE  exmem' = exmem
BY InputPorts, RequestKept

\* A request stays on the bus, unchanged, until it is answered
\* (core_top.v:385-411, hazard_ctrl.v:52).
THEOREM BusProtocol == MemSpec => BusStable
<1>1. [MemNext]_memcorevars => [dmem_valid /\ ~ready_reg => UNCHANGED exmem]_memcorevars
  BY BusStep
<1>2. QED
  BY <1>1, PTL DEF MemSpec, BusStable

-----------------------------------------------------------------------------
(* The locks.                                                              *)

LEMMA SkipInit == MemInit => SkipIsAnswered
BY DEF MemInit, Init, LSL!Init, SkipIsAnswered

LEMMA SkipStep == SkipIsAnswered /\ [MemNext]_memcorevars => SkipIsAnswered'
<1> SUFFICES ASSUME SkipIsAnswered, [MemNext]_memcorevars, load_skip_stale'
             PROVE  lstate' = "L_BUSY" /\ ~first_cycle' /\ ready_reg'
  BY DEF SkipIsAnswered
<1>1. CASE MemNext
  <2>1. PICK in : /\ Clock(in)
                  /\ in.flush = FALSE /\ in.stall \in StallValues
                  /\ in.dmem_ready = ready_reg
                  /\ ready_reg' = dmem_valid
    BY <1>1, InputPorts
  <2> DEFINE i == LockInput(in)
  <2>2. /\ LSL!FSM(i) /\ LSL!SkipStale(i) /\ ready_reg' = dmem_valid
    BY <2>1, LockStep
  <2>3. ~i.flush /\ lstate = "L_BUSY" /\ LSL!StaleReady(i)
    BY <2>2 DEF LSL!SkipStale
  <2>4. i.load_success /\ first_cycle
    BY <2>3 DEF LSL!StaleReady
  <2>5. ready_reg'
    BY <2>2, <2>4 DEF LockInput, dmem_valid
  <2>6. LSL!Busy(i)
    BY <2>2, <2>3 DEF LSL!FSM, LSL!Flushed, LSL!Start, LSL!Idle, LSL!Release
  <2>7. ~LSL!Answered(i)
    BY <2>3, <2>4 DEF LSL!Answered, LSL!LateReady
  <2>8. QED
    BY <2>3, <2>5, <2>6, <2>7 DEF LSL!Busy
<1>2. CASE UNCHANGED memcorevars
  BY <1>2 DEF memcorevars, corevars, LSL!lslvars, DM!memvars, SkipIsAnswered
<1>3. QED
  BY <1>1, <1>2

\* The skip lasts one cycle of L_BUSY and the answer is there in that cycle
\* (register_EX.v:159-169): the extra stall it causes cannot outlive it.
THEOREM SkipCorrect == MemSpec => []SkipIsAnswered
BY SkipInit, SkipStep, PTL DEF MemSpec

LEMMA MemShapeStep == Shape /\ [MemNext]_memcorevars => Shape'
<1> SUFFICES ASSUME Shape, [MemNext]_memcorevars PROVE Shape'
  OBVIOUS
<1>1. CASE MemNext
  BY <1>1, InputPorts, ShapeStep
<1>2. CASE UNCHANGED memcorevars
  BY <1>2 DEF memcorevars, corevars, pipevars, Shape
<1>3. QED
  BY <1>1, <1>2

LEMMA LoadLockInit == MemInit => LoadLockOwned
BY DEF MemInit, Init, LSL!Init, LoadLockOwned

LEMMA LoadLockStep ==
    Shape /\ SkipIsAnswered /\ LoadLockOwned /\ [MemNext]_memcorevars
        => LoadLockOwned'
<1> SUFFICES ASSUME Shape, SkipIsAnswered, LoadLockOwned,
                    [MemNext]_memcorevars, lstate' = "L_BUSY"
             PROVE  is_load(idex'.instr) \/ exmem'.ren \/ load_skip_stale'
  BY DEF LoadLockOwned
<1>1. CASE MemNext
  <2>1. PICK in : /\ Clock(in)
                  /\ in.flush = FALSE /\ in.stall \in StallValues
                  /\ in.dmem_ready = ready_reg
                  /\ ready_reg' = dmem_valid
    BY <1>1, InputPorts
  <2> DEFINE i == LockInput(in)
  <2>2. /\ LSL!FSM(i) /\ LSL!SkipStale(i)
        /\ Clock(in) /\ in.dmem_ready = ready_reg /\ in.flush = FALSE
    BY <2>1, LockStep
  <2>3. LSL!Start(i) \/ LSL!Busy(i)
    BY <2>2 DEF LSL!FSM, LSL!Flushed, LSL!Idle, LSL!Release
  <2>4. ~i.flush
    BY <2>3 DEF LSL!Start, LSL!Busy
  <2>5. CASE is_load(idex.instr)
    BY <2>2, <2>4, <2>5, LoadMoves
  <2>6. CASE ~is_load(idex.instr)
    <3>1. LSL!Busy(i)
      BY <2>3, <2>6 DEF LSL!Start, LockInput
    <3>2. lstate = "L_BUSY" /\ ~LSL!Answered(i)
      BY <3>1 DEF LSL!Busy
    <3>3. exmem.ren \/ load_skip_stale
      BY <2>6, <3>2 DEF LoadLockOwned
    <3>4. CASE exmem.ren /\ ready_reg
      <4>1. i.load_success
        BY <2>2, <3>4 DEF LockInput
      <4>2. LSL!StaleReady(i)
        BY <3>2, <4>1 DEF LSL!Answered
      <4>3. QED
        BY <2>2, <2>4, <3>2, <4>2 DEF LSL!SkipStale
    <3>5. CASE exmem.ren /\ ~ready_reg
      BY <1>1, <3>5, BusStep DEF dmem_valid
    <3>6. CASE load_skip_stale /\ ~exmem.ren
      <4>1. ~first_cycle /\ ready_reg
        BY <3>6 DEF SkipIsAnswered
      <4>2. ~i.load_success /\ i.dmem_ready
        BY <2>2, <3>6, <4>1 DEF LockInput
      <4>3. LSL!Answered(i)
        BY <3>2, <4>1, <4>2 DEF LSL!Answered, LSL!LateReady
      <4>4. QED
        BY <3>2, <4>3
    <3>7. QED
      BY <3>3, <3>4, <3>5, <3>6
  <2>7. QED
    BY <2>5, <2>6
<1>2. CASE UNCHANGED memcorevars
  BY <1>2 DEF memcorevars, corevars, pipevars, LSL!lslvars, LoadLockOwned
<1>3. QED
  BY <1>1, <1>2

\* The load lock is never orphaned (register_EX.v:56-88): whatever the stream,
\* the fetch and the external stall do, L_BUSY has a load to wait for.
THEOREM LoadLockCorrect == MemSpec => []LoadLockOwned
<1>1. MemInit => Shape
  BY ShapeInit DEF MemInit
<1>2. QED
  BY <1>1, MemShapeStep, SkipInit, SkipStep, LoadLockInit, LoadLockStep, PTL
     DEF MemSpec

LEMMA StoreLockInit == MemInit => StoreLockOwned
BY DEF MemInit, Init, LSL!Init, StoreLockOwned

LEMMA StoreLockStep ==
    ASSUME StallValues = {FALSE}
    PROVE  Shape /\ SkipIsAnswered /\ StoreLockOwned
             /\ [MemNext]_memcorevars => StoreLockOwned'
<1> SUFFICES ASSUME Shape, SkipIsAnswered, StoreLockOwned,
                    [MemNext]_memcorevars, slock'
             PROVE  (exmem'.ren \/ exmem'.wen) \/ ready_reg'
  BY DEF StoreLockOwned, dmem_valid
<1>1. CASE MemNext
  <2>1. PICK in : /\ Clock(in)
                  /\ in.flush = FALSE /\ in.stall \in StallValues
                  /\ in.dmem_ready = ready_reg
                  /\ ready_reg' = dmem_valid
    BY <1>1, InputPorts
  <2> DEFINE i == LockInput(in)
  <2>2. /\ LSL!StoreLock(i) /\ ready_reg' = dmem_valid /\ Clock(in)
        /\ in.dmem_ready = ready_reg /\ in.stall = FALSE /\ in.flush = FALSE
    BY <2>1, LockStep
  <2>3. CASE dmem_valid
    BY <2>2, <2>3
  <2>4. CASE ~dmem_valid /\ slock
    <3>1. ready_reg
      BY <2>4 DEF StoreLockOwned
    <3>2. i.dmem_ready
      BY <2>2, <3>1 DEF LockInput
    <3>3. QED
      BY <2>2, <2>4, <3>2 DEF LSL!StoreLock
  <2>5. CASE ~dmem_valid /\ ~slock
    <3>1. lstate # "L_BUSY" /\ is_store(idex.instr)
      BY <2>2, <2>5 DEF LSL!StoreLock, LockInput
    <3>2. ~load_skip_stale
      BY <3>1 DEF SkipIsAnswered
    <3>3. QED
      BY <2>2, <2>5, <3>1, <3>2, StoreMoves
  <2>6. QED
    BY <2>3, <2>4, <2>5
<1>2. CASE UNCHANGED memcorevars
  BY <1>2 DEF memcorevars, corevars, pipevars, LSL!lslvars, DM!memvars,
              StoreLockOwned, dmem_valid
<1>3. QED
  BY <1>1, <1>2

\* With the external stall tied off, as every top level ties it, the store lock
\* is never orphaned (register_EX.v:90-105): its dmem_ready is on its way.
THEOREM StoreLockCorrect ==
    ASSUME StallValues = {FALSE}
    PROVE  MemSpec => []StoreLockOwned
<1>1. MemInit => Shape
  BY ShapeInit DEF MemInit
<1>2. QED
  BY <1>1, MemShapeStep, SkipInit, SkipStep, StoreLockInit, StoreLockStep, PTL
     DEF MemSpec
-----------------------------------------------------------------------------
(* The word a load brings back, with the external stall tied off.          *)

\* The lock's load is still in EX: an older access is on the bus, and its
\* ready has come up in this cycle.
OwnerInEx ==
    lstate = "L_BUSY" /\ owner = Waiting =>
        /\ is_load(idex.instr) /\ first_cycle /\ ~load_skip_stale
        /\ dmem_valid /\ ready_reg /\ ~dmem_ready_d1

\* It is on the bus: a ready that has just come up is its own.
OwnerOnBus ==
    lstate = "L_BUSY" /\ owner # Waiting /\ first_cycle =>
        /\ exmem.ren /\ ~exmem.wen /\ owner = exmem.addr
        /\ ~load_skip_stale
        /\ ready_reg /\ ~dmem_ready_d1 => mem_data = mem[DM!word_addr(owner)]

\* It was taken off the bus by an older ready, and its answer is there.
OwnerSkipped ==
    lstate = "L_BUSY" /\ ~first_cycle =>
        /\ owner # Waiting /\ load_skip_stale /\ ready_reg
        /\ mem_data = mem[DM!word_addr(owner)]

OwnerInv ==
    /\ lstate # "L_BUSY" => owner = Waiting
    /\ OwnerInEx
    /\ OwnerOnBus
    /\ OwnerSkipped

\* The edge as the lock, EX/MEM, the memory and the history see it.
OwnerEdge(in, i) ==
    /\ in.flush = FALSE /\ in.dmem_ready = ready_reg
    /\ HC!stall_back(Hazard(in)) <=>
           \/ LSL!mem_stall_req(is_store(idex.instr))
           \/ dmem_valid /\ ~ready_reg
           \/ load_skip_stale
    /\ Clock(in)
    /\ LSL!FSM(i) /\ LSL!SkipStale(i) /\ LSL!Capture(i)
    /\ dmem_ready_d1' = ready_reg
    /\ i.load_enable = is_load(idex.instr)
    /\ i.load_success <=> ready_reg /\ exmem.ren
    /\ i.dmem_ready = ready_reg
    /\ i.flush = HC!branch_hazard_ex(Hazard(in))
    /\ i.rdata = mem_data
    /\ ready_reg' = dmem_valid
    /\ exmem.ren => mem_data' = mem[DM!word_addr(exmem.addr)]
    /\ ~exmem.wen => mem' = mem
    /\ owner' = IF lstate' # "L_BUSY" THEN Waiting
                ELSE IF owner = Waiting /\ ~HC!stall_back(Hazard(in))
                THEN exmem'.addr
                ELSE owner

LEMMA OwnerPorts ==
    ASSUME StallValues = {FALSE}, TypeOK, OwnerNext
    PROVE  \E in : OwnerEdge(in, LockInput(in))
<1>1. PICK instr \in Fetchable, fetched \in FetchReady :
          MemClock(instr, fetched, FALSE) /\ Own(FALSE)
  BY DEF OwnerNext, OwnerClock
<1>2. PICK in : in = CoreInput(instr, fetched, FALSE)
  OBVIOUS
<1> DEFINE i == LockInput(in)
<1>3. /\ in.flush = FALSE /\ in.dmem_ready = ready_reg
      /\ in.stall = FALSE /\ in.dmem_rdata = mem_data
  BY <1>2 DEF CoreInput, DM!ready, DM!data_out
<1>4. HC!stall_back(Hazard(in)) <=>
          \/ LSL!mem_stall_req(is_store(idex.instr))
          \/ dmem_valid /\ ~ready_reg
          \/ load_skip_stale
  BY <1>3 DEF HC!stall_back, HC!mem_stall, Hazard
<1>5. Advances(FALSE) <=> ~HC!stall_back(Hazard(in))
  <2>1. PICK c : c = CoreInput(NOP, TRUE, FALSE)
    OBVIOUS
  <2>2. c.stall = FALSE /\ c.dmem_ready = ready_reg
    BY <2>1 DEF CoreInput, DM!ready
  <2>3. HC!stall_back(Hazard(c)) <=>
            \/ LSL!mem_stall_req(is_store(idex.instr))
            \/ dmem_valid /\ ~ready_reg
            \/ load_skip_stale
    BY <2>2 DEF HC!stall_back, HC!mem_stall, Hazard
  <2>4. QED
    BY <1>4, <2>1, <2>3 DEF Advances
<1>6. Clock(in)
  BY <1>1, <1>2 DEF MemClock
<1>7. LSL!FSM(i) /\ LSL!SkipStale(i) /\ LSL!Capture(i) /\ dmem_ready_d1' = ready_reg
  <2>1. LSL!Clock(i)
    BY <1>6 DEF Clock
  <2>2. dmem_ready_d1' = ready_reg
    BY <1>3, <1>6, LockStep
  <2>3. QED
    BY <2>1, <2>2 DEF LSL!Clock
<1>8. /\ i.load_enable = is_load(idex.instr)
      /\ i.load_success <=> ready_reg /\ exmem.ren
      /\ i.dmem_ready = ready_reg
      /\ i.flush = HC!branch_hazard_ex(Hazard(in))
      /\ i.rdata = mem_data
  <2>1. HC!branch_hazard_ex(Hazard(in)) \in BOOLEAN
    BY DEF HC!branch_hazard_ex
  <2>2. QED
    BY <1>3, <2>1 DEF LockInput
<1>9. /\ ready_reg' = dmem_valid
      /\ exmem.ren => mem_data' = mem[DM!word_addr(exmem.addr)]
      /\ ~exmem.wen => mem' = mem
  BY <1>1 DEF MemClock, DM!Clock, dmem_request, dmem_valid
<1>10. owner' = IF lstate' # "L_BUSY" THEN Waiting
                ELSE IF owner = Waiting /\ ~HC!stall_back(Hazard(in))
                THEN exmem'.addr
                ELSE owner
  BY <1>1, <1>5 DEF Own
<1>11. OwnerEdge(in, i)
  BY <1>3, <1>4, <1>6, <1>7, <1>8, <1>9, <1>10 DEF OwnerEdge
<1>12. QED
  BY <1>11

\* A load in EX that is not held enters EX/MEM and is the lock's owner.
LEMMA OwnerEnters ==
    ASSUME Shape, TypeOK', NEW in, NEW i, OwnerEdge(in, i), owner = Waiting,
           lstate' = "L_BUSY", is_load(idex.instr),
           ~load_skip_stale, ~(dmem_valid /\ ~ready_reg)
    PROVE  exmem'.ren /\ ~exmem'.wen /\ owner' = exmem'.addr /\ owner' # Waiting
<1>1. ~LSL!mem_stall_req(is_store(idex.instr))
  BY DEF LSL!mem_stall_req, is_load, is_store
<1>2. ~HC!stall_back(Hazard(in))
  BY <1>1 DEF OwnerEdge
<1>3. exmem' = ex_access(in)
  BY <1>2 DEF OwnerEdge, Clock, Latch
<1>4. ex_valid
  BY AccessIsValid DEF ex_valid, is_load, is_store
<1>5. exmem'.ren /\ ~exmem'.wen
  BY <1>3, <1>4 DEF ex_access, is_load, is_store
<1>6. owner' = exmem'.addr
  BY <1>2 DEF OwnerEdge
<1>7. exmem'.addr \in Word
  BY DEF TypeOK, CoreTypeOK, Access
<1>8. QED
  BY <1>5, <1>6, <1>7, LoadOwnerAssumption

\* The lock is taken.
LEMMA OwnerStart ==
    ASSUME Shape, TypeOK, TypeOK', SkipIsAnswered, OwnerInv,
           NEW in, NEW i, OwnerEdge(in, i), LSL!Start(i)
    PROVE  OwnerInv'
<1>1. /\ lstate = "L_IDLE" /\ ~i.flush /\ is_load(idex.instr)
      /\ lstate' = "L_BUSY" /\ first_cycle' = TRUE
  BY DEF LSL!Start, OwnerEdge
<1>2. owner = Waiting /\ ~load_skip_stale
  BY <1>1 DEF OwnerInv, SkipIsAnswered
<1>3. ~load_skip_stale'
  BY <1>1 DEF OwnerEdge, LSL!SkipStale
<1>4. OwnerSkipped'
  BY <1>1 DEF OwnerSkipped
<1>5. CASE dmem_valid /\ ~ready_reg
  <2>1. HC!stall_back(Hazard(in))
    BY <1>5 DEF OwnerEdge
  <2>2. exmem' = exmem
    BY <2>1 DEF OwnerEdge, Clock, Latch
  <2>3. idex' = idex
    <3>1. ~HC!flush_idex(Hazard(in))
      BY <1>1, <2>1 DEF OwnerEdge, HC!flush_idex, Hazard
    <3>2. QED
      BY <2>1, <3>1 DEF OwnerEdge, Clock, Latch
  <2>4. owner' = Waiting
    BY <1>2, <2>1 DEF OwnerEdge
  <2>5. dmem_valid' /\ ready_reg' /\ ~dmem_ready_d1'
    BY <1>5, <2>2 DEF OwnerEdge, dmem_valid
  <2>6. OwnerInEx'
    BY <1>1, <1>3, <2>3, <2>5 DEF OwnerInEx, is_load
  <2>7. QED
    BY <1>1, <1>4, <2>4, <2>6 DEF OwnerInv, OwnerOnBus
<1>6. CASE ~(dmem_valid /\ ~ready_reg)
  <2>1. exmem'.ren /\ ~exmem'.wen /\ owner' = exmem'.addr /\ owner' # Waiting
    BY <1>1, <1>2, <1>6, OwnerEnters
  <2>2. ~(ready_reg' /\ ~dmem_ready_d1')
    BY <1>6 DEF OwnerEdge
  <2>3. OwnerOnBus'
    BY <1>3, <2>1, <2>2 DEF OwnerOnBus
  <2>4. QED
    BY <1>1, <1>4, <2>1, <2>3 DEF OwnerInv, OwnerInEx
<1>7. QED
  BY <1>5, <1>6

\* The lock is held on.
LEMMA OwnerStays ==
    ASSUME Shape, TypeOK, TypeOK', SkipIsAnswered, OwnerInv,
           NEW in, NEW i, OwnerEdge(in, i), LSL!Busy(i), lstate' = "L_BUSY"
    PROVE  OwnerInv'
<1>1. /\ ~i.flush /\ lstate = "L_BUSY" /\ ~LSL!Answered(i)
      /\ first_cycle' = (first_cycle /\ ~LSL!StaleReady(i))
  BY DEF LSL!Busy
<1>2. load_skip_stale' = LSL!StaleReady(i)
  BY <1>1 DEF OwnerEdge, LSL!SkipStale, LSL!StaleReady
<1>3. first_cycle
  <2>1. SUFFICES ASSUME ~first_cycle PROVE FALSE
    OBVIOUS
  <2>2. ready_reg
    BY <1>1, <2>1 DEF OwnerInv, OwnerSkipped
  <2>3. LSL!Answered(i)
    BY <1>1, <2>1, <2>2
       DEF OwnerEdge, LSL!Answered, LSL!LateReady, LSL!StaleReady
  <2>4. QED
    BY <1>1, <2>3
<1>4. CASE owner = Waiting
  <2>1. /\ is_load(idex.instr) /\ ~load_skip_stale
        /\ dmem_valid /\ ready_reg /\ ~dmem_ready_d1
    BY <1>1, <1>4 DEF OwnerInv, OwnerInEx
  <2>2. ~LSL!StaleReady(i)
    BY <2>1 DEF LSL!StaleReady
  <2>3. exmem'.ren /\ ~exmem'.wen /\ owner' = exmem'.addr /\ owner' # Waiting
    BY <1>4, <2>1, OwnerEnters
  <2>4. first_cycle' /\ ~load_skip_stale' /\ dmem_ready_d1'
    BY <1>1, <1>2, <1>3, <2>1, <2>2 DEF OwnerEdge
  <2>5. QED
    BY <2>3, <2>4 DEF OwnerInv, OwnerInEx, OwnerOnBus, OwnerSkipped
<1>5. CASE owner # Waiting
  <2>1. /\ exmem.ren /\ ~exmem.wen /\ owner = exmem.addr /\ ~load_skip_stale
    BY <1>1, <1>3, <1>5 DEF OwnerInv, OwnerOnBus
  <2>2. owner' = owner
    BY <1>5 DEF OwnerEdge
  <2>3. /\ mem_data' = mem[DM!word_addr(owner)] /\ mem' = mem /\ ready_reg'
    BY <2>1 DEF OwnerEdge, dmem_valid
  <2>4. mem_data' = mem'[DM!word_addr(owner')]
    BY <2>2, <2>3
  <2>5. CASE ready_reg
    <3>1. LSL!StaleReady(i)
      BY <1>1, <2>1, <2>5 DEF OwnerEdge, LSL!Answered
    <3>2. ~first_cycle' /\ load_skip_stale'
      BY <1>1, <1>2, <3>1
    <3>3. QED
      BY <1>5, <2>2, <2>3, <2>4, <3>2
         DEF OwnerInv, OwnerInEx, OwnerOnBus, OwnerSkipped, DM!word_addr
  <2>6. CASE ~ready_reg
    <3>1. ~LSL!StaleReady(i)
      BY <2>6 DEF OwnerEdge, LSL!StaleReady
    <3>2. first_cycle' /\ ~load_skip_stale'
      BY <1>1, <1>2, <1>3, <3>1
    <3>3. exmem' = exmem
      <4>1. HC!stall_back(Hazard(in))
        BY <2>1, <2>6 DEF OwnerEdge, dmem_valid
      <4>2. QED
        BY <4>1 DEF OwnerEdge, Clock, Latch
    <3>4. QED
      BY <1>5, <2>1, <2>2, <2>4, <3>2, <3>3
         DEF OwnerInv, OwnerInEx, OwnerOnBus, OwnerSkipped, DM!word_addr
  <2>7. QED
    BY <2>5, <2>6
<1>6. QED
  BY <1>4, <1>5

LEMMA OwnerStep ==
    ASSUME StallValues = {FALSE}
    PROVE  Shape /\ TypeOK /\ TypeOK' /\ SkipIsAnswered /\ OwnerInv
             /\ [OwnerNext]_ownervars => OwnerInv'
<1> SUFFICES ASSUME Shape, TypeOK, TypeOK', SkipIsAnswered, OwnerInv,
                    [OwnerNext]_ownervars
             PROVE  OwnerInv'
  OBVIOUS
<1>1. CASE OwnerNext
  <2>1. PICK in : OwnerEdge(in, LockInput(in))
    BY <1>1, OwnerPorts
  <2> DEFINE i == LockInput(in)
  <2>2. CASE lstate' # "L_BUSY"
    <3>1. owner' = Waiting
      BY <2>1, <2>2 DEF OwnerEdge
    <3>2. QED
      BY <2>2, <3>1 DEF OwnerInv, OwnerInEx, OwnerOnBus, OwnerSkipped
  <2>3. CASE lstate' = "L_BUSY"
    <3>1. LSL!FSM(i)
      BY <2>1 DEF OwnerEdge
    <3>2. LSL!Start(i) \/ LSL!Busy(i)
      BY <2>3, <3>1 DEF LSL!FSM, LSL!Flushed, LSL!Idle, LSL!Release
    <3>3. QED
      BY <2>1, <2>3, <3>2, OwnerStart, OwnerStays
  <2>4. QED
    BY <2>2, <2>3
<1>2. CASE UNCHANGED ownervars
  BY <1>2 DEF ownervars, memcorevars, corevars, pipevars, LSL!lslvars, DM!memvars,
              OwnerInv, OwnerInEx, OwnerOnBus, OwnerSkipped, dmem_valid, is_load,
              DM!word_addr
<1>3. QED
  BY <1>1, <1>2

LEMMA OwnerCaptured ==
    ASSUME StallValues = {FALSE}
    PROVE  TypeOK /\ OwnerInv /\ [OwnerNext]_ownervars
             => [lstate' = "L_RELEASE" /\ owner # Waiting
                   => ld'.saved = mem[DM!word_addr(owner)]]_ownervars
<1> SUFFICES ASSUME TypeOK, OwnerInv, OwnerNext,
                    lstate' = "L_RELEASE", owner # Waiting
             PROVE  ld'.saved = mem[DM!word_addr(owner)]
  OBVIOUS
<1>1. PICK in : OwnerEdge(in, LockInput(in))
  BY OwnerPorts
<1> DEFINE i == LockInput(in)
<1>2. lstate = "L_BUSY" /\ LSL!FSM(i)
  BY <1>1 DEF OwnerInv, OwnerEdge
<1>3. ~i.flush /\ LSL!Answered(i)
  BY <1>2 DEF LSL!FSM, LSL!Flushed, LSL!Start, LSL!Idle, LSL!Busy, LSL!Release
<1>4. ld'.saved = mem_data
  <2>1. i.load_success \/ LSL!LateReady(i)
    BY <1>3 DEF LSL!Answered
  <2>2. ld' = [ld EXCEPT !.data = i.rdata, !.saved = i.rdata]
    BY <1>1, <1>3, <2>1 DEF OwnerEdge, LSL!Capture
  <2>3. ld \in [rd : Reg, data : Word, saved : Word]
    BY DEF TypeOK, CoreTypeOK, LSL!TypeOK
  <2>4. i.rdata = mem_data
    BY <1>1 DEF OwnerEdge
  <2>5. QED
    BY <2>2, <2>3, <2>4
<1>5. mem_data = mem[DM!word_addr(owner)]
  <2>1. CASE ~first_cycle
    BY <1>2, <2>1 DEF OwnerInv, OwnerSkipped
  <2>2. CASE first_cycle
    <3>1. i.load_success /\ ~dmem_ready_d1
      BY <1>3, <2>2 DEF LSL!Answered, LSL!StaleReady, LSL!LateReady
    <3>2. ready_reg
      BY <1>1, <3>1 DEF OwnerEdge
    <3>3. QED
      BY <1>2, <2>2, <3>1, <3>2 DEF OwnerInv, OwnerOnBus
  <2>3. QED
    BY <2>1, <2>2
<1>6. QED
  BY <1>4, <1>5

\* With the external stall tied off, as every top level ties it, the load lock
\* takes its own load's word off the bus (register_EX.v:64-81, 120-127), whatever
\* the stream: on `sw; lw` too, where MEM/WB takes the older word under the stale
\* ready.  Nothing is said of a lock that is released with its load still in EX.
THEOREM LoadWordCorrect ==
    ASSUME StallValues = {FALSE}
    PROVE  OwnerSpec => LockCapturesOwn
<1>1. OwnerInit => Shape /\ TypeOK /\ SkipIsAnswered /\ OwnerInv
  <2>1. OwnerInit => Shape /\ TypeOK /\ SkipIsAnswered
    BY ShapeInit, TypeInit, SkipInit DEF OwnerInit, MemInit
  <2>2. OwnerInit => OwnerInv
    BY DEF OwnerInit, MemInit, Init, LSL!Init, OwnerInv, OwnerInEx, OwnerOnBus,
           OwnerSkipped
  <2>3. QED
    BY <2>1, <2>2
<1>2. [OwnerNext]_ownervars => [MemNext]_memcorevars
  BY DEF OwnerNext, OwnerClock, MemNext, ownervars
<1>3. TypeOK /\ [OwnerNext]_ownervars => TypeOK'
  BY <1>2, TypeStep
<1>4. Shape /\ [OwnerNext]_ownervars => Shape'
  BY <1>2, MemShapeStep
<1>5. SkipIsAnswered /\ [OwnerNext]_ownervars => SkipIsAnswered'
  BY <1>2, SkipStep
<1>6. QED
  BY <1>1, <1>3, <1>4, <1>5, OwnerStep, OwnerCaptured, PTL
     DEF OwnerSpec, LockCapturesOwn
-----------------------------------------------------------------------------
(* soc_top_bram is one of the systems CoreMem stands for: its runs are      *)
(* runs of MemSpec, so that every theorem about MemSpec holds of the chip.  *)

\* The program counter only ever fetches instructions of the program.
FetchOK == TypeOK /\ prog \in Programs

LEMMA FetchType == FetchOK => imem_rdata \in Fetchable
<1> SUFFICES ASSUME FetchOK PROVE imem_rdata \in Fetchable
  OBVIOUS
<1>1. pc \in Nat
  BY RV32Assumption DEF FetchOK, TypeOK, CoreTypeOK, Word
<1>2. pc % ImemSize \in 0 .. ImemSize - 1
  BY <1>1, SocBramAssumption
<1>3. prog \in [0 .. ImemSize - 1 -> Fetchable]
  BY SocBramAssumption DEF FetchOK
<1>4. QED
  BY <1>2, <1>3 DEF imem_rdata

LEMMA SocStep == FetchOK /\ [SocNext]_socvars => [MemNext]_memcorevars /\ FetchOK'
<1> SUFFICES ASSUME FetchOK, [SocNext]_socvars
             PROVE  [MemNext]_memcorevars /\ FetchOK'
  OBVIOUS
<1>1. [MemNext]_memcorevars /\ prog' = prog
  <2>1. CASE SocNext
    BY <2>1, FetchType, SocBramAssumption DEF SocNext, MemNext
  <2>2. CASE UNCHANGED socvars
    BY <2>2 DEF socvars
  <2>3. QED
    BY <2>1, <2>2
<1>2. FetchOK'
  BY <1>1, TypeStep DEF FetchOK
<1>3. QED
  BY <1>1, <1>2

\* soc_top_bram.v:50-120 wires inst_mem and data_mem to core_top and nothing
\* else: the chip implements the core with an arbitrary instruction stream.
THEOREM ChipImplementsCore == SocSpec => MemSpec
<1>1. SocInit => MemInit /\ FetchOK
  BY TypeInit DEF SocInit, FetchOK
<1>2. QED
  BY <1>1, SocStep, PTL DEF SocSpec, MemSpec

\* So the locks of the chip are never orphaned, whatever program it runs.
THEOREM ChipLocks ==
    ASSUME StallValues = {FALSE}
    PROVE  SocSpec => [](LoadLockOwned /\ StoreLockOwned)
BY ChipImplementsCore, LoadLockCorrect, StoreLockCorrect, PTL
-----------------------------------------------------------------------------
(* The core on the data cache.                                             *)

\* What the core sees of the cache in one clock edge.
LEMMA DcachePorts ==
    ASSUME DcacheNext
    PROVE  \E in : /\ Clock(in)
                   /\ in.flush = FALSE /\ in.stall = FALSE
                   /\ in.dmem_ready = dmem_ready_reg
<1>1. PICK instr \in Fetchable, fetched \in FetchReady :
          Clock(DcacheInput(instr, fetched))
  BY DEF DcacheNext, DcacheClock
<1>2. PICK in : in = DcacheInput(instr, fetched)
  OBVIOUS
<1>3. /\ in.flush = FALSE /\ in.stall = FALSE
      /\ in.dmem_ready = dmem_ready_reg
  BY <1>2 DEF DcacheInput, CoreInput
<1>4. QED
  BY <1>1, <1>2, <1>3

\* What one clock edge does to the cache's request and its answer.
LEMMA CacheStep ==
    ASSUME DcacheNext
    PROVE  /\ dmem_ready_reg' => pending' = "none"
           /\ pending = "none" /\ dmem_ready_reg' => ~completed'.valid
           /\ pending = "none" /\ exmem.ren /\ ~completed.valid
                => dmem_ready_reg' \/ pending' = "read"
           /\ pending # "none" => dmem_ready_reg' \/ pending' = pending
<1>1. PICK way \in DC!Way : DC!Clock(cpu_dmem, DM!data_out, DM!ready, way)
  BY DEF DcacheNext, DcacheClock
<1>2. cpu_dmem.ren = exmem.ren
  BY DEF cpu_dmem, dmem_request
<1>3. CASE DC!Await(DM!ready)
  BY <1>3 DEF DC!Await
<1>4. CASE DC!FinishRead(DM!data_out, DM!ready)
  BY <1>4 DEF DC!FinishRead
<1>5. CASE DC!FinishWrite(DM!ready)
  BY <1>5 DEF DC!FinishWrite
<1>6. CASE DC!Ignore(cpu_dmem)
  BY <1>2, <1>6 DEF DC!Ignore, DC!Accepts
<1>7. CASE DC!ReadHit(cpu_dmem)
  BY <1>7 DEF DC!ReadHit, DC!NotCompleted
<1>8. CASE DC!ReadMiss(cpu_dmem, way)
  BY <1>8 DEF DC!ReadMiss
<1>9. CASE DC!StartWrite(cpu_dmem)
  BY <1>2, <1>9 DEF DC!StartWrite
<1>10. QED
  BY <1>1, <1>3, <1>4, <1>5, <1>6, <1>7, <1>8, <1>9 DEF DC!Clock

\* An answer ends the request it is for, and of two answers in a row the
\* second is a hit: it leaves no completed address behind.
AnswersEnd ==
    /\ dmem_ready_reg => pending = "none"
    /\ dmem_ready_reg /\ dmem_ready_d1 => ~completed.valid

\* A stale answer was skipped for a load that the cache took up.
SkipIsServed ==
    load_skip_stale =>
        lstate = "L_BUSY" /\ ~first_cycle /\ (pending = "read" \/ dmem_ready_reg)

DcacheInv == Shape /\ AnswersEnd /\ SkipIsServed /\ LoadLockServed /\ StoreLockServed

LEMMA DcacheInvInit == DcacheInit => DcacheInv
<1> SUFFICES ASSUME DcacheInit PROVE DcacheInv
  OBVIOUS
<1>1. Shape
  BY ShapeInit DEF DcacheInit, MemInit
<1>2. ~dmem_ready_reg /\ ~load_skip_stale /\ lstate = "L_IDLE" /\ ~slock
  BY DEF DcacheInit, DC!Init, MemInit, Init, LSL!Init
<1>3. QED
  BY <1>1, <1>2
     DEF DcacheInv, AnswersEnd, SkipIsServed, LoadLockServed, StoreLockServed

\* A load that leaves EX/MEM on a stale answer is taken up by the cache.
LEMMA StaleIsServed ==
    ASSUME AnswersEnd, DcacheNext, dmem_ready_reg, dmem_ready_d1, exmem.ren
    PROVE  pending' = "read" \/ dmem_ready_reg'
BY CacheStep DEF AnswersEnd

LEMMA DcacheStep == DcacheInv /\ DcacheNext => DcacheInv'
<1> SUFFICES ASSUME DcacheInv, DcacheNext PROVE DcacheInv'
  OBVIOUS
<1>1. PICK in : /\ Clock(in)
                /\ in.flush = FALSE /\ in.stall = FALSE
                /\ in.dmem_ready = dmem_ready_reg
  BY DcachePorts
<1> DEFINE i == LockInput(in)
<1>2. /\ dmem_ready_d1' = dmem_ready_reg
      /\ LSL!FSM(i) /\ LSL!StoreLock(i) /\ LSL!SkipStale(i)
  BY <1>1, LockStep
<1>3. /\ i.dmem_ready = dmem_ready_reg
      /\ i.load_success = (dmem_ready_reg /\ exmem.ren)
      /\ i.load_enable = is_load(idex.instr)
      /\ i.store_enable = is_store(idex.instr)
  BY <1>1 DEF LockInput
<1>4. Shape'
  BY <1>1, ShapeStep DEF DcacheInv
<1>5. AnswersEnd'
  BY <1>2, CacheStep DEF DcacheInv, AnswersEnd
<1>6. ASSUME LSL!StaleReady(i) PROVE pending' = "read" \/ dmem_ready_reg'
  BY <1>3, <1>6, StaleIsServed DEF LSL!StaleReady, DcacheInv
<1>7. SkipIsServed'
  <2> SUFFICES ASSUME load_skip_stale'
               PROVE  /\ lstate' = "L_BUSY" /\ ~first_cycle'
                      /\ pending' = "read" \/ dmem_ready_reg'
    BY DEF SkipIsServed
  <2>1. ~i.flush /\ lstate = "L_BUSY" /\ LSL!StaleReady(i)
    BY <1>2 DEF LSL!SkipStale
  <2>2. i.load_success /\ first_cycle
    BY <2>1 DEF LSL!StaleReady
  <2>3. LSL!Busy(i)
    BY <1>2, <2>1 DEF LSL!FSM, LSL!Flushed, LSL!Start, LSL!Idle, LSL!Release
  <2>4. ~LSL!Answered(i)
    BY <2>1, <2>2 DEF LSL!Answered, LSL!LateReady
  <2>5. QED
    BY <1>6, <2>1, <2>3, <2>4 DEF LSL!Busy
<1>8. LoadLockServed'
  <2> SUFFICES ASSUME lstate' = "L_BUSY"
               PROVE  \/ is_load(idex'.instr) \/ exmem'.ren
                      \/ ~first_cycle' /\ (pending' = "read" \/ dmem_ready_reg')
    BY DEF LoadLockServed
  <2>1. LSL!Start(i) \/ LSL!Busy(i)
    BY <1>2 DEF LSL!FSM, LSL!Flushed, LSL!Idle, LSL!Release
  <2>2. ~i.flush
    BY <2>1 DEF LSL!Start, LSL!Busy
  <2>3. CASE is_load(idex.instr)
    BY <1>1, <2>2, <2>3, LoadMoves DEF DcacheInv
  <2>4. CASE ~is_load(idex.instr)
    <3>1. LSL!Busy(i)
      BY <1>3, <2>1, <2>4 DEF LSL!Start
    <3>2. /\ lstate = "L_BUSY" /\ ~LSL!Answered(i)
          /\ first_cycle' = (first_cycle /\ ~LSL!StaleReady(i))
      BY <3>1 DEF LSL!Busy
    <3>3. exmem.ren \/ (~first_cycle /\ (pending = "read" \/ dmem_ready_reg))
      BY <2>4, <3>2 DEF DcacheInv, LoadLockServed
    <3>4. CASE exmem.ren /\ dmem_ready_reg
      <4>1. LSL!StaleReady(i)
        BY <1>3, <3>2, <3>4 DEF LSL!Answered
      <4>2. QED
        BY <1>6, <3>2, <4>1
    <3>5. CASE exmem.ren /\ ~dmem_ready_reg
      BY <1>1, <3>5, RequestKept DEF dmem_valid
    <3>6. CASE ~exmem.ren /\ ~first_cycle /\ dmem_ready_reg
      BY <1>3, <3>2, <3>6 DEF LSL!Answered, LSL!LateReady
    <3>7. CASE ~exmem.ren /\ ~first_cycle /\ pending = "read" /\ ~dmem_ready_reg
      BY <3>2, <3>7, CacheStep
    <3>8. QED
      BY <3>3, <3>4, <3>5, <3>6, <3>7
  <2>5. QED
    BY <2>3, <2>4
<1>9. StoreLockServed'
  <2> SUFFICES ASSUME slock'
               PROVE  exmem'.ren \/ exmem'.wen \/ pending' # "none" \/ dmem_ready_reg'
    BY DEF StoreLockServed, dmem_valid
  <2>1. CASE dmem_valid /\ ~dmem_ready_reg
    BY <1>1, <2>1, RequestKept DEF dmem_valid
  <2>2. CASE slock /\ ~dmem_valid
    <3>1. ~dmem_ready_reg
      BY <1>2, <1>3, <2>2 DEF LSL!StoreLock
    <3>2. pending # "none"
      BY <2>2, <3>1 DEF DcacheInv, StoreLockServed
    <3>3. QED
      BY <3>2, CacheStep
  <2>3. CASE slock /\ dmem_valid /\ dmem_ready_reg
    BY <1>2, <1>3, <2>3 DEF LSL!StoreLock
  <2>4. CASE ~slock /\ (~dmem_valid \/ dmem_ready_reg)
    <3>1. lstate # "L_BUSY" /\ is_store(idex.instr)
      BY <1>2, <1>3, <2>4 DEF LSL!StoreLock
    <3>2. ~load_skip_stale
      BY <3>1 DEF DcacheInv, SkipIsServed
    <3>3. QED
      BY <1>1, <2>4, <3>1, <3>2, StoreMoves DEF DcacheInv
  <2>5. QED
    BY <2>1, <2>2, <2>3, <2>4
<1>10. QED
  BY <1>4, <1>5, <1>7, <1>8, <1>9 DEF DcacheInv

LEMMA DcacheInvStutter == DcacheInv /\ UNCHANGED dcachevars => DcacheInv'
BY DEF DcacheInv, Shape, AnswersEnd, SkipIsServed, LoadLockServed,
       StoreLockServed, dmem_valid, dcachevars, memcorevars, corevars, pipevars,
       LSL!lslvars, DC!dcvars

LEMMA DcacheInvAlways == DcacheSpec => []DcacheInv
BY DcacheInvInit, DcacheStep, DcacheInvStutter, PTL DEF DcacheSpec

\* On the data cache (soc_top_bram_dcache.v) the load lock is never orphaned
\* either: L_BUSY has a load to wait for, even when that load has left EX/MEM
\* on the answer of an older one.
THEOREM DcacheLoadLock == DcacheSpec => []LoadLockServed
<1>1. DcacheInv => LoadLockServed
  BY DEF DcacheInv
<1>2. QED
  BY <1>1, DcacheInvAlways, PTL

\* Nor is the store lock: the dmem_ready that releases it is there or to come.
THEOREM DcacheStoreLock == DcacheSpec => []StoreLockServed
<1>1. DcacheInv => StoreLockServed
  BY DEF DcacheInv
<1>2. QED
  BY <1>1, DcacheInvAlways, PTL

-----------------------------------------------------------------------------
(* The data side of soc_top_bram_dcache is DataCacheMem: the core keeps the *)
(* environment the cache was proved in.  fresh is the history variable of   *)
(* DataCacheMem: it looks at the cache and changes nothing.                 *)

VARIABLE fresh

NumLines == WordSize \div LineWords

\* What the cache can tell of EX/MEM.
NoPort == [ren |-> FALSE, wen |-> FALSE, addr |-> [line |-> 0, word |-> 0],
           wdata |-> Zero]
view(e) ==
    IF e.ren THEN [NoPort EXCEPT !.ren = TRUE, !.addr = split(e.addr)]
    ELSE IF e.wen
    THEN [NoPort EXCEPT !.wen = TRUE, !.addr = split(e.addr), !.wdata = e.wdata]
    ELSE NoPort
port == view(exmem)

C == INSTANCE DataCacheMem_proofs WITH
         Line <- 0 .. NumLines - 1, NoData <- Zero,
         PowerUp <- 0, PowerUpData <- Zero, exmem <- port

TracedInit == DcacheInit /\ fresh = {}
TracedNext == DcacheNext /\ C!Refresh
TracedSpec == TracedInit /\ [][TracedNext]_<<dcachevars, fresh>>

\* Division by a positive number.
LEMMA Quotient ==
    ASSUME NEW a \in Nat, NEW k \in Nat \ {0}
    PROVE  /\ a \div k \in Nat /\ a % k \in 0 .. k - 1
           /\ a = (a \div k) * k + (a % k)
OBVIOUS

LEMMA SmallQuotient ==
    ASSUME NEW a \in Nat, NEW n \in Nat, NEW k \in Nat \ {0}, a < n * k
    PROVE  a \div k < n
<1>1. PICK q \in Nat : q = a \div k
  BY Quotient
<1>2. q * k <= a
  BY <1>1, Quotient
<1>3. ~(n <= q)
  <2>1. n <= q => n * k <= q * k
    <3>1. ASSUME n <= q PROVE n * k <= q * k
      <4>1. PICK d \in Nat : q = n + d
        <5>1. q - n \in Nat
          BY <1>1, <3>1
        <5>2. QED
          BY <5>1
      <4>2. PICK e \in Nat : e = d * k
        OBVIOUS
      <4>3. q * k = n * k + e
        BY <4>1, <4>2
      <4>4. QED
        BY <4>2, <4>3
    <3>2. QED
      BY <3>1
  <2>2. PICK x \in Nat : x = n * k
    OBVIOUS
  <2>3. PICK y \in Nat : y = q * k
    BY <1>1
  <2>4. QED
    BY <1>2, <2>1, <2>2, <2>3
<1>4. QED
  BY <1>1, <1>3

LEMMA LineCount ==
    /\ NumLines \in Nat \ {0} /\ NumLines * LineWords = WordSize
    /\ IsFiniteSet(0 .. NumLines - 1)
    /\ Cardinality(0 .. NumLines - 1) = NumLines
<1>1. /\ WordSize \in Nat \ {0} /\ LineWords \in Nat \ {0}
      /\ WordSize % LineWords = 0
  BY RV32Assumption, CoreDcacheAssumption
<1>2. NumLines \in Nat /\ NumLines * LineWords = WordSize
  BY <1>1, Quotient DEF NumLines
<1>3. NumLines # 0
  BY <1>1, <1>2
<1>4. QED
  BY <1>2, <1>3, FS_Interval

LEMMA SplitType ==
    ASSUME NEW a \in Word
    PROVE  split(a) \in C!Address
<1>1. a \in Nat /\ a < NumLines * LineWords /\ LineWords \in Nat \ {0}
  BY LineCount, RV32Assumption, CoreDcacheAssumption DEF Word
<1>2. /\ a \div LineWords \in Nat /\ a \div LineWords < NumLines
      /\ a % LineWords \in 0 .. LineWords - 1
  BY <1>1, LineCount, Quotient, SmallQuotient
<1>3. a \div LineWords \in 0 .. NumLines - 1
  BY <1>2, LineCount
<1>4. QED
  BY <1>2, <1>3 DEF split, C!Address, C!Offset

LEMMA PortType == ASSUME NEW e \in Access PROVE view(e) \in C!Access
<1>1. split(e.addr) \in C!Address /\ e.wdata \in Word
  BY SplitType DEF Access
<1>2. CASE e.ren
  <2>1. view(e) = C!Load(split(e.addr))
    BY <1>2 DEF view, NoPort, C!Load, C!NoAccess, C!Origin
  <2>2. QED
    BY <1>1, <2>1 DEF C!Access
<1>3. CASE ~e.ren /\ e.wen
  <2>1. view(e) = C!Store(split(e.addr), e.wdata)
    BY <1>3 DEF view, NoPort, C!Store, C!NoAccess, C!Origin
  <2>2. QED
    BY <1>1, <2>1 DEF C!Access
<1>4. CASE ~e.ren /\ ~e.wen
  BY <1>4 DEF view, NoPort, C!Access, C!NoAccess, C!Origin
<1>5. QED
  BY <1>2, <1>3, <1>4

\* The requests that count are the same on both sides of the port.
LEMMA PortIsRequest ==
    ASSUME exmem \in Access
    PROVE  /\ port.ren = exmem.ren
           /\ port.wen = (~exmem.ren /\ exmem.wen)
           /\ cpu_dmem.ren = exmem.ren /\ cpu_dmem.wen = exmem.wen
           /\ exmem.ren \/ exmem.wen => port.addr = cpu_dmem.addr
           /\ port.wen => port.wdata = cpu_dmem.wdata
<1>1. /\ cpu_dmem.ren = exmem.ren /\ cpu_dmem.wen = exmem.wen
      /\ cpu_dmem.addr = split(exmem.addr) /\ cpu_dmem.wdata = exmem.wdata
  BY DEF cpu_dmem, dmem_request
<1>2. exmem.ren \in BOOLEAN /\ exmem.wen \in BOOLEAN
  BY DEF Access
<1>3. QED
  BY <1>1, <1>2 DEF port, view, NoPort

LEMMA SameHits ==
    ASSUME NEW a
    PROVE  /\ C!hit_found(a) = DC!hit_found(a)
           /\ C!hit_way(a) = DC!hit_way(a)
           /\ C!hit_word(a) = DC!hit_word(a)
BY DEF C!hit_found, DC!hit_found, C!hit_way, DC!hit_way, C!hit_word,
       DC!hit_word, C!Hits, DC!Hits, C!Way, DC!Way, C!index, DC!index

\* A clock edge of the cache is one of C's under the port.
LEMMA SameCache ==
    ASSUME exmem \in Access, NEW rdata, NEW ready, NEW way,
           DC!Clock(cpu_dmem, rdata, ready, way)
    PROVE  C!Clock(port, rdata, ready, way)
<1> DEFINE r == cpu_dmem
<1>1. CASE DC!Await(ready)
  BY <1>1 DEF DC!Await, C!Await, DC!NotCompleted, C!NotCompleted, DC!Origin,
              C!Origin, C!Clock
<1>2. CASE DC!FinishRead(rdata, ready)
  BY <1>2 DEF DC!FinishRead, C!FinishRead, DC!index, C!index, C!Clock
<1>3. CASE DC!FinishWrite(ready)
  BY <1>3 DEF DC!FinishWrite, C!FinishWrite, C!Clock
<1>4. CASE DC!Ignore(r)
  BY <1>4, PortIsRequest DEF DC!Ignore, C!Ignore, DC!Accepts, C!Accepts,
     DC!NotCompleted, C!NotCompleted, DC!Origin, C!Origin, C!Clock
<1>5. CASE DC!ReadHit(r)
  BY <1>5, PortIsRequest, SameHits DEF DC!ReadHit, C!ReadHit, DC!Accepts,
     C!Accepts, DC!NotCompleted, C!NotCompleted, DC!Origin, C!Origin, C!Clock
<1>6. CASE DC!ReadMiss(r, way)
  BY <1>6, PortIsRequest, SameHits DEF DC!ReadMiss, C!ReadMiss, DC!Accepts,
     C!Accepts, DC!NotCompleted, C!NotCompleted, DC!Origin, C!Origin, C!Clock
<1>7. CASE DC!StartWrite(r)
  BY <1>7, PortIsRequest, SameHits DEF DC!StartWrite, C!StartWrite, DC!Accepts,
     C!Accepts, DC!index, C!index, DC!NotCompleted, C!NotCompleted, DC!Origin,
     C!Origin, C!Clock
<1>8. QED
  BY <1>1, <1>2, <1>3, <1>4, <1>5, <1>6, <1>7 DEF DC!Clock

LEMMA SameCardinality ==
    /\ C!IsFiniteSet(0 .. NumLines - 1)
    /\ C!Cardinality(0 .. NumLines - 1) = NumLines
<1>1. /\ C!IsFiniteSet(0 .. NumLines - 1) = IsFiniteSet(0 .. NumLines - 1)
      /\ C!Cardinality(0 .. NumLines - 1) = Cardinality(0 .. NumLines - 1)
  BY DEF C!Cardinality, Cardinality, C!IsFiniteSet, IsFiniteSet
<1>2. QED
  BY <1>1, LineCount

\* A clock edge of data_mem is one of C's, if the cache's addresses are its own.
LEMMA SameMemory ==
    ASSUME MemSize = WordSize, DM!Clock(dc_mem)
    PROVE  C!D!Clock(C!dc_mem)
<1>1. C!Cardinality(0 .. NumLines - 1) * LineWords = MemSize
  BY LineCount, SameCardinality
<1>2. C!dc_mem = dc_mem
  BY DEF C!dc_mem, dc_mem, C!mem_request, DC!mem_request, C!flat, flat
<1>3. ASSUME NEW a PROVE C!D!word_addr(a) = DM!word_addr(a)
  BY <1>1 DEF C!D!word_addr, DM!word_addr
<1>4. QED
  BY <1>2, <1>3 DEF DM!Clock, C!D!Clock

\* The assumptions of DataCacheMem hold of the chip.
LEMMA SameAssumptions ==
    ASSUME MemSize = WordSize
    PROVE  C!DataCacheAssumption /\ C!DataCacheMemAssumption
<1>1. C!DataCacheAssumption
  BY ConstantTypes, LineCount, CoreDcacheAssumption DEF C!DataCacheAssumption
<1>2. C!D!MemAddr = DM!MemAddr
  BY LineCount, SameCardinality DEF C!D!MemAddr, DM!MemAddr
<1>3. C!DataCacheMemAssumption
  BY <1>2, LineCount, SameCardinality, CoreMemAssumption
     DEF C!DataCacheMemAssumption
<1>4. QED
  BY <1>1, <1>3

-----------------------------------------------------------------------------
\* The joint invariant: the types of the core and the invariant of the cache.
TracedInv == CoreTypeOK /\ C!IInv

LEMMA TracedInitStep ==
    ASSUME MemSize = WordSize, TracedInit
    PROVE  C!MemInit /\ TracedInv
<1>1. CoreTypeOK
  BY CoreInitType DEF TracedInit, DcacheInit, MemInit
<1>2. C!MemInit
  <2>1. C!Init
    BY DEF TracedInit, DcacheInit, DC!Init, C!Init, DC!Set, C!Set, DC!Way, C!Way,
           DC!Offset, C!Offset, DC!Origin, C!Origin, DC!NotCompleted,
           C!NotCompleted
  <2>2. C!D!Init
    BY DEF TracedInit, DcacheInit, MemInit, DM!Init, C!D!Init
  <2>3. port = C!NoAccess
    BY DEF TracedInit, DcacheInit, MemInit, Init, NoAccess, port, view, NoPort,
           C!NoAccess, C!Origin
  <2>4. QED
    BY <2>1, <2>2, <2>3 DEF C!MemInit, TracedInit
<1>3. C!IInv
  BY <1>2, SameAssumptions, C!InitIInv
<1>4. QED
  BY <1>1, <1>2, <1>3 DEF TracedInv

LEMMA TracedStep ==
    ASSUME MemSize = WordSize, TracedInv, TracedNext
    PROVE  C!MemNext /\ CoreTypeOK'
<1>1. PICK instr \in Fetchable, fetched \in FetchReady, way \in DC!Way :
          DcacheClock(instr, fetched, way)
  BY DEF TracedNext, DcacheNext
<1>2. CoreTypeOK'
  <2>1. dmem_rdata_reg \in Word /\ dmem_ready_reg \in BOOLEAN
    BY DEF TracedInv, C!IInv, C!MemTypeOK, C!TypeOK
  <2>2. DcacheInput(instr, fetched) \in Input
    BY <2>1, CoreMemAssumption, ConstantTypes DEF DcacheInput, CoreInput, Input
  <2>3. QED
    BY <1>1, <2>2, CoreTypeStep DEF DcacheClock, TracedInv
<1>3. exmem \in Access /\ exmem' \in Access
  BY <1>2 DEF TracedInv, CoreTypeOK
<1>4. C!Clock(port, C!D!data_out, C!D!ready, way)
  BY <1>1, <1>3, SameCache
     DEF DcacheClock, DM!data_out, DM!ready, C!D!data_out, C!D!ready
<1>5. C!D!Clock(C!dc_mem)
  BY <1>1, SameMemory DEF DcacheClock
<1>6. C!Present
  <2>1. C!dmem_valid = dmem_valid
    BY <1>3, PortIsRequest DEF C!dmem_valid, dmem_valid, Access
  <2>2. CASE dmem_valid /\ ~dmem_ready_reg
    <3>1. exmem' = exmem
      BY <2>2, DcachePorts, RequestKept DEF TracedNext
    <3>2. port' = port
      BY <3>1 DEF port, view, split
    <3>3. QED
      BY <2>1, <2>2, <3>2 DEF C!Present
  <2>3. CASE ~(dmem_valid /\ ~dmem_ready_reg)
    <3>1. PICK e \in Access : e = exmem'
      BY <1>3
    <3>2. port' = view(e)
      BY <3>1 DEF port, view, split
    <3>3. QED
      BY <2>1, <2>3, <3>2, PortType DEF C!Present
  <2>4. QED
    BY <2>2, <2>3
<1>7. way \in C!Way
  BY <1>1 DEF DC!Way, C!Way
<1>8. QED
  BY <1>2, <1>4, <1>5, <1>6, <1>7 DEF TracedNext, C!MemClock, C!MemNext

LEMMA TracedInvStep ==
    ASSUME MemSize = WordSize
    PROVE  TracedInv /\ [TracedNext]_<<dcachevars, fresh>>
             => [C!MemNext]_(C!dcmemvars) /\ TracedInv'
<1> SUFFICES ASSUME TracedInv, [TracedNext]_<<dcachevars, fresh>>
             PROVE  [C!MemNext]_(C!dcmemvars) /\ TracedInv'
  OBVIOUS
<1>1. [C!MemNext]_(C!dcmemvars) /\ CoreTypeOK'
  <2>1. CASE TracedNext
    BY <2>1, TracedStep
  <2>2. CASE UNCHANGED <<dcachevars, fresh>>
    BY <2>2 DEF dcachevars, memcorevars, corevars, pipevars, RF!rfvars,
       LSL!lslvars, DM!memvars, DC!dcvars, C!dcmemvars, C!dcvars, C!D!memvars,
       port, view, split, TracedInv, CoreTypeOK, RF!TypeOK, LSL!TypeOK
  <2>3. QED
    BY <2>1, <2>2
<1>2. C!IInv'
  BY <1>1, SameAssumptions, C!NextIInv DEF TracedInv
<1>3. QED
  BY <1>1, <1>2 DEF TracedInv

\* soc_top_bram_dcache.v:47-153: the core drives the cache as DataCacheMem
\* assumes, holding a request until dmem_ready: its data side implements it.
THEOREM ChipImplementsDcache ==
    ASSUME MemSize = WordSize
    PROVE  TracedSpec => C!MemSpec
<1>1. TracedInit => C!MemInit /\ TracedInv
  BY TracedInitStep
<1>2. QED
  BY <1>1, TracedInvStep, PTL DEF TracedSpec, C!MemSpec

\* So on the chip, whatever program it runs, no line is cached twice, every
\* word that was fetched or written is the memory's, no ready is taken for
\* another's, and every register has its type.
THEOREM ChipCoherent ==
    ASSUME MemSize = WordSize
    PROVE  TracedSpec => [](/\ CoreTypeOK /\ C!TypeOK
                            /\ C!UniqueLine /\ C!FreshIsMemory /\ C!AnswerIsOwn)
<1>1. TracedInit => TracedInv
  BY TracedInitStep
<1>2. TracedInv => /\ CoreTypeOK /\ C!TypeOK
                   /\ C!UniqueLine /\ C!FreshIsMemory /\ C!AnswerIsOwn
  BY DEF TracedInv, C!IInv, C!MemTypeOK
<1>3. QED
  BY <1>1, <1>2, TracedInvStep, PTL DEF TracedSpec
=============================================================================
