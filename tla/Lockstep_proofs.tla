--------------------------- MODULE Lockstep_proofs --------------------------
(***************************************************************************)
(* soc_top_bram computes what RV32I says, for every scheduled program, any *)
(* registers, word size and memory.  The argument follows one instruction  *)
(* after the other: whatever has left ID is executed as far as the         *)
(* architecture is concerned, and the back of the pipeline is in one of a  *)
(* few phases (Back) that say where the results are that the register file *)
(* and the memory do not have yet.                                         *)
(***************************************************************************)
EXTENDS Lockstep, CoreMem_proofs

\* The register file is the promise of its two ports (RegisterPromise); the
\* variable areg of that module is not used here.
F == INSTANCE RegisterPromise_proofs WITH areg <- regs

-----------------------------------------------------------------------------
(* One instruction of the architecture, as a function of its state.        *)

State == [pc : Word, regs : [Reg -> Word], mem : [DM!MemAddr -> Word]]

address(t, i) == DM!word_addr(Plus(t.regs[i.rs1], i.imm))

Result(t, i) ==
    CASE i.op = "lui"   -> i.imm
      [] i.op = "auipc" -> Plus(t.pc, i.imm)
      [] i.op \in {"jal", "jalr"} -> Next4(t.pc)
      [] i.op = "alu"   -> Plus(t.regs[i.rs1], t.regs[i.rs2])
      [] i.op = "load"  -> t.mem[address(t, i)]
      [] OTHER          -> Plus(t.regs[i.rs1], i.imm)

Transfers(t, i) ==
    is_branch(i) /\ Taken(i, t.regs[i.rs1], t.regs[i.rs2])

Successor(t, i) ==
    IF is_jump(i) \/ Transfers(t, i) THEN Plus(t.pc, i.imm)
    ELSE IF is_jalr(i) THEN Plus(t.regs[i.rs1], i.imm)
    ELSE Next4(t.pc)

After(t, i) ==
    [pc   |-> Successor(t, i),
     regs |-> IF Writes(i) THEN [t.regs EXCEPT ![i.rd] = Result(t, i)]
              ELSE t.regs,
     mem  |-> IF is_store(i)
              THEN [t.mem EXCEPT ![address(t, i)] = t.regs[i.rs2]]
              ELSE t.mem]

Exec(t) == After(t, At(prog, t.pc))

ProgOK == prog \in Programs

LEMMA ProgType ==
    ASSUME ProgOK, NEW a \in Word
    PROVE  At(prog, a) \in Instr
<1>1. a % ImemSize \in 0 .. ImemSize - 1
  BY SocBramAssumption, RV32Assumption DEF Word
<1>2. prog \in [0 .. ImemSize - 1 -> Fetchable]
  BY SocBramAssumption DEF ProgOK
<1>3. QED
  BY <1>1, <1>2, CoreMemAssumption DEF At

\* The scheduling rule at one address of the program.
LEMMA Rules ==
    ASSUME ProgOK, NEW a \in Word
    PROVE  LET i == At(prog, a)
               j == At(prog, Next4(a))
               k == At(prog, Next4(Next4(a))) IN
           StoreSpaced(i, j) /\ LoadSpaced(i, j, k) /\ JalSpaced(i, j, k)
BY LockstepAssumption DEF ProgOK, Scheduled

LEMMA InstrFields ==
    ASSUME NEW i \in Instr
    PROVE  /\ i.op \in Op /\ i.rd \in Reg /\ i.rs1 \in Reg
           /\ i.rs2 \in Reg /\ i.imm \in Word
BY DEF Instr

LEMMA ResultType ==
    ASSUME NEW t \in State, NEW i \in Instr
    PROVE  Result(t, i) \in Word
<1>1. /\ t.pc \in Word /\ t.regs[i.rs1] \in Word /\ t.regs[i.rs2] \in Word
      /\ i.imm \in Word
  BY InstrFields DEF State
<1>2. /\ Plus(t.pc, i.imm) \in Word
      /\ Plus(t.regs[i.rs1], i.imm) \in Word
      /\ Plus(t.regs[i.rs1], t.regs[i.rs2]) \in Word
      /\ Next4(t.pc) \in Word
  BY <1>1, PlusType, ConstantTypes
<1>3. t.mem[address(t, i)] \in Word
  BY <1>2, MemAddrType DEF State, address
<1>4. QED
  BY <1>1, <1>2, <1>3 DEF Result

LEMMA AfterType ==
    ASSUME NEW t \in State, NEW i \in Instr
    PROVE  After(t, i) \in State
<1>1. /\ t.pc \in Word /\ t.regs \in [Reg -> Word]
      /\ t.mem \in [DM!MemAddr -> Word]
  BY DEF State
<1>2. t.regs[i.rs1] \in Word /\ t.regs[i.rs2] \in Word /\ i.rd \in Reg
      /\ i.imm \in Word
  BY <1>1, InstrFields
<1>3. Successor(t, i) \in Word
  BY <1>1, <1>2, PlusType, ConstantTypes DEF Successor
<1>4. address(t, i) \in DM!MemAddr
  BY <1>2, PlusType, MemAddrType DEF address
<1>5. After(t, i).regs \in [Reg -> Word]
  BY <1>1, <1>2, ResultType DEF After
<1>6. After(t, i).mem \in [DM!MemAddr -> Word]
  BY <1>1, <1>2, <1>4 DEF After
<1>7. QED
  BY <1>3, <1>5, <1>6 DEF After, State

LEMMA ExecType == ASSUME ProgOK, NEW t \in State PROVE Exec(t) \in State
<1>1. t.pc \in Word
  BY DEF State
<1>2. QED
  BY <1>1, ProgType, AfterType DEF Exec

\* The ISA machine takes one such step in every clock; at the final jump to
\* itself the step changes nothing.
Now == [pc |-> apc, regs |-> aregs, mem |-> amem]

LEMMA SameWords ==
    /\ A!Zero = Zero
    /\ \A a, b : A!Plus(a, b) = Plus(a, b)
    /\ \A a : A!Next4(a) = Next4(a)
BY DEF A!Zero, Zero, A!Plus, Plus, A!Next4, Next4

LEMMA SameClasses ==
    \A i : /\ A!is_load(i) = is_load(i) /\ A!is_store(i) = is_store(i)
          /\ A!is_branch(i) = is_branch(i)
          /\ A!is_jalr(i) = is_jalr(i) /\ A!is_jump(i) = is_jump(i)
          /\ \A a, b : A!Taken(i, a, b) = Taken(i, a, b)
BY DEF A!is_load, is_load, A!is_store, is_store, A!is_branch, is_branch,
       A!is_jalr, is_jalr, A!is_jump, is_jump, A!Taken, Taken

LEMMA HaltedStays ==
    ASSUME NEW t \in State, A!Halts(At(prog, t.pc))
    PROVE  Exec(t) = t
<1> DEFINE i == At(prog, t.pc)
<1>1. is_jump(i) /\ i.imm = 0 /\ ~Writes(i) /\ ~is_store(i)
  BY SameWords, SameClasses DEF A!Halts, is_jump, is_store, Writes, Zero
<1>2. Plus(t.pc, 0) = t.pc
  BY RV32Assumption DEF Plus, Word, State
<1>3. Exec(t).pc = t.pc /\ Exec(t).regs = t.regs /\ Exec(t).mem = t.mem
  BY <1>1, <1>2 DEF Exec, After, Successor
<1>4. QED
  BY <1>3 DEF State, Exec, After

LEMMA IsaStep ==
    ASSUME ProgOK, Now \in State, ISAStep
    PROVE  Now' = Exec(Now)
<1> DEFINE i == At(prog, apc)
<1>1. apc \in Word /\ aregs \in [Reg -> Word] /\ amem \in [DM!MemAddr -> Word]
  BY DEF Now, State
<1>2. i \in Instr /\ A!Fetched = i
  BY <1>1, ProgType DEF A!Fetched, At
<1> USE SameWords, SameClasses
<1>3. Exec(Now) = [pc |-> Successor(Now, i), regs |-> After(Now, i).regs,
                   mem |-> After(Now, i).mem]
  BY DEF Exec, After, Now
<1>4. CASE A!Halted
  <2>1. UNCHANGED <<apc, aregs, amem>>
    BY <1>4 DEF ISAStep, A!Step
  <2>2. Exec(Now) = Now
    BY <1>2, <1>4, HaltedStays DEF A!Halted, Now
  <2>3. QED
    BY <2>1, <2>2 DEF Now
<1>5. CASE A!Step /\ A!Compute
  <2>1. Successor(Now, i) = Next4(apc)
    BY <1>2, <1>5 DEF A!Compute, Successor, Transfers, is_jump, is_jalr, is_branch, Now
  <2>2. After(Now, i).mem = amem
    BY <1>2, <1>5 DEF A!Compute, After, is_store, Now
  <2>3. After(Now, i).regs = aregs'
    BY <1>1, <1>2, <1>5
       DEF A!Compute, A!SetReg, After, Writes, reg_write_en, Result, Now
  <2>4. QED
    BY <1>2, <1>3, <1>5, <2>1, <2>2, <2>3 DEF A!Compute, Now
<1>6. CASE A!Step /\ A!MemAccess
  <2>1. Successor(Now, i) = Next4(apc)
    BY <1>2, <1>6 DEF A!MemAccess, Successor, Transfers, is_jump, is_jalr,
                      is_branch, is_load, is_store, Now
  <2>2. After(Now, i).mem = amem'
    BY <1>2, <1>6 DEF A!MemAccess, After, address, is_load, is_store, Now, DM!word_addr
  <2>3. After(Now, i).regs = aregs'
    BY <1>1, <1>2, <1>6
       DEF A!MemAccess, A!SetReg, After, address, is_load, is_store, Writes,
           reg_write_en, Result, Now, DM!word_addr
  <2>4. QED
    BY <1>2, <1>3, <1>6, <2>1, <2>2, <2>3 DEF A!MemAccess, Now
<1>7. CASE A!Step /\ A!Branch
  <2>1. After(Now, i).mem = amem /\ After(Now, i).regs = aregs
    BY <1>2, <1>7 DEF A!Branch, After, is_branch, is_store, Writes, reg_write_en, Now
  <2>2. Successor(Now, i) = apc'
    BY <1>2, <1>7 DEF A!Branch, Successor, Transfers, is_jump, is_jalr, is_branch, Now
  <2>3. QED
    BY <1>3, <1>7, <2>1, <2>2 DEF A!Branch, Now
<1>8. CASE A!Step /\ A!Jump
  <2>1. After(Now, i).mem = amem
    BY <1>2, <1>8 DEF A!Jump, After, is_jump, is_jalr, is_store, Now
  <2>2. After(Now, i).regs = aregs'
    BY <1>1, <1>2, <1>8 DEF A!Jump, A!SetReg, After, is_jump, is_jalr, Writes,
                            reg_write_en, Result, Now
  <2>3. Successor(Now, i) = apc'
    BY <1>2, <1>8 DEF A!Jump, Successor, Transfers, is_jump, is_jalr, is_branch, Now
  <2>4. QED
    BY <1>3, <1>8, <2>1, <2>2, <2>3 DEF A!Jump, Now
<1>9. QED
  BY <1>4, <1>5, <1>6, <1>7, <1>8 DEF ISAStep, A!Step

-----------------------------------------------------------------------------
(* The invariant.  s is the architecture's state after everything that has *)
(* left ID, p the one before the instruction in EX.                        *)

\* A NOP or a bubble in EX changes nothing.
Idle == idex.instr \in {NOP, Bubble}

\* The state the instruction in EX starts from.
Pre(p, s) == IF Idle THEN s ELSE p

\* The ALU's write-back as a request on the WB port.
alu_wb == [we |-> exwb.we, waddr |-> exwb.rd, wdata |-> exwb.result]
NoWriteBack == exwb.we => exwb.rd = X0

\* IF/ID and ID/EX hold words of the program in sequence.
InSequence ==
    /\ ifid.valid => ifid.instr = At(prog, ifid.pc) /\ pc = Next4(ifid.pc)
    /\ ~ifid.valid => ifid.instr = NOP /\ Idle
    /\ idex.valid => /\ idex.instr = At(prog, idex.pc)
                     /\ ifid.valid => ifid.pc = Next4(idex.pc)
    /\ ~idex.valid => Idle
    /\ ~is_jump(idex.instr)

\* What is written back beside a valid instruction in EX is the result of the
\* word in front of it.
WriterInFront ==
    idex.valid /\ ~NoWriteBack =>
        \E b \in Word : /\ Next4(b) = idex.pc
                        /\ Writes(At(prog, b)) /\ At(prog, b).rd = exwb.rd

\* Where s is: at the instruction in ID, or behind the one in EX, whose
\* successor may be another one.
Position(p, s) ==
    /\ Idle => s.pc = IF ifid.valid THEN ifid.pc ELSE pc
    /\ ~Idle => s = Exec(p) /\ p.pc = idex.pc

\* The operands of the instruction in EX: forwarded or read in ID.
Forwarded(t) ==
    /\ chain[1].rd # X0 => chain[1].data = t.regs[chain[1].rd]
    /\ ~NoWriteBack => chain[1] = [rd |-> exwb.rd, data |-> exwb.result]
    /\ raddr_q[1] = idex.instr.rs1 /\ raddr_q[2] = idex.instr.rs2

\* No access is under way.
Flow(t) ==
    /\ lstate = "L_IDLE" /\ ~slock /\ ~dmem_valid /\ ~memwb.is_load
    /\ mem = t.mem
    /\ F!Written(F!Arch, alu_wb) = t.regs
    /\ buf.we => ~ifid.valid /\ NoWriteBack
    /\ ifid.valid => idex.instr # Bubble
    /\ ~Idle => Forwarded(t)

LoadIdle(t) ==
    Idle /\ ifid.valid /\ ~slock /\ ~buf.we /\ ~exmem.wen /\ mem = t.mem

Reads(i, r) == (use_rs1(i) /\ i.rs1 = r) \/ (use_rs2(i) /\ i.rs2 = r)

\* Behind a load: two NOPs in EX and ID, or a bubble and its consumer.
BehindLoad ==
    \/ idex.instr = NOP /\ ifid.instr = NOP
    \/ idex.instr = Bubble /\ exmem.rd # X0 /\ Reads(ifid.instr, exmem.rd)

\* A load is on the bus.
LoadWait(t) ==
    /\ LoadIdle(t) /\ BehindLoad
    /\ lstate = "L_BUSY" /\ first_cycle /\ exmem.ren /\ ~memwb.is_load
    /\ ld.rd = exmem.rd
    /\ \A r \in Reg : (r = exmem.rd /\ r # X0) \/ F!Arch[r] = t.regs[r]
    /\ exmem.rd # X0 => t.regs[exmem.rd] = mem[DM!word_addr(exmem.addr)]

\* Its first cycle: EX/WB still holds the load's address as its result.
LoadAsked(t) ==
    LoadWait(t) /\ ~ready_reg /\ (~NoWriteBack => exwb.rd = exmem.rd)

\* Its second: the memory has answered.
LoadAnswered(t) ==
    /\ LoadWait(t) /\ ready_reg /\ ~dmem_ready_d1 /\ NoWriteBack
    /\ mem_data = mem[DM!word_addr(exmem.addr)]

\* The word is in MEM/WB and in the load lock.
LoadWrites(t) ==
    /\ LoadIdle(t)
    /\ lstate = "L_RELEASE" /\ ~dmem_valid /\ memwb.is_load /\ NoWriteBack
    /\ memwb.rd = ld.rd /\ memwb.data = ld.saved
    /\ F!Written(F!Arch, wb) = t.regs

\* A store is on the bus.
StoreWait(t) ==
    /\ lstate = "L_IDLE" /\ slock /\ exmem.wen /\ ~exmem.ren /\ ~memwb.is_load
    /\ idex.instr = NOP /\ ~buf.we /\ NoWriteBack
    /\ F!Arch = t.regs
    /\ [mem EXCEPT ![DM!word_addr(exmem.addr)] = exmem.wdata] = t.mem

Back(t) ==
    /\ ~load_skip_stale
    /\ Flow(t) \/ LoadAsked(t) \/ LoadAnswered(t) \/ LoadWrites(t) \/ StoreWait(t)

FileOK == F!ZeroKept /\ F!ReadsCurrent

Pipe(p, s) ==
    /\ TypeOK /\ ProgOK /\ FileOK
    /\ InSequence /\ WriterInFront
    /\ Position(p, s)
    /\ Back(Pre(p, s))

-----------------------------------------------------------------------------
(* The wires of one cycle, and its clock edge.                             *)

cycle == CoreInput(imem_rdata, TRUE, FALSE)
Held == HC!stall_back(Hazard(cycle))
Waits == HC!load_use_hazard(Hazard(cycle))
Redirect == ex_branch_taken(cycle) \/ ex_jalr
Edge == MemClock(imem_rdata, TRUE, FALSE) /\ prog' = prog

\* The pipeline registers when the ports of core_top are tied as here.
LEMMA PipelineEdge ==
    ASSUME Edge
    PROVE  /\ pc' = IF ex_jalr THEN pc_jalr(cycle)
                    ELSE IF jump_if THEN pc_jump_if
                    ELSE IF ex_branch_taken(cycle) THEN pc_branch
                    ELSE IF Waits \/ Held THEN pc ELSE Next4(pc)
           /\ ifid' = IF Redirect \/ jump_if THEN FetchBubble
                      ELSE IF Waits \/ Held THEN ifid
                      ELSE [pc |-> pc, instr |-> At(prog, pc), valid |-> TRUE]
           /\ idex' = IF Redirect \/ ((Waits \/ jump_if) /\ ~Held) THEN IssueBubble
                      ELSE IF Held THEN idex ELSE ifid
           /\ exmem' = IF Held THEN exmem ELSE ex_access(cycle)
           /\ exwb' = [result |-> ex_result(cycle), rd |-> idex.instr.rd,
                       we |-> reg_write_en(idex.instr)]
           /\ memwb' = IF Held THEN memwb
                       ELSE [is_load |-> exmem.ren, rd |-> exmem.rd,
                             data |-> IF exmem.ren THEN mem_data ELSE Zero]
<1> DEFINE h == Hazard(cycle)
<1>1. Clock(cycle)
  BY DEF Edge, MemClock, cycle
<1>2. /\ cycle.flush = FALSE /\ cycle.stall = FALSE
      /\ cycle.exception = FALSE /\ cycle.interrupt = FALSE
      /\ cycle.imem_ready = TRUE /\ cycle.imem_rdata = At(prog, pc)
      /\ cycle.dmem_rdata = mem_data
  BY DEF cycle, CoreInput, imem_rdata, At, DM!data_out
<1>3. HC!stall_front(h) = (Waits \/ Held)
  BY <1>2 DEF HC!stall_front, HC!stall_back, Held, Waits, Hazard
<1>4. HC!flush_ifid(h) = (Redirect \/ jump_if)
  BY <1>2 DEF HC!flush_ifid, HC!branch_hazard_ex, Redirect, Hazard
<1>5. HC!flush_idex(h) = (Redirect \/ ((Waits \/ jump_if) /\ ~Held))
  BY <1>2 DEF HC!flush_idex, HC!branch_hazard_ex, Redirect, Hazard, Held, Waits
<1>6. HC!stall_back(h) = Held
  BY DEF Held
<1> HIDE DEF h
<1>7. pc' = NextPC(cycle)
  BY <1>1 DEF Clock
<1>8. NextPC(cycle) = IF ex_jalr THEN pc_jalr(cycle)
                      ELSE IF jump_if THEN pc_jump_if
                      ELSE IF ex_branch_taken(cycle) THEN pc_branch
                      ELSE IF Waits \/ Held THEN pc ELSE Next4(pc)
  BY <1>2, <1>3 DEF NextPC, h
<1>9. ifid' = Latch(Redirect \/ jump_if, Waits \/ Held, FetchBubble, ifid,
                    [pc |-> pc, instr |-> At(prog, pc), valid |-> TRUE])
  BY <1>1, <1>2, <1>3, <1>4 DEF Clock, h
<1>10. idex' = Latch(Redirect \/ ((Waits \/ jump_if) /\ ~Held), Held,
                     IssueBubble, idex, ifid)
  BY <1>1, <1>5, <1>6 DEF Clock, h
<1>11. exmem' = Latch(FALSE, Held, NoAccess, exmem, ex_access(cycle))
  BY <1>1, <1>2, <1>6 DEF Clock, h
<1>12. memwb' = Latch(FALSE, Held, NoLoadResult, memwb,
                      [is_load |-> exmem.ren, rd |-> exmem.rd,
                       data |-> IF exmem.ren THEN mem_data ELSE Zero])
  BY <1>1, <1>2, <1>6 DEF Clock, h
<1>13. exwb' = [result |-> ex_result(cycle), rd |-> idex.instr.rd,
                we |-> reg_write_en(idex.instr)]
  BY <1>1, <1>2 DEF Clock
<1>14. QED
  BY <1>7, <1>8, <1>9, <1>10, <1>11, <1>12, <1>13 DEF Latch

\* The data memory.
LEMMA MemoryEdge ==
    ASSUME Edge
    PROVE  /\ ready_reg' = dmem_valid
           /\ mem_data' = IF exmem.ren THEN mem[DM!word_addr(exmem.addr)] ELSE mem_data
           /\ mem' = IF exmem.wen
                     THEN [mem EXCEPT ![DM!word_addr(exmem.addr)] = exmem.wdata]
                     ELSE mem
BY DEF Edge, MemClock, DM!Clock, dmem_request, dmem_valid

\* The ports of register_EX, and that no ready is stale while none is skipped.
LEMMA LockEdge ==
    ASSUME Edge
    PROVE  LET i == LockInput(cycle) IN
           /\ LSL!Clock(i)
           /\ i.stall = (Waits \/ Held)
           /\ i.flush = Redirect
           /\ i.load_enable = is_load(idex.instr)
           /\ i.store_enable = is_store(idex.instr)
           /\ i.load_success = (ready_reg /\ exmem.ren)
           /\ i.dmem_ready = ready_reg
           /\ i.rd = idex.instr.rd
           /\ i.result = ex_result(cycle)
           /\ i.rdata = mem_data
           /\ i.reg_write_en = reg_write_en(idex.instr)
<1>1. /\ cycle.flush = FALSE /\ cycle.stall = FALSE /\ cycle.imem_ready = TRUE
      /\ cycle.dmem_rdata = mem_data /\ cycle.dmem_ready = ready_reg
  BY DEF cycle, CoreInput, DM!data_out, DM!ready
<1>2. HC!stall_front(Hazard(cycle)) = (Waits \/ Held)
  BY <1>1 DEF HC!stall_front, HC!stall_back, Held, Waits, Hazard
<1>3. HC!branch_hazard_ex(Hazard(cycle)) = Redirect
  BY DEF HC!branch_hazard_ex, Redirect, Hazard
<1>4. LSL!Clock(LockInput(cycle))
  BY DEF Edge, MemClock, Clock, cycle
<1>5. LockInput(cycle) =
        [stall |-> HC!stall_front(Hazard(cycle)),
         flush |-> cycle.flush \/ HC!branch_hazard_ex(Hazard(cycle)),
         load_enable |-> is_load(idex.instr),
         store_enable |-> is_store(idex.instr),
         load_success |-> cycle.dmem_ready /\ exmem.ren,
         dmem_ready |-> cycle.dmem_ready,
         rd |-> idex.instr.rd,
         result |-> ex_result(cycle),
         rdata |-> cycle.dmem_rdata,
         reg_write_en |-> reg_write_en(idex.instr)]
  BY DEF LockInput
<1>6. /\ LockInput(cycle).stall = (Waits \/ Held)
      /\ LockInput(cycle).flush = Redirect
  <2>1. Redirect \in BOOLEAN /\ (Waits \/ Held) \in BOOLEAN
    BY DEF Redirect
  <2>2. (cycle.flush \/ HC!branch_hazard_ex(Hazard(cycle))) = Redirect
    BY <1>1, <1>3, <2>1
  <2>3. QED
    BY <1>2, <1>5, <2>2
<1>7. QED
  BY <1>1, <1>4, <1>5, <1>6

\* The stalls are those of the memory stage: the external stall is tied off.
LEMMA Stalls ==
    /\ Held = (\/ (lstate = "L_BUSY" \/ slock) /\ is_store(idex.instr)
               \/ dmem_valid /\ ~ready_reg
               \/ load_skip_stale)
    /\ Waits = /\ lstate = "L_BUSY" \/ (lstate = "L_IDLE" /\ is_load(idex.instr))
               /\ LSL!rd_reg_load_out(is_load(idex.instr), idex.instr.rd) # X0
               /\ Reads(ifid.instr, LSL!rd_reg_load_out(is_load(idex.instr), idex.instr.rd))
<1>1. cycle.stall = FALSE /\ cycle.dmem_ready = ready_reg
  BY DEF cycle, CoreInput, DM!ready
<1>2. Held = (\/ (lstate = "L_BUSY" \/ slock) /\ is_store(idex.instr)
              \/ dmem_valid /\ ~ready_reg
              \/ load_skip_stale)
  BY <1>1 DEF Held, HC!stall_back, HC!mem_stall, Hazard, LSL!mem_stall_req
<1>3. QED
  BY <1>2 DEF Waits, HC!load_use_hazard, Hazard, LSL!load_pending_out, Reads

-----------------------------------------------------------------------------
(* The register file.                                                      *)

LEMMA SameFile ==
    /\ F!TypeOK = RF!TypeOK
    /\ \A w, l, r : F!Clock(w, l, r) = RF!Clock(w, l, r)
    /\ \A w, l : F!Spaced(w, l) = RF!Spaced(w, l)
    /\ F!WritePort = RF!WritePort
    /\ F!Port = RF!Port
    /\ \A p : F!RData(p) = RF!RData(p)
BY DEF F!TypeOK, RF!TypeOK, F!WritePort, RF!WritePort, F!Port, RF!Port,
       F!Clock, RF!Clock, F!Final, RF!Final, F!Effective, RF!Effective,
       F!Displaced, RF!Displaced, F!NoWrite, RF!NoWrite,
       F!Spaced, RF!Spaced, F!RData, RF!RData

\* Every edge the buffer does not overflow in does to the registers what two
\* ports would, and a write is displaced only by a link to another register.
LEMMA FileEdge ==
    ASSUME TypeOK, FileOK, BufferNeverOverflows, Edge
    PROVE  /\ FileOK'
           /\ F!Arch' = F!Written(F!Written(F!Arch, wb), jal_link)
           /\ raddr_q'[1] = ifid.instr.rs1 /\ raddr_q'[2] = ifid.instr.rs2
           /\ buf'.we => /\ jal_link.we /\ wb.we /\ wb.waddr # X0
                         /\ wb.waddr # jal_link.waddr
<1> DEFINE raddr == [p \in 1 .. 2 |-> IF p = 1 THEN ifid.instr.rs1
                                      ELSE ifid.instr.rs2]
<1>1. RF!Clock(wb, jal_link, raddr)
  BY DEF Edge, MemClock, Clock
<1>2. wb \in RF!WritePort /\ jal_link \in RF!WritePort
  BY WriteTypes DEF TypeOK
<1>3. raddr \in [RF!Port -> Reg]
  BY WriteTypes DEF TypeOK, RF!Port
<1>4. raddr_q' = raddr /\ buf' = IF RF!Displaced(wb, jal_link) THEN wb ELSE RF!NoWrite
  BY <1>1 DEF RF!Clock
<1>5. raddr_q'[1] = ifid.instr.rs1 /\ raddr_q'[2] = ifid.instr.rs2
  BY <1>4
<1>6. buf'.we => RF!Displaced(wb, jal_link)
  BY <1>4 DEF RF!NoWrite
<1>7. /\ F!TypeOK /\ F!Clock(wb, jal_link, raddr) /\ F!Spaced(wb, jal_link)
      /\ wb \in F!WritePort /\ jal_link \in F!WritePort
      /\ raddr \in [F!Port -> Reg] /\ X0 \in Reg /\ Zero \in Word
  BY <1>1, <1>2, <1>3, SameFile, ConstantTypes DEF TypeOK, CoreTypeOK, BufferNeverOverflows
<1> HIDE DEF raddr
<1>8. F!ZeroKept'
  BY <1>7, F!ZeroStep DEF FileOK
<1>9. F!ReadsCurrent'
  BY <1>7, <1>8, F!ReadStep DEF FileOK
<1>10. F!Arch' = F!Written(F!Written(F!Arch, wb), jal_link)
  BY <1>7, F!ArchStep DEF FileOK
<1>11. QED
  BY <1>5, <1>6, <1>8, <1>9, <1>10 DEF FileOK, RF!Displaced

-----------------------------------------------------------------------------
(* What the wires carry in each phase.                                     *)

LEMMA CycleType == ASSUME TypeOK, ProgOK PROVE cycle \in Input
BY FetchType, InputType, SocBramAssumption, LockstepAssumption
   DEF FetchOK, ProgOK, cycle

LEMMA EdgeType == ASSUME TypeOK, ProgOK, Edge PROVE TypeOK' /\ ProgOK'
<1>1. CoreTypeOK'
  BY CycleType, CoreTypeStep DEF Edge, MemClock, cycle, TypeOK
<1>2. DM!TypeOK'
  BY MemTypeStep DEF Edge, MemClock
<1>3. QED
  BY <1>1, <1>2 DEF TypeOK, ProgOK, Edge

LEMMA PipeTypes ==
    ASSUME TypeOK
    PROVE  /\ pc \in Word /\ ifid.pc \in Word /\ idex.pc \in Word
           /\ ifid.valid \in BOOLEAN /\ idex.valid \in BOOLEAN
           /\ ifid.instr \in Instr
           /\ idex.instr.rd \in Reg /\ idex.instr.rs1 \in Reg
           /\ idex.instr.rs2 \in Reg /\ idex.instr.imm \in Word
           /\ ~Idle => idex.instr \in Instr
<1>1. idex.instr \in Decoded
  BY DEF TypeOK, CoreTypeOK, Issue
<1>2. QED
  BY <1>1, DecodedFields DEF TypeOK, CoreTypeOK, Fetch, Issue, Idle, Decoded

\* A NOP or a bubble in EX does nothing.
LEMMA IdleWires ==
    ASSUME Idle
    PROVE  /\ ~Redirect
           /\ ~is_load(idex.instr) /\ ~is_store(idex.instr)
           /\ ~ex_access(cycle).ren /\ ~ex_access(cycle).wen
           /\ idex.instr.rd = X0
<1>1. idex.instr.op \in {"alui", "none"} /\ idex.instr.rd = X0
  BY DEF Idle, NOP, Bubble
<1>2. /\ ~is_load(idex.instr) /\ ~is_store(idex.instr)
      /\ ~is_branch(idex.instr) /\ ~is_jalr(idex.instr)
  BY <1>1 DEF is_load, is_store, is_branch, is_jalr
<1>3. QED
  BY <1>1, <1>2 DEF Redirect, ex_branch_taken, ex_jalr, ex_access

LEMMA IdleWriteBack == ASSUME Idle, Edge PROVE NoWriteBack'
<1>1. exwb' = [result |-> ex_result(cycle), rd |-> idex.instr.rd,
               we |-> reg_write_en(idex.instr)]
  BY PipelineEdge
<1>2. QED
  BY <1>1, IdleWires DEF NoWriteBack

\* The instructions a load or a store is spaced with read nothing of a load
\* and do not jump in ID.
LEMMA Readers ==
    /\ \A r : Reads(NOP, r) => r = X0
    /\ \A i, r : Reads(i, r) => ~is_jump(i)
    /\ ~is_jump(NOP) /\ NOP # Bubble /\ Bubble \notin Instr
<1>1. \A r : Reads(NOP, r) => r = X0
  BY DEF Reads, NOP, use_rs1, use_rs2
<1>2. \A i, r : Reads(i, r) => ~is_jump(i)
  BY DEF Reads, use_rs1, use_rs2, is_jump
<1>3. NOP.op = "alui" /\ Bubble.op = "none"
  BY DEF NOP, Bubble
<1>4. \A i \in Instr : i.op # "none"
  BY DEF Instr, Op
<1>5. QED
  BY <1>1, <1>2, <1>3, <1>4 DEF is_jump

LEMMA FlowWires ==
    ASSUME NEW t, Flow(t), ~load_skip_stale
    PROVE  /\ ~Held
           /\ Waits = LoadUse(idex.instr, ifid.instr)
<1>1. /\ lstate = "L_IDLE" /\ ~slock /\ ~dmem_valid
  BY DEF Flow
<1>2. ~Held
  BY <1>1, Stalls
<1>3. LSL!rd_reg_load_out(is_load(idex.instr), idex.instr.rd)
        = IF is_load(idex.instr) THEN idex.instr.rd ELSE ld.rd
  BY <1>1 DEF LSL!rd_reg_load_out
<1>4. QED
  BY <1>1, <1>2, <1>3, Stalls DEF LoadUse, Reads

LEMMA LoadWaitWires ==
    ASSUME NEW t, LoadWait(t), ~load_skip_stale
    PROVE  /\ Held = ~ready_reg
           /\ Waits = (idex.instr = Bubble)
           /\ ~jump_if
<1>1. /\ Idle /\ ~slock /\ lstate = "L_BUSY" /\ exmem.ren /\ ld.rd = exmem.rd
      /\ BehindLoad
  BY DEF LoadWait, LoadIdle
<1>2. dmem_valid
  BY <1>1 DEF dmem_valid
<1>3. Held = ~ready_reg
  BY <1>1, <1>2, IdleWires, Stalls
<1>4. LSL!rd_reg_load_out(is_load(idex.instr), idex.instr.rd) = exmem.rd
  BY <1>1 DEF LSL!rd_reg_load_out
<1>5. Waits = (exmem.rd # X0 /\ Reads(ifid.instr, exmem.rd))
  BY <1>1, <1>4, Stalls
<1>6. Waits = (idex.instr = Bubble)
  BY <1>1, <1>5, Readers DEF BehindLoad
<1>7. ~jump_if
  BY <1>1, Readers DEF BehindLoad, jump_if
<1>8. QED
  BY <1>3, <1>6, <1>7

LEMMA LoadWritesWires ==
    ASSUME NEW t, LoadWrites(t), ~load_skip_stale
    PROVE  ~Held /\ ~Waits
BY IdleWires, Stalls DEF LoadWrites, LoadIdle

LEMMA StoreWaitWires ==
    ASSUME NEW t, StoreWait(t), ~load_skip_stale
    PROVE  /\ Idle /\ Held = ~ready_reg /\ ~Waits
<1>1. Idle
  BY DEF StoreWait, Idle
<1>2. QED
  BY <1>1, IdleWires, Stalls DEF StoreWait, dmem_valid

-----------------------------------------------------------------------------
(* EX computes what the architecture computes.                             *)

LEMMA FlowOperand ==
    ASSUME NEW t, TypeOK, FileOK, InSequence, Flow(t), ~Idle,
           NEW rs \in Reg, NEW p \in 1 .. 2, raddr_q[p] = rs
    PROVE  Operand(rs, p, cycle) = t.regs[rs]
<1>1. ~LSL!load_lock_out
  BY DEF Flow, LSL!load_lock_out
<1>2. ~buf.we
  BY DEF Flow, InSequence
<1>3. F!Written(regs, alu_wb) = t.regs
  BY <1>2 DEF Flow, F!Arch
<1>4. Forwarded(t)
  BY DEF Flow
<1>5. CASE chain[1].rd # X0 /\ chain[1].rd = rs
  BY <1>1, <1>4, <1>5 DEF Operand, Forwarded
<1>6. CASE ~(chain[1].rd # X0 /\ chain[1].rd = rs)
  <2>1. Operand(rs, p, cycle) = RF!RData(p)
    BY <1>1, <1>6 DEF Operand
  <2>2. RF!RData(p) = regs[rs]
    BY SameFile DEF FileOK, F!ReadsCurrent, F!Port
  <2>3. alu_wb.we /\ alu_wb.waddr # X0 => alu_wb.waddr # rs
    BY <1>4, <1>6 DEF Forwarded, NoWriteBack, alu_wb
  <2>4. regs \in [Reg -> Word]
    BY DEF TypeOK, CoreTypeOK, RF!TypeOK
  <2>5. F!Written(regs, alu_wb)[rs] = regs[rs]
    BY <2>3, <2>4 DEF F!Written
  <2>6. QED
    BY <1>3, <2>1, <2>2, <2>5
<1>7. QED
  BY <1>5, <1>6

\* What EX drives for a word of the program.
LEMMA Execution ==
    ASSUME NEW t, TypeOK, FileOK, InSequence, Flow(t), ~Idle, t.pc = idex.pc
    PROVE  LET i == idex.instr IN
           /\ Op1(cycle) = t.regs[i.rs1] /\ Op2(cycle) = t.regs[i.rs2]
           /\ ex_valid /\ i = At(prog, t.pc)
           /\ ~is_load(i) /\ Writes(i) => ex_result(cycle) = Result(t, i)
           /\ ex_access(cycle) =
                [ren |-> is_load(i), wen |-> is_store(i), rd |-> i.rd,
                 addr |-> Plus(t.regs[i.rs1], i.imm), wdata |-> t.regs[i.rs2]]
           /\ Redirect = (is_jalr(i) \/ Transfers(t, i))
           /\ Redirect => Successor(t, i) = IF ex_jalr THEN pc_jalr(cycle) ELSE pc_branch
           /\ ~Redirect => Successor(t, i) = Next4(idex.pc)
<1> DEFINE i == idex.instr
<1>1. /\ idex.valid /\ i = At(prog, t.pc) /\ ~is_jump(i)
  BY PipeTypes DEF InSequence
<1>2. ex_valid
  BY <1>1 DEF ex_valid, Flow
<1>3. Op1(cycle) = t.regs[i.rs1] /\ Op2(cycle) = t.regs[i.rs2]
  BY PipeTypes, FlowOperand DEF Op1, Op2, Flow, Forwarded
<1> HIDE DEF i
<1>4. ~is_load(i) /\ Writes(i) => ex_result(cycle) = Result(t, i)
  <2> SUFFICES ASSUME ~is_load(i), Writes(i)
               PROVE  ex_result(cycle) = Result(t, i)
    OBVIOUS
  <2>1. i.op \in {"alu", "alui", "jalr", "lui", "auipc"}
    BY <1>1 DEF Writes, reg_write_en, is_load, is_jump
  <2>2. QED
    BY <1>2, <1>3, <2>1 DEF i, ex_result, Result, is_branch
<1>5. ex_access(cycle) =
        [ren |-> is_load(i), wen |-> is_store(i), rd |-> i.rd,
         addr |-> Plus(t.regs[i.rs1], i.imm), wdata |-> t.regs[i.rs2]]
  BY <1>2, <1>3 DEF i, ex_access, is_load, is_store
<1>6. /\ ex_jalr = is_jalr(i)
      /\ ex_branch_taken(cycle) = Transfers(t, i)
  BY <1>2, <1>3 DEF i, ex_jalr, ex_branch_taken, Transfers, is_jalr
<1>7. /\ Redirect = (is_jalr(i) \/ Transfers(t, i))
      /\ ~(is_jalr(i) /\ Transfers(t, i))
  BY <1>6 DEF Redirect, Transfers, is_jalr, is_branch
<1>8. Redirect => Successor(t, i) = IF ex_jalr THEN pc_jalr(cycle) ELSE pc_branch
  BY <1>1, <1>3, <1>6, <1>7 DEF i, Successor, pc_jalr, pc_branch
<1>9. ~Redirect => Successor(t, i) = Next4(idex.pc)
  BY <1>1, <1>7 DEF Successor
<1>10. QED
  BY <1>1, <1>2, <1>3, <1>4, <1>5, <1>7, <1>8, <1>9 DEF i

LEMMA Predecessor == \A a \in Word : \E b \in Word : Next4(b) = a
<1> SUFFICES ASSUME NEW a \in Word PROVE \E b \in Word : Next4(b) = a
  OBVIOUS
<1>1. CASE a = 0
  <2>1. WordSize - 1 \in Word /\ Next4(WordSize - 1) = 0
    BY RV32Assumption DEF Word, Next4, Plus
  <2>2. QED
    BY <1>1, <2>1
<1>2. CASE a # 0
  <2>1. a - 1 \in Word /\ Next4(a - 1) = a
    BY <1>2, RV32Assumption DEF Word, Next4, Plus
  <2>2. QED
    BY <2>1
<1>3. QED
  BY <1>1, <1>2

\* The scheduling rule for the instruction in EX, the one in ID and the word
\* being fetched, and for the one in front of EX.
LEMMA Spacing ==
    ASSUME TypeOK, ProgOK, InSequence, WriterInFront, ~Idle
    PROVE  LET i == idex.instr
               j == ifid.instr IN
           /\ ifid.valid /\ ifid.pc = Next4(idex.pc)
           /\ StoreSpaced(i, j)
           /\ LoadSpaced(i, j, At(prog, pc))
           /\ jump_if => /\ ~is_branch(i) /\ ~is_jalr(i)
                         /\ Writes(i) /\ j.rd # X0 =>
                              /\ i.rd # j.rd
                              /\ NoWriteBack \/ exwb.rd = j.rd
<1> DEFINE i == idex.instr
           j == ifid.instr
<1>1. /\ idex.valid /\ ifid.valid /\ idex.pc \in Word
      /\ i = At(prog, idex.pc) /\ j = At(prog, ifid.pc)
      /\ ifid.pc = Next4(idex.pc) /\ pc = Next4(ifid.pc)
  BY PipeTypes DEF InSequence
<1>2. StoreSpaced(i, j) /\ LoadSpaced(i, j, At(prog, pc))
  BY <1>1, Rules
<1>3. ASSUME NEW b \in Word, Next4(b) = idex.pc
      PROVE  JalSpaced(At(prog, b), i, j)
  BY <1>1, <1>3, Rules
<1>4. ASSUME jump_if
      PROVE  /\ ~is_branch(i) /\ ~is_jalr(i)
             /\ Writes(i) /\ j.rd # X0 => i.rd # j.rd
  <2>1. PICK b \in Word : Next4(b) = idex.pc
    BY <1>1, Predecessor
  <2>2. QED
    BY <1>3, <1>4, <2>1 DEF JalSpaced, jump_if
<1>5. ASSUME jump_if, Writes(i), j.rd # X0, ~NoWriteBack
      PROVE  exwb.rd = j.rd
  <2>1. PICK b \in Word : /\ Next4(b) = idex.pc
                          /\ Writes(At(prog, b)) /\ At(prog, b).rd = exwb.rd
    BY <1>1, <1>5 DEF WriterInFront
  <2>2. QED
    BY <1>3, <1>5, <2>1 DEF JalSpaced, jump_if
<1>6. QED
  BY <1>1, <1>2, <1>4, <1>5

\* The phases are those of one state t: p if EX is busy, s otherwise.
LEMMA Phases ==
    ASSUME NEW p \in State, NEW s \in State, Pipe(p, s)
    PROVE  /\ ~load_skip_stale
           /\ ~Idle => Flow(p) /\ s = After(p, idex.instr) /\ p.pc = idex.pc
           /\ Idle => \/ Flow(s) \/ LoadAsked(s) \/ LoadAnswered(s)
                      \/ LoadWrites(s) \/ StoreWait(s)
<1>1. Back(Pre(p, s))
  BY DEF Pipe
<1>2. CASE ~Idle
  <2>1. ~load_skip_stale /\ Flow(p)
    BY <1>1, <1>2 DEF Back, Pre, LoadAsked, LoadAnswered, LoadWait, LoadWrites,
                      LoadIdle, StoreWait, Idle
  <2>2. s = Exec(p) /\ p.pc = idex.pc
    BY <1>2 DEF Pipe, Position
  <2>3. idex.instr = At(prog, idex.pc)
    BY <1>2 DEF Pipe, InSequence
  <2>4. QED
    BY <1>2, <2>1, <2>2, <2>3 DEF Exec
<1>3. CASE Idle
  BY <1>1, <1>3 DEF Back, Pre
<1>4. QED
  BY <1>2, <1>3

\* The register file's buffer never overflows.
LEMMA PipeSpaced ==
    ASSUME NEW p \in State, NEW s \in State, Pipe(p, s)
    PROVE  BufferNeverOverflows
<1> SUFFICES ASSUME buf.we PROVE (wb.we => wb.waddr = X0) /\ ~jal_link.we
  BY DEF BufferNeverOverflows, RF!Spaced
<1>1. Flow(Pre(p, s))
  BY Phases DEF Pre, LoadAsked, LoadAnswered, LoadWait, LoadWrites, LoadIdle,
                StoreWait
<1>2. ~ifid.valid /\ NoWriteBack /\ ~memwb.is_load
  BY <1>1 DEF Flow
<1>3. QED
  BY <1>2 DEF wb, NoWriteBack, jal_link, jump_if

\* What the stalls and the redirects from EX meet in the pipeline.
LEMMA PipeWires ==
    ASSUME NEW p \in State, NEW s \in State, Pipe(p, s)
    PROVE  /\ Held => Idle
           /\ Waits => ifid.valid /\ ~jump_if
           /\ Redirect => ~jump_if /\ ~Idle
           /\ Redirect => s.pc = IF ex_jalr THEN pc_jalr(cycle) ELSE pc_branch
           /\ ~Redirect => s.pc = IF ifid.valid THEN ifid.pc ELSE pc
<1>1. TypeOK /\ ProgOK /\ FileOK /\ InSequence /\ WriterInFront
  BY DEF Pipe
<1>2. CASE ~Idle
  <2>1. ~load_skip_stale /\ Flow(p) /\ s = After(p, idex.instr) /\ p.pc = idex.pc
    BY <1>2, Phases
  <2>2. ifid.valid /\ ifid.pc = Next4(idex.pc)
    BY <1>1, <1>2, Spacing
  <2>3. ~Held /\ Waits = LoadUse(idex.instr, ifid.instr)
    BY <2>1, FlowWires
  <2>4. Waits => ~jump_if
    BY <2>3, Readers DEF LoadUse, Reads, jump_if
  <2>5. /\ Redirect = (is_jalr(idex.instr) \/ Transfers(p, idex.instr))
        /\ Redirect => s.pc = IF ex_jalr THEN pc_jalr(cycle) ELSE pc_branch
        /\ ~Redirect => s.pc = Next4(idex.pc)
    BY <1>1, <1>2, <2>1, Execution DEF After
  <2>6. Redirect => ~jump_if
    BY <1>1, <1>2, <2>5, Spacing DEF Transfers
  <2>7. QED
    BY <1>2, <2>2, <2>3, <2>4, <2>5, <2>6
<1>3. CASE Idle
  <2>1. ~Redirect /\ ~is_load(idex.instr)
    BY <1>3, IdleWires
  <2>2. s.pc = IF ifid.valid THEN ifid.pc ELSE pc
    BY <1>3 DEF Pipe, Position
  <2>3. Waits => ifid.valid /\ ~jump_if
    BY <1>3, <2>1, Phases, FlowWires, LoadWaitWires, LoadWritesWires,
       StoreWaitWires DEF LoadUse, LoadAsked, LoadAnswered, LoadWait, LoadIdle
  <2>4. QED
    BY <1>3, <2>1, <2>2, <2>3
<1>4. QED
  BY <1>2, <1>3

-----------------------------------------------------------------------------
(* The front of the pipeline in one clock edge: the instruction in ID leaves *)
(* and the architecture executes it, or it stays or is squashed and the      *)
(* architecture waits.                                                       *)

Leaves == ifid.valid /\ ~Redirect /\ (jump_if \/ ~(Held \/ Waits))

\* What the front hands to the back: the state EX starts from in the next
\* cycle is s with the link written.
Issued(s, t) == t.regs = F!Written(s.regs, jal_link) /\ t.mem = s.mem

LEMMA FetchEdge ==
    ASSUME NEW p \in State, NEW s \in State, Pipe(p, s), Edge
    PROVE  /\ prog' = prog /\ Idle' = (idex'.instr \in {NOP, Bubble})
           /\ jump_if => ifid' = FetchBubble
           /\ exwb'.rd = idex.instr.rd /\ exwb'.we = reg_write_en(idex.instr)
           /\ Idle => NoWriteBack'
BY PipelineEdge, IdleWriteBack DEF Edge, Idle

\* A JAL leaves ID for the PC.
LEMMA JumpLeaves ==
    ASSUME NEW p \in State, NEW s \in State, Pipe(p, s), Edge,
           Leaves, jump_if, NEW u \in State, u = Exec(s)
    PROVE  /\ InSequence' /\ WriterInFront' /\ Position(s, u)'
           /\ Pre(s, u)' = u
           /\ u.regs = F!Written(s.regs, jal_link) /\ u.mem = s.mem
<1> DEFINE j == ifid.instr
<1>1. /\ ifid.valid /\ ~Redirect /\ ~Waits /\ is_jump(j) /\ ~ex_jalr
      /\ Held => Idle
      /\ s.pc = ifid.pc /\ j = At(prog, ifid.pc)
  BY PipeWires DEF Leaves, jump_if, Pipe, InSequence, Redirect
<1>2. u = After(s, j)
  BY <1>1 DEF Exec
<1>3. /\ u.pc = Plus(ifid.pc, j.imm)
      /\ u.regs = IF j.rd # X0 THEN [s.regs EXCEPT ![j.rd] = Next4(ifid.pc)]
                  ELSE s.regs
      /\ u.mem = s.mem
  BY <1>1, <1>2 DEF After, Successor, Result, Writes, reg_write_en, is_jump, is_store
<1>4. u.regs = F!Written(s.regs, jal_link)
  BY <1>1, <1>3 DEF F!Written, jal_link, jump_if
<1>5. /\ pc' = u.pc /\ ifid' = FetchBubble
      /\ idex' = IF Held THEN idex ELSE IssueBubble
  BY <1>1, <1>3, PipelineEdge DEF pc_jump_if
<1>6. Idle' /\ ~is_jump(idex'.instr) /\ ifid'.instr = NOP /\ ~ifid'.valid
      /\ (idex'.valid => Held)
  BY <1>1, <1>5 DEF Idle, IssueBubble, FetchBubble, is_jump, Bubble, NOP
<1>7. Held => NoWriteBack'
  BY <1>1, IdleWriteBack
<1>8. InSequence'
  BY <1>5, <1>6, FetchEdge DEF InSequence, Pipe
<1>9. WriterInFront'
  BY <1>6, <1>7 DEF WriterInFront
<1>10. Position(s, u)'
  BY <1>5, <1>6 DEF Position
<1>11. QED
  BY <1>3, <1>4, <1>6, <1>8, <1>9, <1>10 DEF Pre

\* Any other instruction leaves ID for EX.
LEMMA IssueLeaves ==
    ASSUME NEW p \in State, NEW s \in State, Pipe(p, s), Edge,
           Leaves, ~jump_if, NEW u \in State, u = Exec(s)
    PROVE  /\ InSequence' /\ WriterInFront' /\ Position(s, u)'
           /\ Pre(s, u)'.regs = F!Written(s.regs, jal_link)
           /\ Pre(s, u)'.mem = s.mem
<1> DEFINE j == ifid.instr
<1>1. /\ ifid.valid /\ ~Redirect /\ ~Waits /\ ~Held /\ ~is_jump(j)
      /\ s.pc = ifid.pc /\ j = At(prog, ifid.pc) /\ pc = Next4(ifid.pc)
  BY PipeWires DEF Leaves, jump_if, Pipe, InSequence
<1>2. ~ex_jalr /\ ~ex_branch_taken(cycle)
  BY <1>1 DEF Redirect
<1>3. /\ pc' = Next4(pc)
      /\ ifid' = [pc |-> pc, instr |-> At(prog, pc), valid |-> TRUE]
      /\ idex' = ifid
  BY <1>1, <1>2, PipelineEdge
<1>4. /\ InSequence'
  BY <1>1, <1>3, FetchEdge DEF InSequence
<1>5. WriterInFront'
  <2> SUFFICES ASSUME ~NoWriteBack'
               PROVE  \E b \in Word : /\ Next4(b) = ifid.pc
                                      /\ Writes(At(prog, b))
                                      /\ At(prog, b).rd = exwb'.rd
    BY <1>3, FetchEdge DEF WriterInFront
  <2>1. ~Idle /\ Writes(idex.instr) /\ exwb'.rd = idex.instr.rd
    BY FetchEdge DEF NoWriteBack, Writes
  <2>2. /\ idex.instr = At(prog, idex.pc) /\ ifid.pc = Next4(idex.pc)
        /\ idex.pc \in Word
    BY <1>1, <2>1, PipeTypes DEF Pipe, InSequence
  <2>3. QED
    BY <2>1, <2>2
<1>6. u = After(s, j)
  BY <1>1 DEF Exec
<1>7. jal_link.we = FALSE
  BY DEF jal_link
<1>8. CASE Idle'
  <2>1. j = NOP \/ j = Bubble
    BY <1>3, <1>8, FetchEdge
  <2>2. /\ u.pc = Next4(s.pc) /\ u.regs = s.regs /\ u.mem = s.mem
    BY <1>6, <2>1 DEF After, Successor, Writes, reg_write_en, is_jump,
                      is_jalr, is_store, Transfers, is_branch, NOP, Bubble
  <2>3. Position(s, u)' /\ Pre(s, u)' = u
    BY <1>1, <1>3, <1>8, <2>2 DEF Position, Pre
  <2>4. QED
    BY <1>4, <1>5, <1>7, <2>2, <2>3 DEF F!Written
<1>9. CASE ~Idle'
  <2>1. Position(s, u)' /\ Pre(s, u)' = s
    BY <1>1, <1>3, <1>9, FetchEdge DEF Position, Pre, Exec
  <2>2. QED
    BY <1>4, <1>5, <1>7, <2>1 DEF F!Written
<1>10. QED
  BY <1>8, <1>9

\* Nothing leaves.
LEMMA NothingLeaves ==
    ASSUME NEW p \in State, NEW s \in State, Pipe(p, s), Edge, ~Leaves
    PROVE  /\ InSequence' /\ WriterInFront' /\ Position(p, s)'
           /\ Pre(p, s)' = s /\ ~jal_link.we
<1>1. InSequence /\ ~jump_if
  BY PipeWires DEF Leaves, Pipe, jump_if
<1>2. CASE Redirect
  <2>1. /\ pc' = s.pc /\ ifid' = FetchBubble /\ idex' = IssueBubble
    BY <1>1, <1>2, PipelineEdge, PipeWires DEF Redirect
  <2>2. Idle' /\ ~ifid'.valid /\ ifid'.instr = NOP /\ ~idex'.valid /\ ~is_jump(idex'.instr)
    BY <2>1 DEF Idle, FetchBubble, IssueBubble, is_jump, Bubble
  <2>3. QED
    BY <1>1, <2>1, <2>2 DEF InSequence, WriterInFront, Position, Pre, jal_link
<1>3. CASE ~Redirect /\ (Held \/ Waits)
  <2>1. pc' = pc /\ ifid' = ifid /\ idex' = IF Held THEN idex ELSE IssueBubble
    BY <1>1, <1>3, PipelineEdge DEF Redirect
  <2>2. /\ Idle' /\ ~is_jump(idex'.instr)
        /\ idex'.valid => Held /\ idex' = idex
        /\ s.pc = IF ifid.valid THEN ifid.pc ELSE pc
    BY <1>3, <2>1, PipeWires DEF Idle, IssueBubble, is_jump, Bubble, NOP
  <2>3. Held => NoWriteBack'
    BY PipeWires, IdleWriteBack
  <2>4. InSequence'
    BY <1>1, <2>1, <2>2, FetchEdge DEF InSequence
  <2>5. WriterInFront'
    BY <2>2, <2>3 DEF WriterInFront
  <2>6. QED
    BY <1>1, <2>1, <2>2, <2>4, <2>5 DEF Position, Pre, jal_link
<1>4. CASE ~Redirect /\ ~Held /\ ~Waits
  <2>1. ~ifid.valid /\ ifid.instr = NOP /\ Idle /\ s.pc = pc
    BY <1>1, <1>4, PipeWires DEF Leaves, InSequence
  <2>2. /\ pc' = Next4(pc) /\ idex' = ifid
        /\ ifid' = [pc |-> pc, instr |-> At(prog, pc), valid |-> TRUE]
    BY <1>1, <1>4, PipelineEdge DEF Redirect
  <2>3. Idle' /\ ~idex'.valid /\ ~is_jump(idex'.instr)
    BY <2>1, <2>2 DEF Idle, is_jump, NOP
  <2>4. QED
    BY <1>1, <2>1, <2>2, <2>3, FetchEdge
       DEF InSequence, WriterInFront, Position, Pre, jal_link
<1>5. QED
  BY <1>2, <1>3, <1>4

-----------------------------------------------------------------------------
(* The back of the pipeline in one clock edge, phase by phase.             *)

\* What EX/WB takes.
ex_write == [we |-> reg_write_en(idex.instr), waddr |-> idex.instr.rd,
             wdata |-> ex_result(cycle)]

LEMMA ArchEdge ==
    ASSUME NEW p \in State, NEW s \in State, Pipe(p, s), Edge
    PROVE  /\ FileOK'
           /\ F!Arch' = F!Written(F!Written(F!Arch, wb), jal_link)
           /\ alu_wb' = ex_write
           /\ raddr_q'[1] = ifid.instr.rs1 /\ raddr_q'[2] = ifid.instr.rs2
           /\ buf'.we => /\ jump_if /\ wb.we /\ wb.waddr # X0
                         /\ wb.waddr # ifid.instr.rd /\ ifid.instr.rd # X0
<1>1. alu_wb' = ex_write
  BY PipelineEdge DEF alu_wb, ex_write
<1>2. QED
  BY <1>1, PipeSpaced, FileEdge DEF Pipe, jal_link

LEMMA NoWrite ==
    \A r, w : ~w.we \/ w.waddr = X0 => F!Written(r, w) = r
BY DEF F!Written

LEMMA WritesCommute ==
    ASSUME NEW r \in [Reg -> Word], NEW v \in RF!WritePort, NEW w \in RF!WritePort,
           v.we /\ v.waddr # X0 /\ w.we /\ w.waddr # X0 => v.waddr # w.waddr
    PROVE  F!Written(F!Written(r, v), w) = F!Written(F!Written(r, w), v)
BY DEF F!Written, RF!WritePort

\* The locks with no access in EX, on the bus or answered.
LEMMA LockRest ==
    ASSUME Edge, lstate # "L_BUSY", slock => ready_reg,
           ~is_load(idex.instr), ~is_store(idex.instr)
    PROVE  /\ lstate' = "L_IDLE" /\ ~slock' /\ ~load_skip_stale'
           /\ ~Redirect /\ ~Waits /\ ~Held =>
                /\ lstate = "L_RELEASE" =>
                     chain'[1] = [rd |-> ld.rd, data |-> ld.saved]
                /\ lstate # "L_RELEASE" =>
                     chain'[1] = IF reg_write_en(idex.instr)
                                 THEN [rd |-> idex.instr.rd, data |-> ex_result(cycle)]
                                 ELSE chain[1]
<1> DEFINE i == LockInput(cycle)
<1>1. /\ LSL!FSM(i) /\ LSL!StoreLock(i) /\ LSL!ForwardChain(i) /\ LSL!SkipStale(i)
      /\ i.stall = (Waits \/ Held) /\ i.flush = Redirect
      /\ ~i.load_enable /\ ~i.store_enable /\ i.dmem_ready = ready_reg
      /\ i.rd = idex.instr.rd /\ i.result = ex_result(cycle)
      /\ i.reg_write_en = reg_write_en(idex.instr)
  BY LockEdge DEF LSL!Clock
<1> HIDE DEF i
<1>2. lstate' = "L_IDLE"
  BY <1>1 DEF LSL!FSM, LSL!Flushed, LSL!Start, LSL!Idle, LSL!Busy, LSL!Release
<1>3. ~slock'
  BY <1>1 DEF LSL!StoreLock
<1>4. ~load_skip_stale'
  BY <1>1 DEF LSL!SkipStale
<1>5. ASSUME ~Redirect, ~Waits, ~Held, lstate = "L_RELEASE"
      PROVE  chain'[1] = [rd |-> ld.rd, data |-> ld.saved]
  <2>1. ~i.flush /\ ~i.stall
    BY <1>1, <1>5
  <2>2. QED
    BY <1>1, <1>5, <2>1 DEF LSL!ForwardChain, LSL!Push
<1>6. ASSUME ~Redirect, ~Waits, ~Held, lstate # "L_RELEASE"
      PROVE  chain'[1] = IF reg_write_en(idex.instr)
                         THEN [rd |-> idex.instr.rd, data |-> ex_result(cycle)]
                         ELSE chain[1]
  <2>1. ~i.flush /\ ~i.stall
    BY <1>1, <1>6
  <2>2. QED
    BY <1>1, <1>6, <2>1 DEF LSL!ForwardChain, LSL!Push
<1>7. QED
  BY <1>2, <1>3, <1>4, <1>5, <1>6

\* The registers of the architecture behind an instruction that is no load.
LEMMA Computed ==
    ASSUME NEW p \in State, NEW s \in State, Pipe(p, s), Flow(Pre(p, s)),
           ~is_load(idex.instr)
    PROVE  /\ s.regs = F!Written(Pre(p, s).regs, ex_write)
           /\ ~is_store(idex.instr) => s.mem = Pre(p, s).mem
<1>1. CASE Idle
  <2>1. Pre(p, s) = s /\ idex.instr.rd = X0
    BY <1>1, IdleWires DEF Pre
  <2>2. ex_write.waddr = X0
    BY <2>1 DEF ex_write
  <2>3. QED
    BY <2>1, <2>2, NoWrite
<1>2. CASE ~Idle
  <2> DEFINE i == idex.instr
  <2>1. /\ s = After(p, i) /\ Pre(p, s) = p /\ Flow(p) /\ p.pc = idex.pc
        /\ TypeOK /\ FileOK /\ InSequence
    BY <1>2, Phases DEF Pre, Pipe
  <2>2. Writes(i) => ex_result(cycle) = Result(p, i)
    BY <1>2, <2>1, Execution
  <2>3. s.regs = IF Writes(i) THEN [p.regs EXCEPT ![i.rd] = Result(p, i)]
                 ELSE p.regs
    BY <2>1 DEF After
  <2>4. ~is_store(i) => s.mem = p.mem
    BY <2>1 DEF After
  <2>5. QED
    BY <2>1, <2>2, <2>3, <2>4 DEF F!Written, ex_write, Writes
<1>3. QED
  BY <1>1, <1>2

\* Into an EX that is not held comes the instruction in ID or a bubble.
LEMMA IssueEdge ==
    ASSUME NEW p \in State, NEW s \in State, Pipe(p, s), Edge, ~Held, ~Waits
    PROVE  /\ ifid'.valid => ~jump_if /\ idex'.instr # Bubble
           /\ ~Idle' => /\ ~Redirect /\ ~jump_if /\ idex' = ifid /\ ifid.valid
                        /\ ~jal_link.we
<1>1. CASE Redirect \/ jump_if
  <2>1. ifid' = FetchBubble /\ idex' = IssueBubble
    BY <1>1, PipelineEdge
  <2>2. QED
    BY <2>1 DEF FetchBubble, IssueBubble, Idle
<1>2. CASE ~Redirect /\ ~jump_if
  <2>1. idex' = ifid /\ ifid.instr # Bubble
    BY <1>2, PipelineEdge, PipeTypes, Readers DEF Pipe
  <2>2. ~ifid.valid => Idle'
    BY <2>1 DEF Idle, Pipe, InSequence
  <2>3. QED
    BY <1>2, <2>1, <2>2 DEF jal_link
<1>3. QED
  BY <1>1, <1>2

\* A displaced write waits only in front of an EX that writes nothing.
LEMMA BufferEdge ==
    ASSUME NEW p \in State, NEW s \in State, Pipe(p, s), Edge, buf'.we,
           ~memwb.is_load
    PROVE  ~ifid'.valid /\ NoWriteBack'
<1>1. /\ jump_if /\ exwb.we /\ exwb.rd # X0
      /\ exwb.rd # ifid.instr.rd /\ ifid.instr.rd # X0
  BY ArchEdge DEF wb
<1>2. ~ifid'.valid
  BY <1>1, FetchEdge DEF FetchBubble
<1>3. CASE Idle
  BY <1>2, <1>3, FetchEdge
<1>4. CASE ~Idle
  <2>1. ~Writes(idex.instr)
    BY <1>1, <1>4, Spacing DEF Pipe, NoWriteBack
  <2>2. QED
    BY <1>2, <2>1, FetchEdge DEF NoWriteBack, Writes
<1>5. QED
  BY <1>3, <1>4

\* Arithmetic, branches, jumps and idle cycles.
LEMMA FlowRest ==
    ASSUME NEW p \in State, NEW s \in State, Pipe(p, s), Edge,
           Flow(Pre(p, s)), ~is_load(idex.instr), ~is_store(idex.instr),
           NEW t \in State, Issued(s, t)
    PROVE  Flow(t)' /\ ~load_skip_stale'
<1> DEFINE b == Pre(p, s)
           i == idex.instr
<1>1. /\ lstate = "L_IDLE" /\ ~slock /\ ~dmem_valid /\ ~memwb.is_load
      /\ mem = b.mem /\ F!Written(F!Arch, alu_wb) = b.regs
      /\ ifid.valid => i # Bubble
      /\ ~Idle => Forwarded(b)
  BY DEF Flow
<1>2. TypeOK /\ b \in State /\ b.regs \in [Reg -> Word]
  BY DEF Pipe, Pre, State
<1>3. ~Held /\ ~Waits
  BY Phases, FlowWires DEF LoadUse
<1>4. wb = alu_wb
  BY <1>1 DEF wb, alu_wb
<1>5. /\ s.regs = F!Written(b.regs, ex_write) /\ s.mem = b.mem
  BY Computed
<1>6. lstate' = "L_IDLE" /\ ~slock' /\ ~load_skip_stale'
  BY <1>1, LockRest
<1>7. ~dmem_valid' /\ ~memwb'.is_load /\ mem' = t.mem
  <2>1. ~exmem'.ren /\ ~exmem'.wen
    <3>1. exmem' = ex_access(cycle)
      BY <1>3, PipelineEdge
    <3>2. QED
      BY <3>1 DEF ex_access
  <2>2. ~memwb'.is_load /\ mem' = mem
    BY <1>1, <1>3, PipelineEdge, MemoryEdge DEF dmem_valid
  <2>3. QED
    BY <1>1, <1>5, <2>1, <2>2 DEF dmem_valid, Issued
<1>8. F!Written(F!Arch, alu_wb)' = t.regs
  <2>1. jal_link \in RF!WritePort /\ ex_write \in RF!WritePort
    <3>1. CoreTypeOK /\ cycle \in Input
      BY <1>2, CycleType DEF Pipe, TypeOK
    <3>2. ex_result(cycle) \in Word /\ jal_link \in RF!WritePort
      BY <3>1, ExTypes, WriteTypes
    <3>3. QED
      BY <1>2, <3>2, PipeTypes DEF ex_write, RF!WritePort, reg_write_en
  <2>2. ex_write.we /\ ex_write.waddr # X0 /\ jal_link.we
          => ex_write.waddr # jal_link.waddr
    <3>1. ex_write.we /\ ex_write.waddr # X0 => Writes(i) /\ ~Idle
      BY IdleWires DEF ex_write, Writes
    <3>2. QED
      BY <3>1, Spacing DEF Pipe, ex_write, jal_link
  <2>3. F!Arch' = F!Written(b.regs, jal_link) /\ alu_wb' = ex_write
    BY <1>1, <1>4, ArchEdge
  <2>4. F!Written(F!Arch', alu_wb') = F!Written(F!Written(b.regs, ex_write), jal_link)
    BY <1>2, <2>1, <2>2, <2>3, WritesCommute
  <2>5. QED
    BY <1>5, <2>4 DEF Issued
<1>9. (buf.we => ~ifid.valid /\ NoWriteBack)'
  BY <1>1, BufferEdge
<1>10. (ifid.valid => idex.instr # Bubble)'
  BY <1>3, IssueEdge
<1>11. ASSUME ~Idle' PROVE Forwarded(t)'
  <2>1. ~Redirect /\ ~jump_if /\ idex' = ifid /\ ifid.valid /\ ~jal_link.we
    BY <1>3, <1>11, IssueEdge
  <2>2. chain'[1] = IF reg_write_en(i) THEN [rd |-> i.rd, data |-> ex_result(cycle)]
                    ELSE chain[1]
    BY <1>1, <1>3, <2>1, LockRest
  <2>3. t.regs = F!Written(b.regs, ex_write)
    BY <1>5, <2>1, NoWrite DEF Issued
  <2>4. exwb' = [result |-> ex_result(cycle), rd |-> i.rd, we |-> reg_write_en(i)]
    BY PipelineEdge
  <2>5. CASE reg_write_en(i)
    <3>1. i.rd # X0 => t.regs[i.rd] = ex_result(cycle)
      BY <1>2, <2>3, <2>5, PipeTypes DEF F!Written, ex_write
    <3>2. QED
      BY <2>1, <2>2, <2>4, <2>5, <3>1, ArchEdge DEF Forwarded, NoWriteBack
  <2>6. CASE ~reg_write_en(i)
    <3>1. t.regs = b.regs
      BY <2>3, <2>6, NoWrite DEF ex_write
    <3>2. ~Idle
      BY <1>1, <2>1, <2>6 DEF Idle, reg_write_en, NOP
    <3>3. QED
      BY <1>1, <2>1, <2>2, <2>4, <2>6, <3>1, <3>2, ArchEdge
         DEF Forwarded, NoWriteBack
  <2>7. QED
    BY <2>5, <2>6
<1>12. QED
  BY <1>6, <1>7, <1>8, <1>9, <1>10, <1>11 DEF Flow

\* A load goes on the bus.
LEMMA FlowLoad ==
    ASSUME NEW p \in State, NEW s \in State, Pipe(p, s), Edge,
           Flow(Pre(p, s)), is_load(idex.instr),
           NEW t \in State, Issued(s, t)
    PROVE  LoadAsked(t)' /\ ~load_skip_stale'
<1> DEFINE i == idex.instr
           j == ifid.instr
<1>1. ~Idle /\ TypeOK /\ FileOK /\ InSequence /\ WriterInFront /\ ProgOK
  BY IdleWires DEF Pipe
<1>2. /\ Flow(p) /\ s = After(p, i) /\ p.pc = idex.pc /\ ~load_skip_stale
  BY <1>1, Phases
<1>3. /\ lstate = "L_IDLE" /\ ~slock /\ ~dmem_valid /\ ~memwb.is_load
      /\ mem = p.mem /\ F!Written(F!Arch, alu_wb) = p.regs
  BY <1>2 DEF Flow
<1>4. /\ ~Held /\ Waits = LoadUse(i, j)
      /\ ~is_store(i) /\ ~is_branch(i) /\ ~is_jalr(i) /\ reg_write_en(i)
  BY <1>2, FlowWires DEF is_load, is_store, is_branch, is_jalr, reg_write_en
<1>5. /\ ifid.valid /\ (LoadUse(i, j) \/ (j = NOP /\ At(prog, pc) = NOP))
  BY <1>1, Spacing DEF LoadSpaced
<1>6. ~jump_if /\ ~jal_link.we
  BY <1>5, Readers DEF LoadUse, Reads, jump_if, jal_link
<1>7. ~Redirect
  <2>1. ~Transfers(p, i)
    BY <1>4 DEF Transfers
  <2>2. QED
    BY <1>1, <1>2, <1>4, <2>1, Execution
<1>8. ex_access(cycle) = [ren |-> TRUE, wen |-> FALSE, rd |-> i.rd,
                          addr |-> Plus(p.regs[i.rs1], i.imm),
                          wdata |-> p.regs[i.rs2]]
  BY <1>1, <1>2, <1>4, Execution DEF is_load, is_store
<1>9. /\ exmem' = ex_access(cycle) /\ memwb'.is_load = exmem.ren
      /\ exwb'.rd = i.rd
  BY <1>4, PipelineEdge
<1>10. exmem'.ren /\ ~exmem'.wen /\ exmem'.rd = i.rd /\ ~memwb'.is_load
       /\ DM!word_addr(exmem'.addr) = address(p, i)
  BY <1>3, <1>8, <1>9 DEF dmem_valid, address
<1>11. mem' = mem /\ ~ready_reg'
  BY <1>3, MemoryEdge DEF dmem_valid
<1>12. t.regs = s.regs /\ t.mem = p.mem
  BY <1>2, <1>4, <1>6, NoWrite DEF Issued, After
<1>13. s.regs = IF i.rd # X0 THEN [p.regs EXCEPT ![i.rd] = p.mem[address(p, i)]]
                ELSE p.regs
  BY <1>2, <1>4 DEF After, Writes, Result, is_load
<1>14. /\ lstate' = "L_BUSY" /\ first_cycle' = TRUE /\ ~slock'
       /\ ~load_skip_stale' /\ ld'.rd = i.rd
  <2> DEFINE l == LockInput(cycle)
  <2>1. /\ LSL!FSM(l) /\ LSL!StoreLock(l) /\ LSL!Capture(l) /\ LSL!SkipStale(l)
        /\ ~l.flush /\ l.load_enable /\ ~l.store_enable
        /\ ~l.load_success /\ l.rd = i.rd
    BY <1>3, <1>4, <1>7, LockEdge DEF LSL!Clock, dmem_valid
  <2> HIDE DEF l
  <2>2. lstate' = "L_BUSY" /\ first_cycle' = TRUE
    BY <1>3, <2>1 DEF LSL!FSM, LSL!Flushed, LSL!Start, LSL!Idle, LSL!Busy,
                      LSL!Release
  <2>3. ~slock' /\ ~load_skip_stale'
    BY <1>3, <2>1 DEF LSL!StoreLock, LSL!SkipStale
  <2>4. ld' = [ld EXCEPT !.rd = l.rd, !.data = l.result]
    BY <1>3, <2>1 DEF LSL!Capture, LSL!LateReady
  <2>5. ld \in [rd : Reg, data : Word, saved : Word]
    BY <1>1 DEF TypeOK, CoreTypeOK, LSL!TypeOK
  <2>6. QED
    BY <2>1, <2>2, <2>3, <2>4, <2>5
<1>15. Idle' /\ ifid'.valid /\ BehindLoad'
  <2>1. CASE LoadUse(i, j)
    <3>1. idex' = IssueBubble /\ ifid' = ifid
      BY <1>4, <1>6, <1>7, <2>1, PipelineEdge DEF Redirect
    <3>2. QED
      BY <1>5, <1>10, <2>1, <3>1
         DEF LoadUse, Idle, BehindLoad, Reads, IssueBubble
  <2>2. CASE ~LoadUse(i, j)
    <3>1. idex' = ifid /\ ifid' = [pc |-> pc, instr |-> At(prog, pc), valid |-> TRUE]
      BY <1>4, <1>6, <1>7, <2>2, PipelineEdge DEF Redirect
    <3>2. QED
      BY <1>5, <2>2, <3>1 DEF Idle, BehindLoad
  <2>3. QED
    BY <2>1, <2>2
<1>16. ~buf'.we
  BY <1>6, ArchEdge
<1>17. \A r \in Reg : (r = i.rd /\ r # X0) \/ F!Arch'[r] = t.regs[r]
  <2>1. wb = alu_wb
    BY <1>3 DEF wb, alu_wb
  <2>2. F!Arch' = p.regs
    BY <1>3, <1>6, <2>1, ArchEdge, NoWrite
  <2>3. QED
    BY <1>12, <1>13, <2>2 DEF State
<1>18. i.rd # X0 => t.regs[i.rd] = mem'[DM!word_addr(exmem'.addr)]
  BY <1>1, <1>3, <1>10, <1>11, <1>12, <1>13, PipeTypes DEF State
<1>19. LoadIdle(t)'
  BY <1>3, <1>10, <1>11, <1>12, <1>14, <1>15, <1>16 DEF LoadIdle
<1>20. LoadWait(t)'
  BY <1>10, <1>14, <1>15, <1>17, <1>18, <1>19 DEF LoadWait
<1>21. QED
  BY <1>9, <1>10, <1>11, <1>14, <1>20 DEF LoadAsked

\* A store goes on the bus.
LEMMA FlowStore ==
    ASSUME NEW p \in State, NEW s \in State, Pipe(p, s), Edge,
           Flow(Pre(p, s)), is_store(idex.instr),
           NEW t \in State, Issued(s, t)
    PROVE  StoreWait(t)' /\ ~load_skip_stale'
<1> DEFINE i == idex.instr
           j == ifid.instr
<1>1. ~Idle /\ TypeOK /\ FileOK /\ InSequence /\ WriterInFront /\ ProgOK
  BY IdleWires DEF Pipe
<1>2. /\ Flow(p) /\ s = After(p, i) /\ p.pc = idex.pc /\ ~load_skip_stale
  BY <1>1, Phases
<1>3. /\ lstate = "L_IDLE" /\ ~slock /\ ~dmem_valid /\ ~memwb.is_load
      /\ mem = p.mem /\ F!Written(F!Arch, alu_wb) = p.regs
  BY <1>2 DEF Flow
<1>4. /\ ~Held /\ ~Waits /\ ~is_load(i) /\ ~is_branch(i) /\ ~is_jalr(i)
      /\ ~reg_write_en(i)
  BY <1>2, FlowWires DEF is_load, is_store, is_branch, is_jalr, reg_write_en, LoadUse
<1>5. ifid.valid /\ j = NOP
  BY <1>1, Spacing DEF StoreSpaced
<1>6. ~jump_if /\ ~jal_link.we
  BY <1>5, Readers DEF jump_if, jal_link
<1>7. ~Redirect
  <2>1. ~Transfers(p, i)
    BY <1>4 DEF Transfers
  <2>2. QED
    BY <1>1, <1>2, <1>4, <2>1, Execution
<1>8. ex_access(cycle) = [ren |-> FALSE, wen |-> TRUE, rd |-> i.rd,
                          addr |-> Plus(p.regs[i.rs1], i.imm),
                          wdata |-> p.regs[i.rs2]]
  BY <1>1, <1>2, <1>4, Execution DEF is_load, is_store
<1>9. /\ exmem' = ex_access(cycle) /\ memwb'.is_load = exmem.ren
      /\ idex' = ifid /\ exwb'.we = reg_write_en(i)
  BY <1>4, <1>6, <1>7, PipelineEdge DEF Redirect
<1>10. /\ ~exmem'.ren /\ exmem'.wen /\ ~memwb'.is_load
       /\ DM!word_addr(exmem'.addr) = address(p, i)
       /\ exmem'.wdata = p.regs[i.rs2]
  BY <1>3, <1>8, <1>9 DEF dmem_valid, address
<1>11. mem' = mem
  BY <1>3, MemoryEdge DEF dmem_valid
<1>12. /\ t.regs = p.regs
       /\ t.mem = [p.mem EXCEPT ![address(p, i)] = p.regs[i.rs2]]
  BY <1>2, <1>4, <1>6, NoWrite DEF Issued, After, Writes
<1>13. lstate' = "L_IDLE" /\ slock' /\ ~load_skip_stale'
  <2> DEFINE l == LockInput(cycle)
  <2>1. /\ LSL!FSM(l) /\ LSL!StoreLock(l) /\ LSL!SkipStale(l)
        /\ ~l.flush /\ ~l.load_enable /\ l.store_enable
    BY <1>4, <1>7, LockEdge DEF LSL!Clock
  <2> HIDE DEF l
  <2>2. lstate' = "L_IDLE"
    BY <1>3, <2>1 DEF LSL!FSM, LSL!Flushed, LSL!Start, LSL!Idle, LSL!Busy,
                      LSL!Release
  <2>3. slock' /\ ~load_skip_stale'
    BY <1>3, <2>1 DEF LSL!StoreLock, LSL!SkipStale
  <2>4. QED
    BY <2>2, <2>3
<1>14. ~buf'.we
  BY <1>6, ArchEdge
<1>15. F!Arch' = t.regs
  <2>1. wb = alu_wb
    BY <1>3 DEF wb, alu_wb
  <2>2. QED
    BY <1>3, <1>6, <1>12, <2>1, ArchEdge, NoWrite
<1>16. [mem' EXCEPT ![DM!word_addr(exmem'.addr)] = exmem'.wdata] = t.mem
  BY <1>3, <1>10, <1>11, <1>12
<1>17. QED
  BY <1>4, <1>5, <1>9, <1>10, <1>13, <1>14, <1>15, <1>16
     DEF StoreWait, NoWriteBack

\* The load lock in L_BUSY, behind which nothing accesses the memory.
LEMMA LockBusy ==
    ASSUME Edge, Idle, lstate = "L_BUSY", ~slock, exmem.ren, first_cycle,
           ready_reg => ~dmem_ready_d1
    PROVE  /\ ~slock' /\ ~load_skip_stale' /\ dmem_ready_d1' = ready_reg
           /\ ~ready_reg => lstate' = "L_BUSY" /\ first_cycle' /\ ld' = ld
           /\ ready_reg => /\ lstate' = "L_RELEASE"
                           /\ ld' = [ld EXCEPT !.data = mem_data, !.saved = mem_data]
<1> DEFINE l == LockInput(cycle)
<1>1. /\ LSL!FSM(l) /\ LSL!StoreLock(l) /\ LSL!Capture(l) /\ LSL!SkipStale(l)
      /\ dmem_ready_d1' = ready_reg
      /\ ~l.flush /\ ~l.load_enable /\ ~l.store_enable
      /\ l.load_success = (ready_reg /\ exmem.ren) /\ l.rdata = mem_data
      /\ l.dmem_ready = ready_reg
  BY LockEdge, IdleWires DEF LSL!Clock
<1>2. l.load_success <=> ready_reg
  BY <1>1
<1> HIDE DEF l
<1>3. ~LSL!StaleReady(l) /\ ~LSL!LateReady(l)
  BY <1>1, <1>2 DEF LSL!StaleReady, LSL!LateReady
<1>4. LSL!Answered(l) <=> ready_reg
  BY <1>2, <1>3 DEF LSL!Answered
<1>5. ~slock' /\ ~load_skip_stale'
  BY <1>1, <1>3 DEF LSL!StoreLock, LSL!SkipStale
<1>6. /\ lstate' = IF ready_reg THEN "L_RELEASE" ELSE "L_BUSY"
      /\ first_cycle'
  BY <1>1, <1>3, <1>4 DEF LSL!FSM, LSL!Flushed, LSL!Start, LSL!Idle, LSL!Busy,
                          LSL!Release
<1>7. ld' = IF ready_reg THEN [ld EXCEPT !.data = mem_data, !.saved = mem_data]
            ELSE ld
  BY <1>1, <1>2, <1>3 DEF LSL!Capture
<1>8. QED
  BY <1>1, <1>5, <1>6, <1>7

\* The first cycle on the bus.
LEMMA AskedStep ==
    ASSUME NEW p \in State, NEW s \in State, Pipe(p, s), Edge,
           LoadAsked(s), NEW t \in State, Issued(s, t)
    PROVE  LoadAnswered(t)' /\ ~load_skip_stale'
<1>1. /\ Idle /\ ifid.valid /\ ~slock /\ ~buf.we /\ exmem.ren /\ ~exmem.wen
      /\ mem = s.mem /\ BehindLoad /\ lstate = "L_BUSY" /\ first_cycle
      /\ ~memwb.is_load /\ ld.rd = exmem.rd /\ ~ready_reg
      /\ (~NoWriteBack => exwb.rd = exmem.rd)
  BY DEF LoadAsked, LoadWait, LoadIdle
<1>2. /\ \A r \in Reg : (r = exmem.rd /\ r # X0) \/ F!Arch[r] = s.regs[r]
      /\ exmem.rd # X0 => s.regs[exmem.rd] = mem[DM!word_addr(exmem.addr)]
  BY DEF LoadAsked, LoadWait
<1>3. Held /\ ~jump_if /\ ~Redirect /\ ~load_skip_stale
  BY <1>1, Phases, LoadWaitWires, IdleWires DEF LoadAsked
<1>4. /\ idex' = idex /\ ifid' = ifid /\ exmem' = exmem /\ memwb' = memwb
  BY <1>3, PipelineEdge DEF Redirect
<1>5. /\ ready_reg' /\ mem' = mem /\ mem_data' = mem[DM!word_addr(exmem.addr)]
  BY <1>1, MemoryEdge DEF dmem_valid
<1>6. /\ ~slock' /\ ~load_skip_stale' /\ ~dmem_ready_d1'
      /\ lstate' = "L_BUSY" /\ first_cycle' /\ ld' = ld
  BY <1>1, LockBusy
<1>7. t.regs = s.regs /\ t.mem = s.mem /\ ~jal_link.we
  BY <1>3, NoWrite DEF Issued, jal_link
<1>8. ~buf'.we /\ NoWriteBack'
  BY <1>1, <1>3, ArchEdge, FetchEdge
<1>9. \A r \in Reg : (r = exmem.rd /\ r # X0) \/ F!Arch'[r] = t.regs[r]
  <2>1. F!Arch' = F!Written(F!Arch, alu_wb)
    BY <1>1, <1>7, ArchEdge, NoWrite DEF wb, alu_wb
  <2>2. F!Arch = regs /\ regs \in [Reg -> Word]
    BY <1>1 DEF F!Arch, Pipe, TypeOK, CoreTypeOK, RF!TypeOK
  <2>3. alu_wb.we /\ alu_wb.waddr # X0 => alu_wb.waddr = exmem.rd
    BY <1>1 DEF alu_wb, NoWriteBack
  <2>4. \A r \in Reg : (r = exmem.rd /\ r # X0) \/ F!Arch'[r] = F!Arch[r]
    BY <2>1, <2>2, <2>3 DEF F!Written
  <2>5. QED
    BY <1>2, <1>7, <2>4
<1>10. LoadIdle(t)' /\ BehindLoad'
  BY <1>1, <1>4, <1>5, <1>6, <1>7, <1>8 DEF LoadIdle, Idle, BehindLoad
<1>11. QED
  BY <1>1, <1>2, <1>4, <1>5, <1>6, <1>7, <1>8, <1>9, <1>10
     DEF LoadAnswered, LoadWait

\* The memory has answered: the word goes to MEM/WB and to the load lock.
LEMMA AnsweredStep ==
    ASSUME NEW p \in State, NEW s \in State, Pipe(p, s), Edge,
           LoadAnswered(s), NEW t \in State, Issued(s, t)
    PROVE  LoadWrites(t)' /\ ~load_skip_stale'
<1>1. /\ Idle /\ ifid.valid /\ ~slock /\ ~buf.we /\ exmem.ren /\ ~exmem.wen
      /\ mem = s.mem /\ BehindLoad /\ lstate = "L_BUSY" /\ first_cycle
      /\ ~memwb.is_load /\ ld.rd = exmem.rd /\ ready_reg /\ ~dmem_ready_d1
      /\ NoWriteBack /\ mem_data = mem[DM!word_addr(exmem.addr)]
  BY DEF LoadAnswered, LoadWait, LoadIdle
<1>2. /\ \A r \in Reg : (r = exmem.rd /\ r # X0) \/ F!Arch[r] = s.regs[r]
      /\ exmem.rd # X0 => s.regs[exmem.rd] = mem[DM!word_addr(exmem.addr)]
  BY DEF LoadAnswered, LoadWait
<1>3. ~Held /\ ~jump_if /\ ~Redirect /\ Waits = (idex.instr = Bubble)
  BY <1>1, Phases, LoadWaitWires, IdleWires DEF LoadAnswered
<1>4. Idle' /\ ifid'.valid
  <2>1. CASE Waits
    <3>1. idex' = IssueBubble /\ ifid' = ifid
      BY <1>3, <2>1, PipelineEdge DEF Redirect
    <3>2. QED
      BY <1>1, <3>1 DEF Idle, IssueBubble
  <2>2. CASE ~Waits
    <3>1. idex' = ifid /\ ifid' = [pc |-> pc, instr |-> At(prog, pc), valid |-> TRUE]
      BY <1>3, <2>2, PipelineEdge DEF Redirect
    <3>2. QED
      BY <1>1, <1>3, <2>2, <3>1 DEF Idle, BehindLoad
  <2>3. QED
    BY <2>1, <2>2
<1>5. /\ exmem' = ex_access(cycle)
      /\ memwb' = [is_load |-> TRUE, rd |-> exmem.rd, data |-> mem_data]
  BY <1>1, <1>3, PipelineEdge
<1>6. ~dmem_valid' /\ ~exmem'.wen
  BY <1>1, <1>5, IdleWires DEF dmem_valid
<1>7. mem' = mem
  BY <1>1, MemoryEdge
<1>8. /\ ~slock' /\ ~load_skip_stale' /\ lstate' = "L_RELEASE"
      /\ ld' = [ld EXCEPT !.data = mem_data, !.saved = mem_data]
  BY <1>1, LockBusy
<1>9. ld'.rd = exmem.rd /\ ld'.saved = mem_data
  <2>1. ld \in [rd : Reg, data : Word, saved : Word]
    BY DEF Pipe, TypeOK, CoreTypeOK, LSL!TypeOK
  <2>2. QED
    BY <1>1, <1>8, <2>1
<1>10. t.regs = s.regs /\ t.mem = s.mem /\ ~jal_link.we
  BY <1>3, NoWrite DEF Issued, jal_link
<1>11. ~buf'.we /\ NoWriteBack'
  BY <1>1, <1>3, ArchEdge, FetchEdge
<1>12. F!Written(F!Arch, wb)' = t.regs
  <2>1. F!Arch' = F!Arch
    BY <1>1, <1>10, ArchEdge, NoWrite DEF wb, NoWriteBack
  <2>2. F!Arch = regs /\ regs \in [Reg -> Word]
    BY <1>1 DEF F!Arch, Pipe, TypeOK, CoreTypeOK, RF!TypeOK
  <2>3. wb' = [we |-> TRUE, waddr |-> exmem.rd, wdata |-> mem_data]
    BY <1>5 DEF wb
  <2>4. exmem.rd \in Reg /\ t.regs \in [Reg -> Word]
    BY DEF Pipe, TypeOK, CoreTypeOK, Access, State
  <2>5. F!Written(F!Arch', wb') = t.regs
    <3>1. F!Written(F!Arch', wb')
            = IF exmem.rd # X0 THEN [regs EXCEPT ![exmem.rd] = mem_data] ELSE regs
      BY <2>1, <2>2, <2>3 DEF F!Written
    <3>2. CASE exmem.rd # X0
      <4>1. t.regs[exmem.rd] = mem_data
        BY <1>1, <1>2, <1>10, <3>2
      <4>2. \A r \in Reg : r # exmem.rd => t.regs[r] = regs[r]
        BY <1>2, <1>10, <2>2
      <4>3. QED
        BY <2>2, <2>4, <3>1, <3>2, <4>1, <4>2
    <3>3. CASE exmem.rd = X0
      BY <1>2, <1>10, <2>2, <2>4, <3>1, <3>3
    <3>4. QED
      BY <3>2, <3>3
  <2>6. QED
    BY <2>5
<1>13. LoadIdle(t)'
  BY <1>1, <1>4, <1>6, <1>7, <1>8, <1>10, <1>11 DEF LoadIdle
<1>14. QED
  BY <1>5, <1>6, <1>8, <1>9, <1>11, <1>12, <1>13 DEF LoadWrites

\* The load has written its register.
LEMMA WritesStep ==
    ASSUME NEW p \in State, NEW s \in State, Pipe(p, s), Edge,
           LoadWrites(s), NEW t \in State, Issued(s, t)
    PROVE  Flow(t)' /\ ~load_skip_stale'
<1>1. /\ Idle /\ ~slock /\ ~buf.we /\ ~exmem.wen /\ mem = s.mem
      /\ lstate = "L_RELEASE" /\ ~dmem_valid /\ memwb.is_load
      /\ memwb.rd = ld.rd /\ memwb.data = ld.saved
      /\ F!Written(F!Arch, wb) = s.regs
  BY DEF LoadWrites, LoadIdle
<1>2. ~Held /\ ~Waits /\ ~Redirect /\ ~is_load(idex.instr) /\ ~is_store(idex.instr)
  BY <1>1, Phases, LoadWritesWires, IdleWires
<1>3. /\ exmem' = ex_access(cycle) /\ memwb'.is_load = exmem.ren
  BY <1>2, PipelineEdge
<1>4. ~dmem_valid' /\ ~memwb'.is_load /\ mem' = t.mem
  BY <1>1, <1>3, IdleWires, MemoryEdge DEF dmem_valid, Issued
<1>5. /\ lstate' = "L_IDLE" /\ ~slock' /\ ~load_skip_stale'
      /\ chain'[1] = [rd |-> ld.rd, data |-> ld.saved]
  BY <1>1, <1>2, LockRest
<1>6. NoWriteBack'
  BY <1>1, FetchEdge
<1>7. F!Written(F!Arch, alu_wb)' = t.regs
  <2>1. F!Arch' = t.regs
    BY <1>1, ArchEdge DEF Issued
  <2>2. ~alu_wb'.we \/ alu_wb'.waddr = X0
    BY <1>6 DEF alu_wb, NoWriteBack
  <2>3. F!Written(F!Arch', alu_wb') = F!Arch'
    BY <2>2, NoWrite
  <2>4. QED
    BY <2>1, <2>3
<1>8. buf'.we => ~ifid'.valid
  BY ArchEdge, FetchEdge DEF FetchBubble
<1>9. ifid'.valid => idex'.instr # Bubble
  BY <1>2, IssueEdge
<1>10. ASSUME ~Idle' PROVE Forwarded(t)'
  <2>1. idex' = ifid /\ ~jal_link.we
    BY <1>2, <1>10, IssueEdge
  <2>2. t.regs = F!Written(F!Arch, wb)
    BY <1>1, <2>1, NoWrite DEF Issued
  <2>3. /\ F!Arch = regs /\ regs \in [Reg -> Word] /\ ld.rd \in Reg
    BY <1>1 DEF F!Arch, Pipe, TypeOK, CoreTypeOK, RF!TypeOK, LSL!TypeOK
  <2>4. ld.rd # X0 => t.regs[ld.rd] = ld.saved
    BY <1>1, <2>2, <2>3 DEF F!Written, wb
  <2>5. QED
    BY <1>5, <1>6, <2>1, <2>4, ArchEdge DEF Forwarded
<1>11. QED
  BY <1>4, <1>5, <1>6, <1>7, <1>8, <1>9, <1>10 DEF Flow

\* The store waits for its answer.
LEMMA StoreWaits ==
    ASSUME NEW p \in State, NEW s \in State, Pipe(p, s), Edge,
           StoreWait(s), ~ready_reg, NEW t \in State, Issued(s, t)
    PROVE  StoreWait(t)' /\ ~load_skip_stale'
<1>1. /\ lstate = "L_IDLE" /\ slock /\ exmem.wen /\ ~exmem.ren /\ ~memwb.is_load
      /\ idex.instr = NOP /\ ~buf.we /\ NoWriteBack
      /\ F!Arch = s.regs
      /\ [mem EXCEPT ![DM!word_addr(exmem.addr)] = exmem.wdata] = s.mem
  BY DEF StoreWait
<1>2. Held /\ Idle /\ ~Redirect /\ ~is_load(idex.instr) /\ ~is_store(idex.instr)
  BY Phases, StoreWaitWires, IdleWires
<1>3. idex' = idex /\ exmem' = exmem /\ memwb' = memwb
  BY <1>2, PipelineEdge
<1>4. mem' = [mem EXCEPT ![DM!word_addr(exmem.addr)] = exmem.wdata]
  BY <1>1, MemoryEdge
<1>5. [mem' EXCEPT ![DM!word_addr(exmem.addr)] = exmem.wdata] = t.mem
  <2>1. mem \in [DM!MemAddr -> Word]
    BY DEF Pipe, TypeOK, DM!TypeOK
  <2>2. QED
    BY <1>1, <1>4, <2>1 DEF Issued
<1>6. lstate' = "L_IDLE" /\ slock' /\ ~load_skip_stale'
  <2> DEFINE l == LockInput(cycle)
  <2>1. /\ LSL!FSM(l) /\ LSL!StoreLock(l) /\ LSL!SkipStale(l)
        /\ ~l.flush /\ ~l.load_enable /\ ~l.store_enable /\ ~l.dmem_ready
    BY <1>2, LockEdge DEF LSL!Clock
  <2> HIDE DEF l
  <2>2. lstate' = "L_IDLE"
    BY <1>1, <2>1 DEF LSL!FSM, LSL!Flushed, LSL!Start, LSL!Idle, LSL!Busy,
                      LSL!Release
  <2>3. slock' /\ ~load_skip_stale'
    BY <1>1, <2>1 DEF LSL!StoreLock, LSL!SkipStale
  <2>4. QED
    BY <2>2, <2>3
<1>7. ~buf'.we /\ NoWriteBack'
  BY <1>1, <1>2, ArchEdge, FetchEdge DEF wb, NoWriteBack
<1>8. F!Arch' = t.regs
  BY <1>1, ArchEdge, NoWrite DEF wb, NoWriteBack, Issued
<1>9. QED
  BY <1>1, <1>3, <1>5, <1>6, <1>7, <1>8 DEF StoreWait

\* The store is done.
LEMMA StoreDone ==
    ASSUME NEW p \in State, NEW s \in State, Pipe(p, s), Edge,
           StoreWait(s), ready_reg, NEW t \in State, Issued(s, t)
    PROVE  Flow(t)' /\ ~load_skip_stale'
<1>1. /\ lstate = "L_IDLE" /\ slock /\ exmem.wen /\ ~exmem.ren /\ ~memwb.is_load
      /\ idex.instr = NOP /\ ~buf.we /\ NoWriteBack
      /\ F!Arch = s.regs
      /\ [mem EXCEPT ![DM!word_addr(exmem.addr)] = exmem.wdata] = s.mem
  BY DEF StoreWait
<1>2. /\ ~Held /\ ~Waits /\ Idle /\ ~Redirect
      /\ ~is_load(idex.instr) /\ ~is_store(idex.instr)
  BY Phases, StoreWaitWires, IdleWires
<1>3. exmem' = ex_access(cycle) /\ memwb'.is_load = exmem.ren
  BY <1>2, PipelineEdge
<1>4. ~dmem_valid' /\ ~memwb'.is_load /\ mem' = t.mem
  BY <1>1, <1>2, <1>3, IdleWires, MemoryEdge DEF dmem_valid, Issued
<1>5. lstate' = "L_IDLE" /\ ~slock' /\ ~load_skip_stale'
  BY <1>1, <1>2, LockRest
<1>6. ~buf'.we /\ NoWriteBack'
  BY <1>1, <1>2, ArchEdge, FetchEdge DEF wb, NoWriteBack
<1>7. F!Written(F!Arch, alu_wb)' = t.regs
  <2>1. F!Arch' = t.regs
    BY <1>1, ArchEdge, NoWrite DEF wb, NoWriteBack, Issued
  <2>2. ~alu_wb'.we \/ alu_wb'.waddr = X0
    BY <1>6 DEF alu_wb, NoWriteBack
  <2>3. F!Written(F!Arch', alu_wb') = F!Arch'
    BY <2>2, NoWrite
  <2>4. QED
    BY <2>1, <2>3
<1>8. ifid'.valid => idex'.instr # Bubble
  BY <1>2, IssueEdge
<1>9. ASSUME ~Idle' PROVE Forwarded(t)'
  <2>1. idex' = ifid
    BY <1>2, <1>9, IssueEdge
  <2>2. chain'[1].rd = X0
    BY <1>1, <1>2, LockRest DEF NOP, reg_write_en
  <2>3. QED
    BY <1>6, <2>1, <2>2, ArchEdge DEF Forwarded
<1>10. QED
  BY <1>4, <1>5, <1>6, <1>7, <1>8, <1>9 DEF Flow

LEMMA BackEdge ==
    ASSUME NEW p \in State, NEW s \in State, Pipe(p, s), Edge,
           NEW t \in State, Issued(s, t)
    PROVE  Back(t)'
<1>1. CASE Flow(Pre(p, s))
  BY <1>1, FlowRest, FlowLoad, FlowStore DEF Back
<1>2. CASE Idle /\ ~Flow(Pre(p, s))
  <2>1. LoadAsked(s) \/ LoadAnswered(s) \/ LoadWrites(s) \/ StoreWait(s)
    BY <1>2, Phases DEF Pre
  <2>2. QED
    BY <2>1, AskedStep, AnsweredStep, WritesStep, StoreWaits, StoreDone DEF Back
<1>3. CASE ~Idle
  BY <1>1, <1>3, Phases DEF Pre
<1>4. QED
  BY <1>1, <1>2, <1>3

\* So in one clock edge the pipeline follows the architecture by one
\* instruction or by none.
LEMMA PipeStep ==
    ASSUME NEW p \in State, NEW s \in State, Pipe(p, s), Edge
    PROVE  \E q \in State, u \in State : u \in {s, Exec(s)} /\ Pipe(q, u)'
<1>1. TypeOK' /\ ProgOK' /\ FileOK'
  BY EdgeType, ArchEdge DEF Pipe
<1>2. Exec(s) \in State
  BY ExecType DEF Pipe
<1>3. CASE Leaves
  <2>1. PICK u \in State : u = Exec(s)
    BY <1>2
  <2>2. /\ InSequence' /\ WriterInFront' /\ Position(s, u)'
        /\ Issued(s, Pre(s, u)')
    BY <1>3, <2>1, JumpLeaves, IssueLeaves DEF Issued
  <2>3. Pre(s, u)' \in State
    BY DEF Pre
  <2>4. PICK t \in State : t = Pre(s, u)'
    BY <2>3
  <2>5. Back(t)'
    BY <2>2, <2>4, BackEdge
  <2>6. Back(Pre(s, u))'
    BY <2>4, <2>5
  <2>7. QED
    BY <1>1, <2>1, <2>2, <2>6 DEF Pipe
<1>4. CASE ~Leaves
  <2>1. /\ InSequence' /\ WriterInFront' /\ Position(p, s)'
        /\ Pre(p, s)' = s /\ ~jal_link.we
    BY <1>4, NothingLeaves
  <2>2. Issued(s, s)
    BY <2>1, NoWrite DEF Issued
  <2>3. Back(s)'
    BY <2>2, BackEdge
  <2>4. QED
    BY <1>1, <2>1, <2>3 DEF Pipe
<1>5. QED
  BY <1>3, <1>4

\* The memory takes nothing but contents of the architecture's.
LEMMA MemoryStep ==
    ASSUME NEW p \in State, NEW s \in State, Pipe(p, s), Edge
    PROVE  mem' \in {mem, s.mem}
<1>1. CASE exmem.wen
  <2>1. StoreWait(s)
    BY <1>1, Phases DEF Flow, dmem_valid, LoadAsked, LoadAnswered, LoadWait,
                        LoadWrites, LoadIdle
  <2>2. QED
    BY <1>1, <2>1, MemoryEdge DEF StoreWait
<1>2. CASE ~exmem.wen
  BY <1>2, MemoryEdge
<1>3. QED
  BY <1>1, <1>2

-----------------------------------------------------------------------------
(* The architecture is never behind the pipeline: s is a state it has been in. *)

\* h is the architecture's history up to now, the n-th of its states: each the
\* successor of the one before, the memories those of amems, and none after a
\* halt.
Run(h, n) ==
    /\ h[n] = Now
    /\ \A i \in Nat : i < n => h[i + 1] = Exec(h[i])
    /\ \A i \in Nat : i <= n => h[i].mem \in amems
    /\ \A i \in Nat : i <= n /\ A!Halts(At(prog, h[i].pc)) => h[n] = h[i]

LockInv ==
    /\ mem \in amems
    /\ \E h \in [Nat -> State], n \in Nat, k \in Nat, p \in State :
           k <= n /\ Run(h, n) /\ Pipe(p, h[k])

LEMMA RunStep ==
    ASSUME NEW h \in [Nat -> State], NEW n \in Nat, Run(h, n), ProgOK,
           prog' = prog, ISAStep, amems' = amems \cup {amem'}
    PROVE  \E g \in [Nat -> State] :
              /\ Run(g, n + 1)'
              /\ \A i \in Nat : i <= n => g[i] = h[i]
              /\ \A i \in Nat : i <= n => g[i + 1] = Exec(h[i])
<1>1. Now \in State /\ Exec(Now) \in State
  BY ExecType DEF Run
<1>2. Now' = Exec(Now)
  BY <1>1, IsaStep
<1>3. PICK g \in [Nat -> State] :
          g = [i \in Nat |-> IF i = n + 1 THEN Exec(Now) ELSE h[i]]
  BY <1>1
<1>4. /\ g[n + 1] = Exec(Now)
      /\ \A i \in Nat : i <= n => g[i] = h[i]
  BY <1>3
<1>5. \A i \in Nat : i <= n => g[i + 1] = Exec(h[i])
  <2> SUFFICES ASSUME NEW i \in Nat, i <= n PROVE g[i + 1] = Exec(h[i])
    OBVIOUS
  <2>1. CASE i = n
    BY <1>4, <2>1 DEF Run
  <2>2. CASE i < n
    <3>1. i + 1 \in Nat /\ i + 1 <= n
      BY <2>2
    <3>2. g[i + 1] = h[i + 1]
      BY <1>4, <3>1
    <3>3. QED
      BY <2>2, <3>2 DEF Run
  <2>3. QED
    BY <2>1, <2>2
<1>6. \A t : Exec(t)' = Exec(t) /\ At(prog, t.pc)' = At(prog, t.pc)
  BY DEF Exec
<1>7. g[n + 1] = Now'
  BY <1>2, <1>4
<1>8. \A i \in Nat : i < n + 1 => g[i + 1] = Exec(g[i])'
  BY <1>4, <1>5, <1>6
<1>9. \A i \in Nat : i <= n + 1 => g[i].mem \in amems'
  <2> SUFFICES ASSUME NEW i \in Nat, i <= n + 1 PROVE g[i].mem \in amems'
    OBVIOUS
  <2>1. CASE i = n + 1
    BY <1>7, <2>1 DEF Now
  <2>2. CASE i <= n
    BY <1>4, <2>2 DEF Run
  <2>3. QED
    BY <2>1, <2>2
<1>10. \A i \in Nat : i <= n + 1 /\ A!Halts(At(prog, g[i].pc)') => g[n + 1] = g[i]
  <2> SUFFICES ASSUME NEW i \in Nat, i <= n, A!Halts(At(prog, g[i].pc)')
               PROVE  g[n + 1] = g[i]
    OBVIOUS
  <2>1. g[i] = h[i] /\ h[n] = h[i] /\ h[n] = Now
    BY <1>4 DEF Run
  <2>2. Exec(Now) = Now
    BY <1>1, <1>6, <2>1, HaltedStays
  <2>3. QED
    BY <1>4, <2>1, <2>2
<1>11. Run(g, n + 1)'
  BY <1>7, <1>8, <1>9, <1>10 DEF Run
<1>12. QED
  BY <1>3, <1>4, <1>5, <1>11

LEMMA LockInvInit == LockInit => LockInv
<1> SUFFICES ASSUME LockInit PROVE LockInv
  OBVIOUS
<1>1. /\ pc = Zero /\ ifid = FetchBubble /\ idex = IssueBubble
      /\ exmem = NoAccess /\ exwb = NoAluResult /\ memwb = NoLoadResult
      /\ lstate = "L_IDLE" /\ slock = FALSE /\ load_skip_stale = FALSE
      /\ mem = InitMem /\ amem = InitMem /\ amems = {amem}
      /\ apc = Zero /\ prog \in Programs
      /\ aregs = [r \in Reg |-> Zero]
  BY DEF LockInit, SocInit, MemInit, Init, LSL!Init, DM!Init, A!Init, A!Zero, Zero
<1>2. /\ regs = [r \in Reg |-> Zero] /\ buf = RF!NoWrite /\ bypass = RF!NoWrite
      /\ raw = [q \in RF!Port |-> Zero] /\ raddr_q = [q \in RF!Port |-> X0]
  BY DEF LockInit, SocInit, MemInit, Init, RF!Init
<1>3. TypeOK
  BY TypeInit DEF LockInit, SocInit
<1>4. Now \in State
  BY <1>1, CoreMemAssumption, ConstantTypes DEF Now, State
<1>5. FileOK
  BY <1>2, ConstantTypes
     DEF FileOK, F!ZeroKept, F!ReadsCurrent, F!RData, F!Port, RF!Port, RF!NoWrite
<1>6. Idle /\ NoWriteBack /\ ~ifid.valid /\ ~idex.valid /\ ifid.instr = NOP
  BY <1>1 DEF Idle, NoWriteBack, IssueBubble, NoAluResult, FetchBubble
<1>7. InSequence /\ WriterInFront
  BY <1>1, <1>6 DEF InSequence, WriterInFront, IssueBubble, is_jump, Bubble
<1>8. Position(Now, Now) /\ Pre(Now, Now) = Now
  BY <1>1, <1>6 DEF Position, Pre, Now
<1>9. Flow(Now)
  <2>1. ~dmem_valid /\ ~memwb.is_load /\ mem = Now.mem /\ ~buf.we
    BY <1>1, <1>2 DEF dmem_valid, NoAccess, NoLoadResult, Now, RF!NoWrite
  <2>2. F!Written(F!Arch, alu_wb) = Now.regs
    BY <1>1, <1>2, <1>6, <2>1, NoWrite DEF F!Arch, alu_wb, NoWriteBack, Now
  <2>3. QED
    BY <1>1, <1>6, <2>1, <2>2 DEF Flow
<1>10. Pipe(Now, Now)
  BY <1>1, <1>3, <1>5, <1>7, <1>8, <1>9 DEF Pipe, ProgOK, Back
<1> DEFINE h == [i \in Nat |-> Now]
<1>11. h \in [Nat -> State] /\ \A i \in Nat : h[i] = Now
  BY <1>4
<1> HIDE DEF h
<1>12. Run(h, 0)
  BY <1>1, <1>11 DEF Run, Now
<1>13. QED
  BY <1>1, <1>4, <1>10, <1>11, <1>12 DEF LockInv

LEMMA LockEdges ==
    LockNext => Edge /\ ISAStep /\ amems' = amems \cup {amem'} /\ prog' = prog
BY LockstepAssumption DEF LockNext, SocNext, Edge

LEMMA LockInvStep == ASSUME LockInv, LockNext PROVE LockInv'
<1>1. Edge /\ ISAStep /\ amems' = amems \cup {amem'} /\ prog' = prog
  BY LockEdges
<1>2. PICK h \in [Nat -> State], n \in Nat, k \in Nat, p \in State :
          k <= n /\ Run(h, n) /\ Pipe(p, h[k])
  BY DEF LockInv
<1>3. h[k] \in State
  BY <1>2
<1>4. PICK q \in State, u \in State : u \in {h[k], Exec(h[k])} /\ Pipe(q, u)'
  BY <1>1, <1>2, <1>3, PipeStep
<1>5. PICK g \in [Nat -> State] :
          /\ Run(g, n + 1)'
          /\ \A i \in Nat : i <= n => g[i] = h[i]
          /\ \A i \in Nat : i <= n => g[i + 1] = Exec(h[i])
  BY <1>1, <1>2, RunStep DEF Pipe
<1>6. \E m \in Nat : m <= n + 1 /\ g[m] = u
  <2>1. CASE u = h[k]
    BY <1>2, <1>5, <2>1
  <2>2. CASE u = Exec(h[k])
    <3>1. k + 1 \in Nat /\ k + 1 <= n + 1 /\ g[k + 1] = u
      BY <1>2, <1>5, <2>2
    <3>2. QED
      BY <3>1
  <2>3. QED
    BY <1>4, <2>1, <2>2
<1>7. mem' \in amems'
  <2>1. mem' \in {mem, h[k].mem}
    BY <1>1, <1>2, <1>3, MemoryStep
  <2>2. h[k].mem \in amems /\ mem \in amems
    BY <1>2 DEF Run, LockInv
  <2>3. QED
    BY <1>1, <2>1, <2>2
<1>8. PICK m \in Nat : m <= n + 1 /\ g[m] = u
  BY <1>6
<1>9. n + 1 \in Nat /\ Pipe(q, g[m])'
  BY <1>4, <1>8
<1>10. QED
  BY <1>5, <1>7, <1>8, <1>9 DEF LockInv

LEMMA LockInvStutter == ASSUME LockInv, UNCHANGED lockvars PROVE LockInv'
<1>1. /\ UNCHANGED <<pc, ifid, idex, exmem, exwb, memwb>>
      /\ UNCHANGED <<regs, buf, bypass, raw, raddr_q>>
      /\ UNCHANGED <<lstate, first_cycle, dmem_ready_d1, slock, ld, chain,
                     load_skip_stale>>
      /\ UNCHANGED <<mem, mem_data, ready_reg, prog, apc, aregs, amem, amems>>
  BY DEF lockvars, socvars, memcorevars, corevars, pipevars, RF!rfvars,
         LSL!lslvars, DM!memvars, A!isavars
<1>2. PICK h \in [Nat -> State], n \in Nat, k \in Nat, p \in State :
          k <= n /\ Run(h, n) /\ Pipe(p, h[k])
  BY DEF LockInv
<1>3. Run(h, n)'
  BY <1>1, <1>2 DEF Run, Now, Exec
<1>4. PICK s \in State : s = h[k]
  BY <1>2
<1>5. TypeOK'
  BY <1>1, <1>2, TypeStep DEF Pipe, memcorevars, corevars, pipevars, RF!rfvars,
                              LSL!lslvars, DM!memvars
<1>6. /\ (FileOK <=> FileOK') /\ Idle' = Idle /\ NoWriteBack' = NoWriteBack
      /\ F!Arch' = F!Arch /\ alu_wb' = alu_wb /\ wb' = wb
      /\ dmem_valid' = dmem_valid /\ Pre(p, s)' = Pre(p, s)
  BY <1>1 DEF FileOK, F!ZeroKept, F!ReadsCurrent, F!RData, F!Arch, Idle,
              NoWriteBack, alu_wb, wb, dmem_valid, Pre
<1>7. InSequence' /\ WriterInFront' /\ Position(p, s)' /\ ProgOK'
  BY <1>1, <1>2, <1>4, <1>6
     DEF Pipe, InSequence, WriterInFront, Position, ProgOK, Exec
<1>8. \A t : /\ (Flow(t) => Flow(t)') /\ (LoadAsked(t) => LoadAsked(t)')
             /\ (LoadAnswered(t) => LoadAnswered(t)')
             /\ (LoadWrites(t) => LoadWrites(t)') /\ (StoreWait(t) => StoreWait(t)')
  BY <1>1, <1>6 DEF Flow, Forwarded, LoadAsked, LoadAnswered, LoadWait, LoadIdle,
                    BehindLoad, LoadWrites, StoreWait
<1>9. Back(Pre(p, s))'
  BY <1>1, <1>2, <1>4, <1>6, <1>8 DEF Pipe, Back
<1>10. Pipe(p, s)'
  BY <1>2, <1>4, <1>5, <1>6, <1>7, <1>9 DEF Pipe
<1>11. QED
  BY <1>1, <1>2, <1>3, <1>4, <1>10 DEF LockInv

LEMMA LockInvAlways == LockSpec => []LockInv
<1>1. LockInv /\ [LockNext]_lockvars => LockInv'
  BY LockInvStep, LockInvStutter
<1>2. QED
  BY <1>1, LockInvInit, PTL DEF LockSpec

\* In every cycle there is a state of the architecture's run that everything in
\* the pipeline adds up to: the registers with the writes still on their way,
\* the memory with the store on the bus, the PC with what is fetched.
THEOREM PipelineFollows == LockSpec => []LockInv
BY LockInvAlways

\* When the pipeline has drained into the final jump to itself, its PC, its
\* registers and its memory are the architecture's (register_EX.v, register.v
\* and hazard_ctrl.v together lose, double or reorder no write).
THEOREM PipelineComputes == LockSpec => []ArchCorrect
<1>1. LockInv => ArchCorrect
  <2> SUFFICES ASSUME LockInv, Drained
               PROVE  A!Halted /\ ifid.pc = apc /\ regs = aregs /\ mem = amem
    BY DEF ArchCorrect
  <2>1. PICK h \in [Nat -> State], n \in Nat, k \in Nat, p \in State :
            k <= n /\ Run(h, n) /\ Pipe(p, h[k])
    BY DEF LockInv
  <2>2. PICK s \in State : s = h[k]
    BY <2>1
  <2>3. Pipe(p, s) /\ InSequence
    BY <2>1, <2>2 DEF Pipe
  <2>4. /\ ifid.valid /\ A!Halts(ifid.instr) /\ Idle
        /\ ifid.instr = At(prog, ifid.pc)
    BY <2>3 DEF Drained, InSequence
  <2>5. s.pc = ifid.pc
    BY <2>3, <2>4 DEF Pipe, Position
  <2>6. s = Now
    BY <2>1, <2>2, <2>4, <2>5 DEF Run
  <2>7. A!Halted
    BY <2>4, <2>5, <2>6 DEF A!Halted, A!Fetched, At, Now
  <2>8. Flow(s)
    BY <2>3, <2>4, Phases DEF Drained, LoadAsked, LoadAnswered, LoadWait,
                              LoadWrites, StoreWait
  <2>9. F!Written(F!Arch, alu_wb) = s.regs /\ mem = s.mem
    BY <2>8 DEF Flow
  <2>10. F!Written(F!Arch, alu_wb) = regs
    BY NoWrite DEF Drained, F!Arch, alu_wb
  <2>11. QED
    BY <2>5, <2>6, <2>7, <2>9, <2>10 DEF Now
<1>2. QED
  BY <1>1, LockInvAlways, PTL

\* No store of a squashed instruction, with a stale operand or of a wrong
\* address reaches data_mem, not even for one cycle (core_top.v:238).
THEOREM MemoryFollows == LockSpec => []MemoryIsArchitectural
<1>1. LockInv => MemoryIsArchitectural
  BY DEF LockInv, MemoryIsArchitectural
<1>2. QED
  BY <1>1, LockInvAlways, PTL

\* A scheduled program never displaces a write while another one waits in the
\* one-entry buffer (register.v:46-47).
THEOREM BufferHolds == LockSpec => []BufferNeverOverflows
<1>1. LockInv => BufferNeverOverflows
  <2> SUFFICES ASSUME LockInv PROVE BufferNeverOverflows
    OBVIOUS
  <2>1. PICK p \in State, s \in State : Pipe(p, s)
    BY DEF LockInv
  <2>2. QED
    BY <2>1, PipeSpaced
<1>2. QED
  BY <1>1, LockInvAlways, PTL
=============================================================================
