---------------------------- MODULE LoadStoreLock ---------------------------
(***************************************************************************)
(* register_EX (src/RTL/module/register_EX.v): the load lock FSM, the      *)
(* store lock, the captured load result and the ALU forwarding chain that  *)
(* sit beside the EX stage.  data_mem answers one cycle late and leaves    *)
(* its ready up for one cycle too long, so the FSM must tell a stale ready *)
(* from the real one.  One action, the rising clock edge.                  *)
(*                                                                         *)
(* mem_busy_out is not modelled: nothing in core_top reads it.             *)
(***************************************************************************)
EXTENDS Naturals

CONSTANTS Reg, Word, X0, Zero

VARIABLES lstate,          \* load lock FSM
          first_cycle,     \* first_cycle_in_busy
          dmem_ready_d1,   \* dmem_ready one cycle ago
          slock,           \* a store owns the data bus
          ld,              \* rd_reg_load, rd_data_reg_load, rd_data_load_saved
          chain,           \* rd_reg/rd_data_reg and rd_reg2/rd_data_reg2
          load_skip_stale

lslvars == <<lstate, first_cycle, dmem_ready_d1, slock, ld, chain,
             load_skip_stale>>

LState == {"L_IDLE", "L_BUSY", "L_RELEASE"}
Forward == [rd : Reg, data : Word]
NoForward == [rd |-> X0, data |-> Zero]
NoLoad == [rd |-> X0, data |-> Zero, saved |-> Zero]

\* The module's inputs in one cycle.
Input == [stall : BOOLEAN, flush : BOOLEAN, load_enable : BOOLEAN,
          store_enable : BOOLEAN, load_success : BOOLEAN,
          dmem_ready : BOOLEAN, rd : Reg, result : Word, rdata : Word,
          reg_write_en : BOOLEAN]

TypeOK ==
    /\ lstate \in LState
    /\ first_cycle \in BOOLEAN
    /\ dmem_ready_d1 \in BOOLEAN
    /\ slock \in BOOLEAN
    /\ ld \in [rd : Reg, data : Word, saved : Word]
    /\ chain \in [1 .. 2 -> Forward]
    /\ load_skip_stale \in BOOLEAN

-----------------------------------------------------------------------------
\* Outputs.
rd_reg_load_out(load_enable, rd) ==
    IF lstate = "L_IDLE" /\ load_enable THEN rd ELSE ld.rd

rd_data_load_out(dmem_ready, rdata) ==
    IF lstate = "L_RELEASE" THEN ld.saved
    ELSE IF lstate = "L_BUSY" /\ dmem_ready /\ ~first_cycle THEN rdata
    ELSE ld.data

load_lock_out == lstate \in {"L_BUSY", "L_RELEASE"}

load_pending_out(load_enable) ==
    lstate = "L_BUSY" \/ (lstate = "L_IDLE" /\ load_enable)

mem_stall_req(store_enable) == (lstate = "L_BUSY" \/ slock) /\ store_enable

-----------------------------------------------------------------------------
\* A slip: every ready of the load's own request is its answer.
StaleReady_slip(i) == FALSE

\* A ready that was already up when the load reached EX/MEM: not its answer.
StaleReady(i) == i.load_success /\ first_cycle /\ dmem_ready_d1

\* A slip, once in the code (CHANGE_REPORT Bug 4): no third way out of L_BUSY.
LateReady_slip(i) == FALSE

\* The real answer after a stale one, the load having left EX/MEM.
LateReady(i) ==
    lstate = "L_BUSY" /\ ~first_cycle /\ i.dmem_ready /\ ~i.load_success

Flushed(i) ==
    i.flush /\ lstate' = "L_IDLE" /\ first_cycle' = FALSE

Start(i) ==
    /\ ~i.flush /\ lstate = "L_IDLE" /\ i.load_enable
    /\ lstate' = "L_BUSY" /\ first_cycle' = TRUE

Idle(i) ==
    /\ ~i.flush /\ lstate = "L_IDLE" /\ ~i.load_enable
    /\ UNCHANGED <<lstate, first_cycle>>

Answered(i) == (i.load_success /\ ~StaleReady(i)) \/ LateReady(i)

Busy(i) ==
    /\ ~i.flush /\ lstate = "L_BUSY"
    /\ lstate' = IF Answered(i) THEN "L_RELEASE" ELSE "L_BUSY"
    /\ first_cycle' = (first_cycle /\ ~StaleReady(i))

Release(i) ==
    /\ ~i.flush /\ lstate = "L_RELEASE"
    /\ lstate' = "L_IDLE" /\ UNCHANGED first_cycle

FSM(i) == Flushed(i) \/ Start(i) \/ Idle(i) \/ Busy(i) \/ Release(i)

\* A slip: no ready releases the lock.
StoreLock_slip(i) ==
    slock' = (~i.flush /\ (slock \/ (lstate # "L_BUSY" /\ i.store_enable)))

StoreLock(i) ==
    slock' = IF i.flush \/ (slock /\ i.dmem_ready) THEN FALSE
             ELSE slock \/ (lstate # "L_BUSY" /\ i.store_enable)

Capture(i) ==
    ld' = IF i.flush THEN NoLoad
          ELSE IF i.load_success \/ LateReady(i)
          THEN [ld EXCEPT !.data = i.rdata, !.saved = i.rdata]
          ELSE IF i.load_enable
          THEN [ld EXCEPT !.rd = i.rd, !.data = i.result]
          ELSE ld

Push(f) == [k \in 1 .. 2 |-> IF k = 1 THEN f ELSE chain[1]]

\* A slip, once in the code (CHANGE_REPORT Bug 2): an instruction that writes
\* no register is pushed too.
ForwardChainUngated_slip(i) ==
    chain' = IF i.flush THEN [k \in 1 .. 2 |-> NoForward]
             ELSE IF i.stall THEN chain
             ELSE IF lstate = "L_RELEASE"
             THEN Push([rd |-> ld.rd, data |-> ld.saved])
             ELSE Push([rd |-> i.rd, data |-> i.result])

ForwardChain(i) ==
    chain' = IF i.flush THEN [k \in 1 .. 2 |-> NoForward]
             ELSE IF i.stall THEN chain
             ELSE IF lstate = "L_RELEASE"
             THEN Push([rd |-> ld.rd, data |-> ld.saved])
             ELSE IF ~i.load_enable /\ i.reg_write_en
             THEN Push([rd |-> i.rd, data |-> i.result])
             ELSE chain

\* A slip: the skip does not ask whether it is the load's first cycle.
SkipStale_slip(i) ==
    load_skip_stale' = (~i.flush /\ lstate = "L_BUSY" /\ i.load_success
                        /\ dmem_ready_d1)

SkipStale(i) ==
    load_skip_stale' = (~i.flush /\ lstate = "L_BUSY" /\ StaleReady(i))

Init ==
    /\ lstate = "L_IDLE"
    /\ first_cycle = FALSE
    /\ dmem_ready_d1 = FALSE
    /\ slock = FALSE
    /\ ld = NoLoad
    /\ chain = [k \in 1 .. 2 |-> NoForward]
    /\ load_skip_stale = FALSE

\* One rising clock edge: every always block of register_EX reads the old
\* values and all of them update at once.
Clock(i) ==
    /\ FSM(i)
    /\ StoreLock(i)
    /\ Capture(i)
    /\ ForwardChain(i)
    /\ SkipStale(i)
    /\ dmem_ready_d1' = i.dmem_ready
=============================================================================
