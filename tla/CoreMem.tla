------------------------------- MODULE CoreMem ------------------------------
(***************************************************************************)
(* The core on the data BRAM (core_top wired to data_mem as in             *)
(* soc_top_bram.v and soc_top_bram_icache.v) with any instruction stream:  *)
(* in each cycle the instruction side answers with any instruction of      *)
(* Fetchable, or is not ready when FetchReady allows it.  Every program on *)
(* every instruction memory or cache is one of these streams.  The flush,  *)
(* exception and interrupt ports are tied to zero, as in fpga_top_bram.v   *)
(* and in every testbench; the external stall port carries StallValues.    *)
(***************************************************************************)
EXTENDS Core

CONSTANTS Fetchable,    \* instructions the fetch may return
          FetchReady,   \* values of imem_ready: {TRUE} on inst_mem
          StallValues,  \* values of the stall port: {FALSE} when tied off
          MemSize, InitMem, InitData

VARIABLES mem, mem_data, ready_reg

DM == INSTANCE DataMem

ASSUME CoreMemAssumption ==
    /\ Fetchable \subseteq Instr
    /\ FetchReady \subseteq BOOLEAN
    /\ StallValues \subseteq BOOLEAN
    /\ MemSize \in Nat \ {0}
    /\ InitMem \in [DM!MemAddr -> Word]
    /\ InitData \in Word

memcorevars == <<corevars, DM!memvars>>

CoreInput(instr, fetched, stall) ==
    [stall |-> stall, flush |-> FALSE,
     exception |-> FALSE, pc_exception |-> Zero,
     interrupt |-> FALSE, pc_interrupt |-> Zero,
     imem_rdata |-> instr, imem_ready |-> fetched,
     dmem_rdata |-> DM!data_out, dmem_ready |-> DM!ready]

TypeOK == CoreTypeOK /\ DM!TypeOK

MemInit == Init /\ DM!Init

\* One rising clock edge of the core and the data memory.
MemClock(instr, fetched, stall) ==
    /\ Clock(CoreInput(instr, fetched, stall))
    /\ DM!Clock(dmem_request)

MemNext == \E instr \in Fetchable, fetched \in FetchReady,
              stall \in StallValues : MemClock(instr, fetched, stall)

MemSpec == MemInit /\ [][MemNext]_memcorevars


-----------------------------------------------------------------------------
\* The load lock is held for a load: one in EX, one on the data bus, or one
\* whose stale answer was just skipped.  An orphaned L_BUSY would hold every
\* later store in EX for ever (mem_stall_req, register_EX.v:202).
LoadLockOwned ==
    lstate = "L_BUSY" =>
        is_load(idex.instr) \/ exmem.ren \/ load_skip_stale

\* The store lock never outlives its request: while it is held there is a
\* request on the bus or its answer, and only that dmem_ready clears it.
StoreLockOwned == slock => dmem_valid \/ ready_reg

\* The stale-ready skip is one cycle of a load in L_BUSY, and the real answer
\* is there in that very cycle.
SkipIsAnswered ==
    load_skip_stale => lstate = "L_BUSY" /\ ~first_cycle /\ ready_reg

\* A request stays on the data bus, unchanged, until the memory is ready.
BusStable == [][dmem_valid /\ ~ready_reg => UNCHANGED exmem]_memcorevars

-----------------------------------------------------------------------------
\* The stall inputs of the hazard unit when the external stall is off.
Quiet == CoreInput(NOP, TRUE, FALSE)

\* The mutual waits -- a store for the store lock or the load lock, a load's
\* consumer for the load, EX/MEM for the memory -- never close into a deadlock:
\* the whole pipeline moves again and again (hazard_ctrl.v:41-55).
PipelineMoves == []<>~HC!stall_front(Hazard(Quiet))

\* Every load that reaches EX gets its turn in MEM/WB: no flush for an older
\* branch, load-use bubble or store lock loses it on the way.
LoadWritesBack ==
    \A r \in Reg :
        is_load(idex.instr) /\ idex.instr.rd = r
            ~> memwb.is_load /\ memwb.rd = r

-----------------------------------------------------------------------------
\* register.v:46-47: the one-entry buffer of displaced writes never overflows.
\* The code keeps this for scheduled programs (Lockstep), not for every stream.
BufferNeverOverflows == RF!Spaced(wb, jal_link)
=============================================================================
