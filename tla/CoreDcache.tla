----------------------------- MODULE CoreDcache -----------------------------
(***************************************************************************)
(* The core on the data cache and data_mem, as in soc_top_bram_dcache.v:   *)
(* the streams and the memory of CoreMem, with L1_Cache_DATA in between.   *)
(* The stall, flush, exception and interrupt ports are tied to zero.  An   *)
(* address is split into line and word.                                    *)
(***************************************************************************)
EXTENDS CoreMem

CONSTANTS NumSets, NumWays, LineWords

VARIABLES Cache_addr, Cache_data, dmem_rdata_reg, dmem_ready_reg, pending,
          req_addr_reg, req_wdata_reg, refill_way, completed

DC == INSTANCE DataCache WITH
          Line <- 0 .. WordSize \div LineWords - 1,
          NoData <- Zero, PowerUp <- 0, PowerUpData <- Zero

ASSUME CoreDcacheAssumption ==
    /\ NumSets \in Nat \ {0} /\ NumWays \in Nat \ {0}
    /\ LineWords \in Nat \ {0} /\ WordSize % LineWords = 0

dcachevars == <<memcorevars, DC!dcvars>>

DcacheInput(instr, fetched) ==
    [CoreInput(instr, fetched, FALSE) EXCEPT
        !.dmem_rdata = dmem_rdata_reg, !.dmem_ready = dmem_ready_reg]

split(addr) == [line |-> addr \div LineWords, word |-> addr % LineWords]
cpu_dmem == [dmem_request EXCEPT !.addr = split(exmem.addr)]

flat(a) == a.line * LineWords + a.word
dc_mem == [DC!mem_request EXCEPT !.addr = flat(req_addr_reg)]

DcacheTypeOK == TypeOK /\ DC!TypeOK

DcacheInit == MemInit /\ DC!Init

\* One rising clock edge of the core, the cache and the memory.
DcacheClock(instr, fetched, victim_way) ==
    /\ Clock(DcacheInput(instr, fetched))
    /\ DC!Clock(cpu_dmem, DM!data_out, DM!ready, victim_way)
    /\ DM!Clock(dc_mem)

DcacheNext == \E instr \in Fetchable, fetched \in FetchReady, w \in DC!Way :
    DcacheClock(instr, fetched, w)

DcacheSpec == DcacheInit /\ [][DcacheNext]_dcachevars

-----------------------------------------------------------------------------
DcacheQuiet == DcacheInput(NOP, TRUE)

\* The load lock is held for a load in EX or on the bus or, past its first
\* cycle in L_BUSY, for a read of the cache that will be answered or is: a load
\* that left EX/MEM on a stale ready is still being served.
LoadLockServed ==
    lstate = "L_BUSY" =>
        \/ is_load(idex.instr)
        \/ exmem.ren
        \/ ~first_cycle /\ (pending = "read" \/ dmem_ready_reg)

\* The store lock is held for a request on the bus or one the cache is still
\* busy with: a dmem_ready that clears it is to come.
StoreLockServed == slock => dmem_valid \/ pending # "none" \/ dmem_ready_reg

\* The waits of the locks, the cache and EX/MEM never close into a deadlock,
\* unless a store is held in EX behind an access in EX/MEM: there the one-cycle
\* answer of the access may be lost on the store's own stall
\* (register_EX.v:202, hazard_ctrl.v:52-55).
StoreBehindAccess == dmem_valid /\ is_store(idex.instr)
DcacheMoves ==
    []<>(StoreBehindAccess \/ ~HC!stall_front(Hazard(DcacheQuiet)))

\* Every request is answered: the filter for a request that was just answered
\* never swallows the next one for good.
RequestAnswered == dmem_valid ~> dmem_ready_reg
=============================================================================
