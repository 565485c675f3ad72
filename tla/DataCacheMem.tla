---------------------------- MODULE DataCacheMem ----------------------------
(***************************************************************************)
(* The data cache on data_mem, as in soc_top_bram_dcache.v, driven by the  *)
(* core's EX/MEM register: a request is held until dmem_ready is seen, and *)
(* then any next one, or none, is on the port in the very next cycle.      *)
(***************************************************************************)
EXTENDS DataCache

CONSTANTS InitMem,    \* data_mem at power-up
          InitData    \* its read register at power-up

VARIABLES mem, mem_data, ready_reg
VARIABLES exmem,   \* the request on the data port
          fresh    \* the words of valid lines that were fetched or written

D == INSTANCE DataMem WITH MemSize <- Cardinality(Line) * LineWords

ASSUME DataCacheMemAssumption ==
    /\ IsFiniteSet(Line) /\ Line = 0 .. Cardinality(Line) - 1
    /\ InitMem \in [D!MemAddr -> Word]
    /\ InitData \in Word

dcmemvars == <<dcvars, D!memvars, exmem, fresh>>

NoAccess == [ren |-> FALSE, wen |-> FALSE, addr |-> Origin, wdata |-> NoData]
Load(a) == [NoAccess EXCEPT !.ren = TRUE, !.addr = a]
Store(a, d) == [NoAccess EXCEPT !.wen = TRUE, !.addr = a, !.wdata = d]
Access == {NoAccess} \cup {Load(a) : a \in Address}
             \cup {Store(a, d) : a \in Address, d \in Word}

dmem_valid == exmem.ren \/ exmem.wen

MemInit == Init /\ D!Init /\ exmem = NoAccess /\ fresh = {}

\* The byte address data_mem sees, in words.
flat(a) == a.line * LineWords + a.word

dc_mem == [mem_request EXCEPT !.addr = flat(req_addr_reg)]

\* EX/MEM: held while dmem_valid & ~dmem_ready.
Present == exmem' \in IF dmem_valid /\ ~dmem_ready_reg THEN {exmem} ELSE Access

\* A word becomes fresh when it is fetched or written; a refill replaces the
\* line and with it whatever was fresh in its way.
place(a, way) == <<index(a.line), way, a.word>>

Refresh ==
    fresh' =
        IF pending = "read" /\ D!ready
        THEN {f \in fresh : <<f[1], f[2]>> # <<index(req_addr_reg.line), refill_way>>}
                \cup {place(req_addr_reg, refill_way)}
        ELSE IF pending = "none" /\ pending' = "write" /\ hit_found(exmem.addr)
        THEN fresh \cup {place(exmem.addr, hit_way(exmem.addr))}
        ELSE fresh

MemClock(victim_way) ==
    /\ Clock(exmem, D!data_out, D!ready, victim_way)
    /\ D!Clock(dc_mem)
    /\ Present
    /\ Refresh

MemNext == \E victim_way \in Way : MemClock(victim_way)
MemSpec == MemInit /\ [][MemNext]_dcmemvars

-----------------------------------------------------------------------------
\* A line is never in two ways: a store that hits updates the only copy.
UniqueLine == \A line \in Line : \A v, w \in Hits(line) : v = w

\* Write-through (L1_Cache_DATA.v:5-9): a word that was fetched or written
\* agrees with the memory, but for the store just under way to the memory.
FreshIsMemory ==
    \A f \in fresh :
        LET s == f[1]  way == f[2]  o == f[3]
            a == [line |-> Cache_addr[s][way].line, word |-> o] IN
        /\ Cache_addr[s][way].valid
        /\ Cache_data[s][way][o] = IF pending = "write" /\ req_addr_reg = a
                                   THEN req_wdata_reg ELSE mem[flat(a)]

\* The ready that ends a miss or a store is its own, although data_mem keeps
\* ready up for one cycle after a request: the word read is the memory's, the
\* word written is there.
AnswerIsOwn ==
    pending # "none" /\ D!ready =>
        mem[flat(req_addr_reg)] =
            IF pending = "read" THEN D!data_out ELSE req_wdata_reg

-----------------------------------------------------------------------------
\* L1_Cache_DATA.v:6-8: a read hit is answered at once, from a line that a
\* miss has fetched and that every store has updated: what a load would hit is
\* the memory's word.
HitIsMemory ==
    \A a \in Address :
        pending = "none" /\ hit_found(a) => hit_word(a) = mem[flat(a)]
=============================================================================
