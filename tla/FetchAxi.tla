------------------------------ MODULE FetchAxi ------------------------------
(***************************************************************************)
(* The instruction side of soc_top (src/RTL/core/soc_top.v): the cache on  *)
(* the AXI read master on an AXI memory that holds the program, under any  *)
(* fetch side.                                                             *)
(***************************************************************************)
EXTENDS FetchRom

VARIABLES state, araddr, mem_rdata, mem_ready
VARIABLES cells, rstate, raddr, wstate, waddr

M == INSTANCE AxiImem WITH Data <- Inst, NoData <- Blank
S == INSTANCE AxiSlave WITH Data <- Inst

axivars == <<fetchvars, M!mastervars, S!slavevars>>

\* The read channels of the master; its write channels do not exist.
axi == [arvalid |-> M!arvalid, araddr |-> araddr, rready |-> M!rready,
        awvalid |-> FALSE, awaddr |-> araddr,
        wvalid |-> FALSE, wdata |-> Blank, bready |-> FALSE]

AxiTypeOK == FetchTypeOK /\ M!TypeOK /\ S!TypeOK

AxiInit == FetchInit /\ M!Init /\ S!Init([a \in Address |-> rom_word(a)])

AxiClock(go, victim_way) ==
    /\ Clock(imem_req, imem_addr, mem_rdata, mem_ready, victim_way)
    /\ M!Clock(mem_req, mem_addr, S!arready(go), S!rvalid, S!rdata)
    /\ S!Clock(go, axi)
    /\ imem_addr' \in Address
    /\ imem_req' \in BOOLEAN

AxiNext == \E go \in BOOLEAN, victim_way \in Way : AxiClock(go, victim_way)

AxiSpec == AxiInit /\ [][AxiNext]_axivars

\* The clock runs and the slave does not put its next move off for ever.
SlaveMoves == \E victim_way \in Way : AxiClock(TRUE, victim_way)
FairAxiSpec == AxiSpec /\ WF_axivars(SlaveMoves)

-----------------------------------------------------------------------------
\* The answer of the master is the word at the address it last sent, and
\* there is one only when no read is left in the slave.
AnswerIsAsked == mem_ready => rstate = "idle" /\ mem_rdata = cells[araddr]

\* A refill ends, however slow the slave.
RefillEnds == miss_pending ~> ~miss_pending

-----------------------------------------------------------------------------
\* axi_if_imem_master.v:3-6 with L1_Cache_INST.v:5-6: the master stands in for
\* inst_mem, so a line filled through it holds the memory's words.
LineIsMemory ==
    \A s \in Set, w \in Way, o \in Offset :
        LET t == Cache_addr[s][w] IN
        t.valid => Cache_inst[s][w][o] = cells[[line |-> t.line, word |-> o]]
=============================================================================
