------------------------------- MODULE DataAxi ------------------------------
(***************************************************************************)
(* The data side of soc_top (src/RTL/core/soc_top.v): the AXI data master  *)
(* on an AXI memory, driven by the core's EX/MEM register.  EX/MEM keeps a *)
(* request on the port until it sees dmem_ready, then holds any next one,  *)
(* or none (BusStable of CoreMem); it may do so in the very next cycle.    *)
(***************************************************************************)
EXTENDS Naturals

CONSTANTS Address, Data, NoData, PowerUp

ASSUME DataAxiAssumption ==
    /\ NoData \in Data
    /\ PowerUp \in Address

VARIABLES state, araddr, awaddr, wdata, dmem_rdata, dmem_ready
VARIABLES cells, rstate, raddr, wstate, waddr
VARIABLES exmem,   \* the request on the data port
          amem     \* the memory as the core has it: stores at their ready

M == INSTANCE AxiDmem
S == INSTANCE AxiSlave

datavars == <<M!mastervars, S!slavevars, exmem, amem>>

NoAccess == [ren |-> FALSE, wen |-> FALSE, addr |-> PowerUp, wdata |-> NoData]
Load(a) == [NoAccess EXCEPT !.ren = TRUE, !.addr = a]
Store(a, d) == [NoAccess EXCEPT !.wen = TRUE, !.addr = a, !.wdata = d]

Request == {NoAccess} \cup {Load(a) : a \in Address}
              \cup {Store(a, d) : a \in Address, d \in Data}

dmem_valid == exmem.ren \/ exmem.wen

TypeOK ==
    /\ M!TypeOK /\ S!TypeOK
    /\ exmem \in Request
    /\ amem \in [Address -> Data]

Init ==
    /\ M!Init /\ exmem = NoAccess
    /\ \E contents \in [Address -> Data] : S!Init(contents) /\ amem = contents

slave(go) == [arready |-> S!arready(go), rvalid |-> S!rvalid,
              rdata |-> S!rdata, awready |-> S!awready(go),
              wready |-> S!wready(go), bvalid |-> S!bvalid]

\* EX/MEM: held while dmem_valid & ~dmem_ready.
Present(next) == exmem' = IF dmem_valid /\ ~dmem_ready THEN exmem ELSE next

Commit == amem' = IF exmem.wen /\ dmem_ready
                  THEN [amem EXCEPT ![exmem.addr] = exmem.wdata] ELSE amem

Clock(go, next) ==
    /\ M!Clock(exmem, slave(go))
    /\ S!Clock(go, M!axi)
    /\ Present(next)
    /\ Commit

Next == \E go \in BOOLEAN, next \in Request : Clock(go, next)
Spec == Init /\ [][Next]_datavars

\* The clock runs and the slave does not put its next move off for ever.
SlaveMoves == \E next \in Request : Clock(TRUE, next)
FairSpec == Spec /\ WF_datavars(SlaveMoves)

-----------------------------------------------------------------------------
\* AXI: an address or a datum stays, with its VALID, until it is taken.
ChannelsHeld ==
    [][/\ state = "S_R_AR" /\ rstate' = "idle" => UNCHANGED <<state, araddr>>
       /\ state = "S_W_AW" /\ wstate' = "idle" => UNCHANGED <<state, awaddr, wdata>>
       /\ state = "S_W_W" /\ wstate' = "data" => UNCHANGED <<state, wdata>>
      ]_datavars

\* axi_if_dmem_master.v:4: one read or one write at a time, and the ready
\* pulse leaves nothing behind in the slave.
SingleOutstanding ==
    /\ rstate = "idle" \/ wstate = "idle"
    /\ dmem_ready => rstate = "idle" /\ wstate = "idle"

\* Every store the core has seen answered is in the memory, or is the one the
\* master is just writing: none is lost or overtaken, although the master
\* repeats requests and answers them late.
StoresArrive ==
    \A a \in Address :
        \/ cells[a] = amem[a]
        \/ state \in {"S_W_AW", "S_W_W", "S_W_B"} /\ awaddr = a
        \/ dmem_ready /\ exmem.wen /\ exmem.addr = a

\* Every request is answered.
RequestAnswered == dmem_valid ~> dmem_ready
=============================================================================
