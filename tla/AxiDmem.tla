------------------------------- MODULE AxiDmem ------------------------------
(***************************************************************************)
(* axi_if_dmem_master (src/RTL/module/axi/axi_if_dmem_master.v): turns the *)
(* data port of core_top into single-beat AXI reads and writes, one at a   *)
(* time; a write sends its address, then its data, then waits for B.  The  *)
(* valid and ready outputs are registers set on the edge into their state  *)
(* and cleared on the edge out, so they are read off the state; dmem_ready *)
(* is a one-cycle pulse in the first cycle back in S_IDLE.                 *)
(***************************************************************************)
CONSTANTS Address, Data, NoData, PowerUp

VARIABLES state,
          araddr,           \* m_axi_araddr
          awaddr, wdata,    \* m_axi_awaddr, m_axi_wdata
          dmem_rdata, dmem_ready

mastervars == <<state, araddr, awaddr, wdata, dmem_rdata, dmem_ready>>

TypeOK ==
    /\ state \in {"S_IDLE", "S_R_AR", "S_R_R", "S_W_AW", "S_W_W", "S_W_B"}
    /\ araddr \in Address
    /\ awaddr \in Address
    /\ wdata \in Data
    /\ dmem_rdata \in Data
    /\ dmem_ready \in BOOLEAN

\* The outputs that the slave sees.
axi == [arvalid |-> state = "S_R_AR", araddr |-> araddr,
        rready |-> state = "S_R_R",
        awvalid |-> state = "S_W_AW", awaddr |-> awaddr,
        wvalid |-> state = "S_W_W", wdata |-> wdata,
        bready |-> state = "S_W_B"]

Init ==
    /\ state = "S_IDLE"
    /\ araddr = PowerUp
    /\ awaddr = PowerUp
    /\ wdata = NoData
    /\ dmem_rdata = NoData
    /\ dmem_ready = FALSE

\* A slip: address and data of a write are swapped.
Start_slip(r) ==
    /\ state = "S_IDLE"
    /\ state' = IF r.ren THEN "S_R_AR" ELSE IF r.wen THEN "S_W_AW" ELSE state
    /\ araddr' = IF r.ren THEN r.addr ELSE araddr
    /\ awaddr' = IF ~r.ren /\ r.wen THEN r.wdata ELSE awaddr
    /\ wdata' = IF ~r.ren /\ r.wen THEN r.addr ELSE wdata
    /\ dmem_ready' = FALSE
    /\ UNCHANGED dmem_rdata

\* S_IDLE looks at the request even in the cycle of the ready pulse.
Start(r) ==
    /\ state = "S_IDLE"
    /\ \/ /\ r.ren
          /\ state' = "S_R_AR"
          /\ araddr' = r.addr
          /\ UNCHANGED <<awaddr, wdata>>
       \/ /\ ~r.ren /\ r.wen
          /\ state' = "S_W_AW"
          /\ awaddr' = r.addr
          /\ wdata' = r.wdata
          /\ UNCHANGED araddr
       \/ /\ ~r.ren /\ ~r.wen
          /\ UNCHANGED <<state, araddr, awaddr, wdata>>
    /\ dmem_ready' = FALSE
    /\ UNCHANGED dmem_rdata

\* A slip: the slave's ready is not waited for.
Advance_slip(from, taken, to) ==
    /\ state = from
    /\ state' = to
    /\ dmem_ready' = FALSE
    /\ UNCHANGED <<araddr, awaddr, wdata, dmem_rdata>>

\* A step of the handshake of state from, on to state to.
Advance(from, taken, to) ==
    /\ state = from
    /\ state' = IF taken THEN to ELSE from
    /\ dmem_ready' = FALSE
    /\ UNCHANGED <<araddr, awaddr, wdata, dmem_rdata>>

\* A slip: rvalid is not waited for.
ReceiveData_slip(rvalid, rdata) ==
    /\ state = "S_R_R"
    /\ state' = "S_IDLE"
    /\ dmem_rdata' = rdata
    /\ dmem_ready' = TRUE
    /\ UNCHANGED <<araddr, awaddr, wdata>>

\* The end of a transaction: the ready pulse, with the data of a read.
ReceiveData(rvalid, rdata) ==
    /\ state = "S_R_R"
    /\ IF rvalid THEN state' = "S_IDLE" /\ dmem_rdata' = rdata
                 ELSE UNCHANGED <<state, dmem_rdata>>
    /\ dmem_ready' = rvalid
    /\ UNCHANGED <<araddr, awaddr, wdata>>

ReceiveResponse(bvalid) ==
    /\ state = "S_W_B"
    /\ state' = IF bvalid THEN "S_IDLE" ELSE state
    /\ dmem_ready' = bvalid
    /\ UNCHANGED <<araddr, awaddr, wdata, dmem_rdata>>

\* One rising clock edge: r is the data port's request, s the slave's outputs.
Clock(r, s) ==
    \/ Start(r)
    \/ Advance("S_R_AR", s.arready, "S_R_R")
    \/ ReceiveData(s.rvalid, s.rdata)
    \/ Advance("S_W_AW", s.awready, "S_W_W")
    \/ Advance("S_W_W", s.wready, "S_W_B")
    \/ ReceiveResponse(s.bvalid)
=============================================================================
