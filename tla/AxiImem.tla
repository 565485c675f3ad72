------------------------------- MODULE AxiImem ------------------------------
(***************************************************************************)
(* axi_if_imem_master (src/RTL/module/axi/axi_if_imem_master.v): turns the *)
(* cache's req/addr/rdata/ready port into single-beat AXI reads, one at a  *)
(* time.  arvalid and rready are registers set on the edge into S_AR and   *)
(* S_R and cleared on the edge out, so they are read off the state; ready  *)
(* is a one-cycle pulse in the first cycle back in S_IDLE.                 *)
(***************************************************************************)
CONSTANTS Address, Data, NoData, PowerUp

VARIABLES state, araddr, mem_rdata, mem_ready

mastervars == <<state, araddr, mem_rdata, mem_ready>>

TypeOK ==
    /\ state \in {"S_IDLE", "S_AR", "S_R"}
    /\ araddr \in Address
    /\ mem_rdata \in Data
    /\ mem_ready \in BOOLEAN

arvalid == state = "S_AR"
rready == state = "S_R"

Init ==
    /\ state = "S_IDLE"
    /\ araddr = PowerUp
    /\ mem_rdata = NoData
    /\ mem_ready = FALSE

\* S_IDLE looks at mem_req even in the cycle of the ready pulse.
Idle(mem_req, mem_addr) ==
    /\ state = "S_IDLE"
    /\ IF mem_req THEN state' = "S_AR" /\ araddr' = mem_addr
                  ELSE UNCHANGED <<state, araddr>>
    /\ mem_ready' = FALSE
    /\ UNCHANGED mem_rdata

\* A slip: arready is not waited for.
SendAddress_slip(arready) ==
    /\ state = "S_AR"
    /\ state' = "S_R"
    /\ mem_ready' = FALSE
    /\ UNCHANGED <<araddr, mem_rdata>>

SendAddress(arready) ==
    /\ state = "S_AR"
    /\ state' = IF arready THEN "S_R" ELSE state
    /\ mem_ready' = FALSE
    /\ UNCHANGED <<araddr, mem_rdata>>

\* A slip: rvalid is not waited for.
ReceiveData_slip(rvalid, rdata) ==
    /\ state = "S_R"
    /\ mem_ready' = TRUE
    /\ state' = "S_IDLE"
    /\ mem_rdata' = rdata
    /\ UNCHANGED araddr

ReceiveData(rvalid, rdata) ==
    /\ state = "S_R"
    /\ mem_ready' = rvalid
    /\ IF rvalid THEN state' = "S_IDLE" /\ mem_rdata' = rdata
                 ELSE UNCHANGED <<state, mem_rdata>>
    /\ UNCHANGED araddr

Clock(mem_req, mem_addr, arready, rvalid, rdata) ==
    \/ Idle(mem_req, mem_addr)
    \/ SendAddress(arready)
    \/ ReceiveData(rvalid, rdata)
=============================================================================
