------------------------------ MODULE AxiSlave ------------------------------
(***************************************************************************)
(* The AXI memory behind a master of this project (SmartConnect and BRAM,  *)
(* or DDR, of the block design): external, known only by its handshakes.   *)
(* Each step takes as long as it likes: go says whether the slave makes    *)
(* its next move in this cycle.  Reads and writes have their own channels. *)
(* m is a record of the master's outputs.                                  *)
(***************************************************************************)
CONSTANTS Address, Data,
          PowerUp   \* an address, for the registers before their first use

VARIABLES cells,           \* the memory
          rstate, raddr,   \* the read in progress
          wstate, waddr    \* the write in progress

slavevars == <<cells, rstate, raddr, wstate, waddr>>

TypeOK ==
    /\ cells \in [Address -> Data]
    /\ rstate \in {"idle", "busy", "valid"}
    /\ raddr \in Address
    /\ wstate \in {"idle", "data", "busy", "valid"}
    /\ waddr \in Address

arready(go) == go /\ rstate = "idle"
rvalid == rstate = "valid"
rdata == cells[raddr]
awready(go) == go /\ wstate = "idle"
wready(go) == go /\ wstate = "data"
bvalid == wstate = "valid"

Init(contents) ==
    /\ cells = contents
    /\ rstate = "idle" /\ raddr = PowerUp
    /\ wstate = "idle" /\ waddr = PowerUp

Read(go, m) ==
    \/ /\ arready(go) /\ m.arvalid
       /\ rstate' = "busy" /\ raddr' = m.araddr
    \/ /\ rstate = "busy" /\ go
       /\ rstate' = "valid" /\ UNCHANGED raddr
    \/ /\ rvalid /\ m.rready
       /\ rstate' = "idle" /\ UNCHANGED raddr
    \/ /\ ~(arready(go) /\ m.arvalid)
       /\ ~(rstate = "busy" /\ go)
       /\ ~(rvalid /\ m.rready)
       /\ UNCHANGED <<rstate, raddr>>

Write(go, m) ==
    \/ /\ awready(go) /\ m.awvalid
       /\ wstate' = "data" /\ waddr' = m.awaddr
       /\ UNCHANGED cells
    \/ /\ wready(go) /\ m.wvalid
       /\ wstate' = "busy" /\ cells' = [cells EXCEPT ![waddr] = m.wdata]
       /\ UNCHANGED waddr
    \/ /\ wstate = "busy" /\ go
       /\ wstate' = "valid" /\ UNCHANGED <<cells, waddr>>
    \/ /\ bvalid /\ m.bready
       /\ wstate' = "idle" /\ UNCHANGED <<cells, waddr>>
    \/ /\ ~(awready(go) /\ m.awvalid)
       /\ ~(wready(go) /\ m.wvalid)
       /\ ~(wstate = "busy" /\ go)
       /\ ~(bvalid /\ m.bready)
       /\ UNCHANGED <<cells, wstate, waddr>>

Clock(go, m) == Read(go, m) /\ Write(go, m)
=============================================================================
