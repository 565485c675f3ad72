---------------------------- MODULE DataAxi_proofs --------------------------
(***************************************************************************)
(* The AXI data master on an AXI memory, for any addresses and data, any   *)
(* sequence of requests and any delays of the slave: one transaction at a  *)
(* time, no answered store is lost, and no channel drops what it offers.   *)
(***************************************************************************)
EXTENDS DataAxi, TLAPS

\* Where the slave is in each state of the master: the two are never more
\* than one handshake apart, and the channel not in use rests.
Together ==
    /\ state \in {"S_IDLE", "S_R_AR"} => rstate = "idle" /\ wstate = "idle"
    /\ state = "S_R_R" =>
        rstate \in {"busy", "valid"} /\ raddr = araddr /\ wstate = "idle"
    /\ state \in {"S_W_AW", "S_W_W", "S_W_B"} => rstate = "idle"
    /\ state = "S_W_AW" => wstate = "idle"
    /\ state = "S_W_W" => wstate = "data" /\ waddr = awaddr
    /\ state = "S_W_B" =>
        wstate \in {"busy", "valid"} /\ waddr = awaddr /\ cells[awaddr] = wdata

PulseIsIdle == dmem_ready => state = "S_IDLE"

\* The store being written is the one on the port, or one the core has seen
\* answered: the master repeats a request that is still up at its ready.
WritesAreStores ==
    state \in {"S_W_AW", "S_W_W", "S_W_B"} =>
        \/ exmem.wen /\ exmem.addr = awaddr /\ exmem.wdata = wdata
        \/ amem[awaddr] = wdata

IInv == TypeOK /\ Together /\ PulseIsIdle /\ WritesAreStores /\ StoresArrive

-----------------------------------------------------------------------------
LEMMA RequestType ==
    ASSUME NEW r \in Request
    PROVE  /\ r.ren \in BOOLEAN /\ r.wen \in BOOLEAN
           /\ r.addr \in Address /\ r.wdata \in Data
           /\ ~(r.ren /\ r.wen)
<1> USE DataAxiAssumption DEF NoAccess
<1>1. CASE r = NoAccess
  BY <1>1
<1>2. CASE \E a \in Address : r = Load(a)
  BY <1>2 DEF Load
<1>3. CASE \E a \in Address, d \in Data : r = Store(a, d)
  BY <1>3 DEF Store
<1> QED
  BY <1>1, <1>2, <1>3 DEF Request

LEMMA NoAccessType == NoAccess \in Request
BY DEF Request

LEMMA InitIInv == Init => IInv
<1> SUFFICES ASSUME Init PROVE IInv
  OBVIOUS
<1>1. TypeOK
  BY NoAccessType, DataAxiAssumption
  DEF Init, M!Init, S!Init, TypeOK, M!TypeOK, S!TypeOK
<1>2. Together /\ PulseIsIdle /\ WritesAreStores /\ StoresArrive
  BY DEF Init, M!Init, S!Init, Together, PulseIsIdle, WritesAreStores, StoresArrive
<1> QED
  BY <1>1, <1>2 DEF IInv

-----------------------------------------------------------------------------
\* The parts of IInv besides the types, after an edge that the master spends
\* in the state named by the lemma's hypothesis.
Parts == Together /\ PulseIsIdle /\ WritesAreStores /\ StoresArrive

\* Between two transactions the slave rests; a request still on the port
\* starts one, also when it is being answered in this very cycle.
LEMMA StartStep ==
    ASSUME IInv, NEW go \in BOOLEAN, NEW next \in Request, Clock(go, next),
           M!Start(exmem)
    PROVE  Parts'
<1> USE DEF IInv, M!Start
<1>0. state = "S_IDLE" /\ rstate = "idle" /\ wstate = "idle"
  BY DEF Together
<1>1. UNCHANGED <<cells, rstate, raddr, wstate, waddr>>
  BY <1>0 DEF Clock, S!Clock, S!Read, S!Write, M!axi, S!rvalid, S!bvalid
<1>2. Together' /\ PulseIsIdle'
  BY <1>0, <1>1 DEF Together, PulseIsIdle
<1>3. exmem \in Request /\ amem \in [Address -> Data]
  BY DEF TypeOK
<1>4. /\ exmem.addr \in Address /\ exmem.wdata \in Data
      /\ ~(exmem.ren /\ exmem.wen)
  BY <1>3, RequestType
<1>5. CASE exmem.wen /\ dmem_ready
  <2>1. /\ state' = "S_W_AW" /\ awaddr' = exmem.addr /\ wdata' = exmem.wdata
        /\ amem' = [amem EXCEPT ![exmem.addr] = exmem.wdata]
    BY <1>4, <1>5 DEF Clock, Commit
  <2>2. WritesAreStores'
    BY <1>3, <1>4, <2>1 DEF WritesAreStores
  <2>3. StoresArrive'
    BY <1>0, <1>1, <1>3, <1>4, <1>5, <2>1 DEF StoresArrive
  <2> QED
    BY <1>2, <2>2, <2>3 DEF Parts
<1>6. CASE ~(exmem.wen /\ dmem_ready)
  <2>1. amem' = amem /\ (exmem.wen => exmem' = exmem)
    BY <1>6 DEF Clock, Commit, Present, dmem_valid
  <2>2. WritesAreStores'
    BY <1>0, <2>1 DEF WritesAreStores
  <2>3. StoresArrive'
    BY <1>0, <1>1, <1>6, <2>1 DEF StoresArrive
  <2> QED
    BY <1>2, <2>2, <2>3 DEF Parts
<1> QED
  BY <1>5, <1>6

\* While the master is busy it answers nothing: EX/MEM keeps its request and
\* the core's memory stays.
LEMMA BusyStep ==
    ASSUME IInv, NEW go \in BOOLEAN, NEW next \in Request, Clock(go, next),
           state # "S_IDLE"
    PROVE  /\ ~dmem_ready /\ amem' = amem
           /\ exmem.wen => exmem' = exmem
BY DEF IInv, PulseIsIdle, TypeOK, M!TypeOK, Clock, Commit, Present, dmem_valid

LEMMA ReadAddressStep ==
    ASSUME IInv, NEW go \in BOOLEAN, NEW next \in Request, Clock(go, next),
           M!Advance("S_R_AR", slave(go).arready, "S_R_R")
    PROVE  Parts'
<1> USE DEF IInv, M!Advance
<1>0. state = "S_R_AR" /\ rstate = "idle" /\ wstate = "idle"
  BY DEF Together
<1>1. UNCHANGED <<cells, wstate, waddr>>
  BY <1>0 DEF Clock, S!Clock, S!Write, M!axi, S!bvalid
<1>2. IF go THEN state' = "S_R_R" /\ rstate' = "busy" /\ raddr' = araddr
            ELSE state' = state /\ rstate' = rstate
  BY <1>0 DEF Clock, S!Clock, S!Read, M!axi, slave, S!arready, S!rvalid
<1>3. Together' /\ PulseIsIdle'
  BY <1>0, <1>1, <1>2 DEF Together, PulseIsIdle
<1>4. WritesAreStores' /\ StoresArrive'
  BY <1>0, <1>1, <1>2, BusyStep DEF WritesAreStores, StoresArrive
<1> QED
  BY <1>3, <1>4 DEF Parts

LEMMA ReadDataStep ==
    ASSUME IInv, NEW go \in BOOLEAN, NEW next \in Request, Clock(go, next),
           M!ReceiveData(slave(go).rvalid, slave(go).rdata)
    PROVE  Parts'
<1> USE DEF IInv, M!ReceiveData
<1>0. /\ state = "S_R_R" /\ rstate \in {"busy", "valid"}
      /\ raddr = araddr /\ wstate = "idle"
  BY DEF Together
<1>1. UNCHANGED <<cells, wstate, waddr>>
  BY <1>0 DEF Clock, S!Clock, S!Write, M!axi, S!bvalid
<1>2. IF rstate = "valid"
      THEN state' = "S_IDLE" /\ rstate' = "idle"
      ELSE /\ state' = state /\ rstate' \in {"busy", "valid"} /\ raddr' = raddr
           /\ ~dmem_ready'
  BY <1>0 DEF Clock, S!Clock, S!Read, M!axi, slave, S!arready, S!rvalid
<1>3. Together' /\ PulseIsIdle'
  BY <1>0, <1>1, <1>2 DEF Together, PulseIsIdle
<1>4. WritesAreStores' /\ StoresArrive'
  BY <1>0, <1>1, <1>2, BusyStep DEF WritesAreStores, StoresArrive
<1> QED
  BY <1>3, <1>4 DEF Parts

LEMMA WriteAddressStep ==
    ASSUME IInv, NEW go \in BOOLEAN, NEW next \in Request, Clock(go, next),
           M!Advance("S_W_AW", slave(go).awready, "S_W_W")
    PROVE  Parts'
<1> USE DEF IInv, M!Advance
<1>0. state = "S_W_AW" /\ rstate = "idle" /\ wstate = "idle"
  BY DEF Together
<1>1. UNCHANGED <<cells, rstate, raddr>>
  BY <1>0 DEF Clock, S!Clock, S!Read, S!Write, M!axi, S!rvalid, S!wready, S!bvalid
<1>2. IF go THEN state' = "S_W_W" /\ wstate' = "data" /\ waddr' = awaddr
            ELSE state' = state /\ wstate' = wstate
  BY <1>0 DEF Clock, S!Clock, S!Write, M!axi, slave, S!awready, S!wready, S!bvalid
<1>3. Together' /\ PulseIsIdle'
  BY <1>0, <1>1, <1>2 DEF Together, PulseIsIdle
<1>4. WritesAreStores' /\ StoresArrive'
  BY <1>0, <1>1, <1>2, BusyStep DEF WritesAreStores, StoresArrive
<1> QED
  BY <1>3, <1>4 DEF Parts

\* The datum arrives: the cell that may differ is the one being written.
LEMMA WriteDataStep ==
    ASSUME IInv, NEW go \in BOOLEAN, NEW next \in Request, Clock(go, next),
           M!Advance("S_W_W", slave(go).wready, "S_W_B")
    PROVE  Parts'
<1> USE DEF IInv, M!Advance
<1>0. /\ state = "S_W_W" /\ rstate = "idle"
      /\ wstate = "data" /\ waddr = awaddr
  BY DEF Together
<1>1. UNCHANGED <<rstate, raddr, waddr>>
  BY <1>0 DEF Clock, S!Clock, S!Read, S!Write, M!axi, S!rvalid, S!awready, S!bvalid
<1>2. IF go THEN /\ state' = "S_W_B" /\ wstate' = "busy"
                 /\ cells' = [cells EXCEPT ![awaddr] = wdata]
            ELSE state' = state /\ wstate' = wstate /\ cells' = cells
  BY <1>0 DEF Clock, S!Clock, S!Write, M!axi, slave, S!awready, S!wready, S!bvalid
<1>3. cells \in [Address -> Data] /\ awaddr \in Address
  BY DEF TypeOK, M!TypeOK, S!TypeOK
<1>4. Together' /\ PulseIsIdle'
  BY <1>0, <1>1, <1>2, <1>3 DEF Together, PulseIsIdle
<1>5. WritesAreStores' /\ StoresArrive'
  BY <1>0, <1>1, <1>2, <1>3, BusyStep DEF WritesAreStores, StoresArrive
<1> QED
  BY <1>4, <1>5 DEF Parts

\* The response: the cell holds the store by then, and so does the core's
\* memory, or it will with the pulse.
LEMMA WriteResponseStep ==
    ASSUME IInv, NEW go \in BOOLEAN, NEW next \in Request, Clock(go, next),
           M!ReceiveResponse(slave(go).bvalid)
    PROVE  Parts'
<1> USE DEF IInv, M!ReceiveResponse
<1>0. /\ state = "S_W_B" /\ rstate = "idle"
      /\ wstate \in {"busy", "valid"} /\ waddr = awaddr
      /\ cells[awaddr] = wdata
  BY DEF Together
<1>1. UNCHANGED <<cells, rstate, raddr, waddr>>
  BY <1>0 DEF Clock, S!Clock, S!Read, S!Write, M!axi, S!rvalid, S!awready, S!wready
<1>2. IF wstate = "valid"
      THEN state' = "S_IDLE" /\ wstate' = "idle" /\ dmem_ready'
      ELSE state' = state /\ wstate' \in {"busy", "valid"} /\ ~dmem_ready'
  BY <1>0 DEF Clock, S!Clock, S!Write, M!axi, slave, S!awready, S!wready, S!bvalid
<1>3. Together' /\ PulseIsIdle'
  BY <1>0, <1>1, <1>2 DEF Together, PulseIsIdle
<1>4. WritesAreStores'
  BY <1>0, <1>1, <1>2, BusyStep DEF WritesAreStores
<1>5. StoresArrive'
  BY <1>0, <1>1, <1>2, BusyStep DEF WritesAreStores, StoresArrive
<1> QED
  BY <1>3, <1>4, <1>5 DEF Parts

LEMMA TypesStep ==
    ASSUME TypeOK, NEW go \in BOOLEAN, NEW next \in Request, Clock(go, next)
    PROVE  TypeOK'
<1> USE DEF TypeOK
<1>1. /\ exmem.addr \in Address /\ exmem.wdata \in Data
      /\ S!rdata \in Data
  BY RequestType DEF M!TypeOK, S!TypeOK, S!rdata
<1>2. M!TypeOK'
  BY <1>1 DEF Clock, M!Clock, M!Start, M!Advance, M!ReceiveData,
             M!ReceiveResponse, M!TypeOK, slave, S!rvalid, S!bvalid
<1>3. S!TypeOK'
  <2>1. rstate' \in {"idle", "busy", "valid"} /\ raddr' \in Address
    BY DEF Clock, S!Clock, S!Read, M!axi, M!TypeOK, S!TypeOK
  <2>2. /\ wstate' \in {"idle", "data", "busy", "valid"} /\ waddr' \in Address
        /\ cells' \in [Address -> Data]
    BY DEF Clock, S!Clock, S!Write, M!axi, M!TypeOK, S!TypeOK
  <2> QED
    BY <2>1, <2>2 DEF S!TypeOK
<1>4. exmem' \in Request /\ amem' \in [Address -> Data]
  BY <1>1 DEF Clock, Present, Commit
<1> QED
  BY <1>2, <1>3, <1>4

LEMMA NextIInv == IInv /\ [Next]_datavars => IInv'
<1> SUFFICES ASSUME IInv, [Next]_datavars PROVE IInv'
  OBVIOUS
<1>1. ASSUME NEW go \in BOOLEAN, NEW next \in Request, Clock(go, next)
      PROVE  IInv'
  <2>1. TypeOK'
    BY <1>1, TypesStep DEF IInv
  <2>2. \/ M!Start(exmem)
        \/ M!Advance("S_R_AR", slave(go).arready, "S_R_R")
        \/ M!ReceiveData(slave(go).rvalid, slave(go).rdata)
        \/ M!Advance("S_W_AW", slave(go).awready, "S_W_W")
        \/ M!Advance("S_W_W", slave(go).wready, "S_W_B")
        \/ M!ReceiveResponse(slave(go).bvalid)
    BY <1>1 DEF Clock, M!Clock
  <2>3. Parts'
    BY <1>1, <2>2, StartStep, ReadAddressStep, ReadDataStep,
       WriteAddressStep, WriteDataStep, WriteResponseStep
  <2> QED
    BY <2>1, <2>3 DEF IInv, Parts
<1>2. CASE UNCHANGED datavars
  BY <1>2 DEF datavars, M!mastervars, S!slavevars, IInv, TypeOK, M!TypeOK,
             S!TypeOK, Together, PulseIsIdle, WritesAreStores, StoresArrive
<1> QED
  BY <1>1, <1>2 DEF Next

LEMMA Inductive == Spec => []IInv
BY InitIInv, NextIInv, PTL DEF Spec

-----------------------------------------------------------------------------
\* The registers of the master, the slave and EX/MEM keep their ranges.
THEOREM TypeCorrect == Spec => []TypeOK
<1>1. IInv => TypeOK
  BY DEF IInv
<1> QED
  BY <1>1, Inductive, PTL

\* A read and a write are never in progress together, and nothing is left in
\* the slave when the core is answered.
THEOREM OneAtATime == Spec => []SingleOutstanding
<1>1. IInv => SingleOutstanding
  BY DEF IInv, TypeOK, M!TypeOK, Together, PulseIsIdle, SingleOutstanding
<1> QED
  BY <1>1, Inductive, PTL

\* No store that was answered is lost or overtaken on its way to the memory.
THEOREM StoresReachMemory == Spec => []StoresArrive
<1>1. IInv => StoresArrive
  BY DEF IInv
<1> QED
  BY <1>1, Inductive, PTL

\* The master keeps the address and the data of a channel, and its state,
\* until the slave has taken them.
THEOREM OffersAreKept == Spec => ChannelsHeld
<1> DEFINE Held ==
      /\ state = "S_R_AR" /\ rstate' = "idle" => UNCHANGED <<state, araddr>>
      /\ state = "S_W_AW" /\ wstate' = "idle" => UNCHANGED <<state, awaddr, wdata>>
      /\ state = "S_W_W" /\ wstate' = "data" => UNCHANGED <<state, wdata>>
<1>1. ASSUME IInv, NEW go \in BOOLEAN, NEW next \in Request, Clock(go, next)
      PROVE  Held
  <2>1. CASE state = "S_R_AR"
    BY <1>1, <2>1 DEF IInv, Together, Clock, M!Clock, M!Start, M!Advance,
       M!ReceiveData, M!ReceiveResponse, S!Clock, S!Read, M!axi, slave, S!arready
  <2>2. CASE state = "S_W_AW"
    BY <1>1, <2>2 DEF IInv, Together, Clock, M!Clock, M!Start, M!Advance,
       M!ReceiveData, M!ReceiveResponse, S!Clock, S!Write, M!axi, slave, S!awready
  <2>3. CASE state = "S_W_W"
    BY <1>1, <2>3 DEF IInv, Together, Clock, M!Clock, M!Start, M!Advance,
       M!ReceiveData, M!ReceiveResponse, S!Clock, S!Write, M!axi, slave, S!wready
  <2> QED
    BY <2>1, <2>2, <2>3
<1>2. IInv /\ [Next]_datavars => [Held]_datavars
  BY <1>1 DEF Next
<1> QED
  BY <1>2, Inductive, PTL DEF Spec, ChannelsHeld
=============================================================================
