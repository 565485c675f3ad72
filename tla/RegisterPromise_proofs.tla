----------------------- MODULE RegisterPromise_proofs -----------------------
(***************************************************************************)
(* Proofs about RegisterPromise, for any registers and any words: the      *)
(* one-port register file with its buffer and bypass keeps the promise of  *)
(* a two-port one, under the spacing register.v:46-47 asks.                *)
(***************************************************************************)
EXTENDS RegisterPromise, TLAPS

\* The bypass makes every read the array's current content.
ReadsCurrent == \A p \in Port : RData(p) = regs[raddr_q[p]]

\* The inductive invariant.  ReadsCurrent speaks of the array alone, so a
\* clock edge preserves it whatever waits in the buffer; ZeroKept is what lets
\* a buffered write always reach the array.
IInv ==
    /\ TypeOK
    /\ areg \in [Reg -> Word]
    /\ ZeroKept
    /\ ReadsCurrent
    /\ KeepsPromise

\* The effective write and the write that reaches the array are write requests.
LEMMA FinalType ==
    ASSUME TypeOK, NEW wb \in WritePort, NEW link \in WritePort
    PROVE  /\ Effective(wb, link) \in WritePort
           /\ Final(wb, link) \in WritePort
           /\ Final(wb, link).we =>
                /\ Final(wb, link).waddr # X0
                /\ Final(wb, link).waddr \in Reg
                /\ Final(wb, link).wdata \in Word
<1>1. Effective(wb, link) \in WritePort
  BY DEF Effective, TypeOK, WritePort
<1>2. QED
  BY <1>1 DEF Final, WritePort

\* Every clock edge preserves the types of the registers.
LEMMA TypeStep ==
    ASSUME TypeOK, NEW wb \in WritePort, NEW link \in WritePort,
           NEW raddr \in [Port -> Reg], Clock(wb, link, raddr)
    PROVE  TypeOK'
<1> DEFINE w == Final(wb, link)
<1>1. /\ w \in WritePort
      /\ w.we => w.waddr \in Reg /\ w.wdata \in Word
  BY FinalType
<1>2. regs' \in [Reg -> Word]
  <2>1. regs' = IF w.we THEN [regs EXCEPT ![w.waddr] = w.wdata] ELSE regs
    BY DEF Clock
  <2> HIDE DEF w
  <2>2. QED
    BY <1>1, <2>1 DEF TypeOK
<1>3. buf' \in WritePort
  BY RegisterFileAssumption DEF Clock, NoWrite, WritePort
<1>4. bypass' \in WritePort
  BY <1>1 DEF Clock
<1>5. raw' \in [Port -> Word]
  BY DEF Clock, TypeOK
<1>6. raddr_q' \in [Port -> Reg]
  BY DEF Clock
<1>7. QED
  BY <1>2, <1>3, <1>4, <1>5, <1>6 DEF TypeOK

\* Neither the array nor the buffer ever holds a write to x0.
LEMMA ZeroStep ==
    ASSUME TypeOK, ZeroKept, NEW wb \in WritePort, NEW link \in WritePort,
           NEW raddr \in [Port -> Reg], Clock(wb, link, raddr)
    PROVE  ZeroKept'
<1> DEFINE w == Final(wb, link)
<1>1. w.we => w.waddr # X0
  BY FinalType
<1>2. regs'[X0] = Zero
  <2>1. regs' = IF w.we THEN [regs EXCEPT ![w.waddr] = w.wdata] ELSE regs
    BY DEF Clock
  <2> HIDE DEF w
  <2>2. QED
    BY <1>1, <2>1, RegisterFileAssumption DEF TypeOK, ZeroKept
<1>3. buf'.we => buf'.waddr # X0
  BY DEF Clock, Displaced, NoWrite
<1>4. QED
  BY <1>2, <1>3 DEF ZeroKept

\* What a port sampled, patched by the bypass, is what the array holds after
\* the same edge.
LEMMA ReadStep ==
    ASSUME TypeOK, ZeroKept, NEW wb \in WritePort, NEW link \in WritePort,
           NEW raddr \in [Port -> Reg], Clock(wb, link, raddr), ZeroKept'
    PROVE  ReadsCurrent'
<1> DEFINE w == Final(wb, link)
<1>1. /\ regs' = IF w.we THEN [regs EXCEPT ![w.waddr] = w.wdata] ELSE regs
      /\ bypass' = w
      /\ raddr_q' = raddr
      /\ raw' = [p \in Port |-> regs[raddr[p]]]
  BY DEF Clock
<1>2. w.we => w.waddr \in Reg
  BY FinalType
<1> HIDE DEF w
<1> SUFFICES ASSUME NEW p \in Port PROVE RData(p)' = regs'[raddr_q'[p]]
  BY DEF ReadsCurrent
<1>3. raddr[p] \in Reg
  OBVIOUS
<1>4. CASE raddr[p] = X0
  BY <1>1, <1>4 DEF RData, ZeroKept
<1>5. CASE raddr[p] # X0 /\ w.we /\ w.waddr = raddr[p]
  BY <1>1, <1>2, <1>5 DEF RData, TypeOK
<1>6. CASE raddr[p] # X0 /\ ~(w.we /\ w.waddr = raddr[p])
  <2>1. RData(p)' = regs[raddr[p]]
    BY <1>1, <1>6 DEF RData
  <2>2. regs'[raddr[p]] = regs[raddr[p]]
    BY <1>1, <1>2, <1>3, <1>6 DEF TypeOK
  <2>3. QED
    BY <2>1, <2>2, <1>1
<1>7. QED
  BY <1>4, <1>5, <1>6

\* One clock edge of the array and its buffer is what two ports promise.
LEMMA ArchStep ==
    ASSUME TypeOK, ZeroKept, NEW wb \in WritePort, NEW link \in WritePort,
           NEW raddr \in [Port -> Reg], Clock(wb, link, raddr),
           Spaced(wb, link)
    PROVE  Arch' = Written(Written(Arch, wb), link)
<1> DEFINE w == Final(wb, link)
<1>1. /\ regs' = IF w.we THEN [regs EXCEPT ![w.waddr] = w.wdata] ELSE regs
      /\ buf' = IF Displaced(wb, link) THEN wb ELSE NoWrite
  BY DEF Clock
<1>2. CASE buf.we
  <2>1. ~link.we /\ (wb.we => wb.waddr = X0)
    BY <1>2 DEF Spaced
  <2>2. w.we /\ w.waddr = buf.waddr /\ w.wdata = buf.wdata
    BY <1>2, <2>1 DEF Final, Effective, ZeroKept, TypeOK, WritePort
  <2>3. buf' = NoWrite
    BY <1>1, <2>1 DEF Displaced
  <2>4. Arch = Written(Written(Arch, wb), link)
    BY <2>1 DEF Written
  <2>5. regs' = Arch
    BY <1>1, <1>2, <2>2 DEF Arch
  <2>6. QED
    BY <2>3, <2>4, <2>5 DEF Arch, NoWrite
<1>3. CASE ~buf.we /\ link.we
  <2>1. Arch = regs
    BY <1>3 DEF Arch
  <2>2. /\ w.we = (link.waddr # X0)
        /\ w.waddr = link.waddr
        /\ w.wdata = link.wdata
    BY <1>3 DEF Final, Effective, WritePort
  <2>3. regs' = Written(regs, link)
    BY <1>1, <1>3, <2>2 DEF Written
  <2>4. CASE Displaced(wb, link)
    <3>1. wb.we /\ wb.waddr # X0 /\ wb.waddr # link.waddr
      BY <2>4 DEF Displaced
    <3>2. Arch' = [Written(regs, link) EXCEPT ![wb.waddr] = wb.wdata]
      BY <1>1, <2>3, <2>4, <3>1 DEF Arch
    <3>3. QED
      BY <2>1, <3>1, <3>2 DEF Written, TypeOK, WritePort
  <2>5. CASE ~Displaced(wb, link)
    <3>1. Arch' = Written(regs, link)
      BY <1>1, <2>3, <2>5 DEF Arch, NoWrite
    <3>2. ~wb.we \/ wb.waddr = X0 \/ wb.waddr = link.waddr
      BY <1>3, <2>5 DEF Displaced
    <3>3. QED
      BY <1>3, <2>1, <3>1, <3>2 DEF Written, TypeOK, WritePort
  <2>6. QED
    BY <2>4, <2>5
<1>4. CASE ~buf.we /\ ~link.we
  <2>1. Arch = regs
    BY <1>4 DEF Arch
  <2>2. w.we = (wb.we /\ wb.waddr # X0) /\ w.waddr = wb.waddr /\ w.wdata = wb.wdata
    BY <1>4 DEF Final, Effective, WritePort
  <2>3. buf' = NoWrite
    BY <1>1, <1>4 DEF Displaced
  <2>4. regs' = Written(regs, wb)
    BY <1>1, <2>2 DEF Written
  <2>5. Arch' = regs'
    BY <2>3 DEF Arch, NoWrite
  <2>6. QED
    BY <1>4, <2>1, <2>4, <2>5 DEF Written
<1>5. QED
  BY <1>2, <1>3, <1>4 DEF TypeOK, WritePort

\* So it is one step of the promise.
LEMMA PromiseStep ==
    ASSUME TypeOK, ZeroKept, KeepsPromise, areg \in [Reg -> Word],
           NEW wb \in WritePort, NEW link \in WritePort,
           NEW raddr \in [Port -> Reg], Clock(wb, link, raddr),
           Spaced(wb, link), PromisedWrites(wb, link)
    PROVE  KeepsPromise' /\ areg' \in [Reg -> Word]
<1>1. areg' = Written(Written(areg, wb), link)
  BY DEF PromisedWrites
<1>2. areg' \in [Reg -> Word]
  BY <1>1 DEF Written, WritePort
<1>3. QED
  BY <1>1, <1>2, ArchStep DEF KeepsPromise

LEMMA IInvInit == PromiseInit => IInv
<1> SUFFICES ASSUME PromiseInit PROVE IInv
  OBVIOUS
<1> USE RegisterFileAssumption DEF PromiseInit, Init
<1>1. TypeOK
  BY DEF TypeOK, NoWrite, WritePort
<1>2. ZeroKept
  BY DEF ZeroKept, NoWrite
<1>3. ReadsCurrent
  BY DEF ReadsCurrent, RData
<1>4. KeepsPromise
  BY DEF KeepsPromise, Arch, NoWrite
<1>5. QED
  BY <1>1, <1>2, <1>3, <1>4 DEF IInv

LEMMA IInvStep == IInv /\ [Next]_vars => IInv'
<1> SUFFICES ASSUME IInv, [Next]_vars PROVE IInv'
  OBVIOUS
<1>1. CASE Next
  <2>1. PICK wb \in WritePort, link \in WritePort, raddr \in [Port -> Reg] :
            Spaced(wb, link) /\ Clock(wb, link, raddr) /\ PromisedWrites(wb, link)
    BY <1>1 DEF Next
  <2>2. TypeOK'
    BY <2>1, TypeStep DEF IInv
  <2>3. ZeroKept'
    BY <2>1, ZeroStep DEF IInv
  <2>4. ReadsCurrent'
    BY <2>1, <2>3, ReadStep DEF IInv
  <2>5. KeepsPromise' /\ areg' \in [Reg -> Word]
    BY <2>1, PromiseStep DEF IInv
  <2>6. QED
    BY <2>2, <2>3, <2>4, <2>5 DEF IInv
<1>2. CASE UNCHANGED vars
  BY <1>2 DEF IInv, vars, rfvars, TypeOK, ZeroKept, ReadsCurrent, RData,
              KeepsPromise, Arch
<1>3. QED
  BY <1>1, <1>2

LEMMA IInvAlways == Spec => []IInv
BY IInvInit, IInvStep, PTL DEF Spec

\* The types of reg_file_bram's registers.
THEOREM TypeCorrect == Spec => []TypeOK
<1>1. IInv => TypeOK
  BY DEF IInv
<1>2. QED
  BY <1>1, IInvAlways, PTL

\* x0 is never written (register.v:57, 61).
THEOREM ZeroCorrect == Spec => []ZeroKept
<1>1. IInv => ZeroKept
  BY DEF IInv
<1>2. QED
  BY <1>1, IInvAlways, PTL

\* No write is lost and the younger of two writes stays (register.v:53-70).
THEOREM PromiseKept == Spec => []KeepsPromise
<1>1. IInv => KeepsPromise
  BY DEF IInv
<1>2. QED
  BY <1>1, IInvAlways, PTL

\* Reads return the promised registers (register.v:97-118).
THEOREM ReadsCorrect == Spec => []ReadsArchitectural
<1>1. IInv => ReadsArchitectural
  <2> SUFFICES ASSUME IInv, NEW p \in Port,
                      ~(buf.we /\ buf.waddr = raddr_q[p])
               PROVE  RData(p) = areg[raddr_q[p]]
    BY DEF ReadsArchitectural
  <2>1. raddr_q[p] \in Reg
    BY DEF IInv, TypeOK
  <2>2. Arch[raddr_q[p]] = regs[raddr_q[p]]
    BY <2>1 DEF IInv, TypeOK, Arch
  <2>3. QED
    BY <2>2 DEF IInv, ReadsCurrent, KeepsPromise
<1>2. QED
  BY <1>1, IInvAlways, PTL
=============================================================================
