---------------------------- MODULE RegisterFile ----------------------------
(***************************************************************************)
(* reg_file_bram (src/RTL/module/register.v): a register file on a single  *)
(* BRAM write port that serves two writers.  The JAL link write wins the   *)
(* port; the WB write it displaces waits one cycle in a one-entry buffer.  *)
(* Reads are registered and patched by a one-deep bypass.  One action, the *)
(* rising clock edge: the four always blocks of the module move together.  *)
(***************************************************************************)
EXTENDS Naturals

CONSTANTS Reg,     \* register addresses, 0 .. REG_NUM-1 in the code
          Word,    \* register values, REG_WIDTH bits in the code
          X0,      \* the address ZERO
          Zero     \* the all-zero word

ASSUME RegisterFileAssumption == X0 \in Reg /\ Zero \in Word

VARIABLES regs,    \* the BRAM array
          buf,     \* we_buf, waddr_buf, wdata_buf
          bypass,  \* bypass_valid, bypass_addr, bypass_data
          raw,     \* rdata1_raw and rdata2_raw
          raddr_q  \* raddr1_q and raddr2_q

rfvars == <<regs, buf, bypass, raw, raddr_q>>

Port == 1 .. 2
WritePort == [we : BOOLEAN, waddr : Reg, wdata : Word]

\* A slip: reset clears only the valid bit.
NoWrite_slip == [we |-> FALSE]

NoWrite == [we |-> FALSE, waddr |-> X0, wdata |-> Zero]

TypeOK ==
    /\ regs \in [Reg -> Word]
    /\ buf \in WritePort
    /\ bypass \in WritePort
    /\ raw \in [Port -> Word]
    /\ raddr_q \in [Port -> Reg]

-----------------------------------------------------------------------------
\* we_eff, waddr_eff, wdata_eff: link write > buffered write > WB write.
Effective(wb, link) ==
    IF link.we THEN link ELSE IF buf.we THEN buf ELSE wb

\* we_final: the write that reaches the array, if it is not to x0.
Final(wb, link) ==
    LET e == Effective(wb, link) IN [e EXCEPT !.we = e.we /\ e.waddr # X0]

\* A slip: a WB write to the link's own register is buffered too.
Displaced_slip(wb, link) == link.we /\ wb.we /\ wb.waddr # X0

\* A WB write is buffered when the link write displaces it.
Displaced(wb, link) ==
    link.we /\ wb.we /\ wb.waddr # X0 /\ wb.waddr # link.waddr

\* A slip: no bypass beside the BRAM.
RData_slip(p) == IF raddr_q[p] = X0 THEN Zero ELSE raw[p]

\* rdata1 and rdata2.
RData(p) ==
    IF raddr_q[p] = X0 THEN Zero
    ELSE IF bypass.we /\ bypass.waddr = raddr_q[p] THEN bypass.wdata
    ELSE raw[p]

Init ==
    /\ regs = [r \in Reg |-> Zero]
    /\ buf = NoWrite
    /\ bypass = NoWrite
    /\ raw = [p \in Port |-> Zero]
    /\ raddr_q = [p \in Port |-> X0]

\* One rising clock edge with the two write requests and the read addresses.
Clock(wb, link, raddr) ==
    LET w == Final(wb, link) IN
    /\ regs' = IF w.we THEN [regs EXCEPT ![w.waddr] = w.wdata] ELSE regs
    /\ buf' = IF Displaced(wb, link) THEN wb ELSE NoWrite
    /\ bypass' = w
    /\ raw' = [p \in Port |-> regs[raddr[p]]]
    /\ raddr_q' = raddr

-----------------------------------------------------------------------------
\* What the comment at register.v:46-47 asks of the instruction stream: while
\* a displaced write waits, neither port writes (a WB write to x0 is none).
Spaced(wb, link) == buf.we => (wb.we => wb.waddr = X0) /\ ~link.we
=============================================================================
