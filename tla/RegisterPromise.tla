--------------------------- MODULE RegisterPromise --------------------------
(***************************************************************************)
(* reg_file_bram beside what it promises: both see the same two write      *)
(* requests in every cycle, spaced as register.v:46-47 asks.               *)
(*                                                                         *)
(* The promise is a register file with two write ports.  The WB stage      *)
(* writes for an older instruction, the JAL link write (port 2) comes from *)
(* the ID stage and is younger: in one cycle both writes take effect, the  *)
(* WB write first.  Register X0 reads as zero and ignores writes.          *)
(***************************************************************************)
EXTENDS RegisterFile

VARIABLE areg   \* the registers of the promise

vars == <<rfvars, areg>>

\* The promised registers r after write request w.
Written(r, w) ==
    IF w.we /\ w.waddr # X0 THEN [r EXCEPT ![w.waddr] = w.wdata] ELSE r

PromisedWrites(wb, link) == areg' = Written(Written(areg, wb), link)

PromiseInit == Init /\ areg = [r \in Reg |-> Zero]

Next == \E wb, link \in WritePort, raddr \in [Port -> Reg] :
            Spaced(wb, link) /\ Clock(wb, link, raddr) /\ PromisedWrites(wb, link)

Spec == PromiseInit /\ [][Next]_vars

-----------------------------------------------------------------------------
\* The registers the file stands for: its array with the waiting write.
Arch == IF buf.we THEN [regs EXCEPT ![buf.waddr] = buf.wdata] ELSE regs

\* The single write port keeps the promise of two: no write is lost, and of
\* two writes to one register in one cycle the link write stays.
KeepsPromise == Arch = areg

\* A read returns the promised register, the writes of the very edge that
\* sampled the address included (the bypass) -- all but a write that the link
\* write of that edge displaced into the buffer.
ReadsArchitectural ==
    \A p \in Port :
        (buf.we /\ buf.waddr = raddr_q[p]) \/ RData(p) = areg[raddr_q[p]]

\* The array's x0 entry is never written, by a port or through the buffer.
ZeroKept == regs[X0] = Zero /\ (buf.we => buf.waddr # X0)
=============================================================================
