------------------------------- MODULE SocBram ------------------------------
(***************************************************************************)
(* soc_top_bram (src/RTL/core/soc_top_bram.v): the core on its on-chip     *)
(* instruction ROM and data BRAM.  The program is chosen in Init and never *)
(* changes; inst_mem answers combinationally and is always ready, so a run *)
(* of the chip is a run of CoreMem whose stream is the program.            *)
(***************************************************************************)
EXTENDS CoreMem

CONSTANTS ImemSize,   \* words of inst_mem
          Programs    \* the instruction memory images considered

ASSUME SocBramAssumption ==
    /\ ImemSize \in Nat \ {0}
    /\ Programs \subseteq [0 .. ImemSize - 1 -> Fetchable]
    /\ TRUE \in FetchReady

VARIABLE prog

socvars == <<memcorevars, prog>>

\* inst_mem: a combinational read at pc_addr[ADDR_WIDTH+1:2].
imem_rdata == prog[pc % ImemSize]

SocInit == prog \in Programs /\ MemInit

\* One rising clock edge of the whole chip.
SocNext == \E stall \in StallValues :
    MemClock(imem_rdata, TRUE, stall) /\ UNCHANGED prog

SocSpec == SocInit /\ [][SocNext]_socvars
=============================================================================
