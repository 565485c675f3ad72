------------------------------- MODULE Lfsr16 -------------------------------
(***************************************************************************)
(* lfsr16_inst and lfsr16_data (src/RTL/module/Cache/LFSR16_*.v): the      *)
(* shift register whose low bits choose the way to replace.  A bit is a    *)
(* Boolean.  The cache decides when it advances; the cache modules take    *)
(* any way, of which its choice is one.                                    *)
(***************************************************************************)
EXTENDS Naturals

VARIABLE lfsr

Bit == 0 .. 15

\* 16'hACE1.
Seed == [i \in Bit |-> i \in {15, 13, 11, 10, 7, 6, 5, 0}]

xor(a, b) == a # b

fb == xor(xor(lfsr[0], lfsr[2]), xor(lfsr[3], lfsr[5]))

TypeOK == lfsr \in [Bit -> BOOLEAN]

Init == lfsr = Seed

\* Shift right by one with advance; otherwise keep.
Advance == lfsr' = [i \in Bit |-> IF i = 15 THEN fb ELSE lfsr[i + 1]]

Next == Advance
Spec == Init /\ [][Next]_lfsr

-----------------------------------------------------------------------------
\* LFSR16_inst.v:2: all zeroes, the state no advance would ever leave, is
\* never reached.
NeverZero == \E i \in Bit : lfsr[i]
=============================================================================
