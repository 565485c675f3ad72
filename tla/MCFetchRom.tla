----------------------------- MODULE MCFetchRom -----------------------------
\* Four lines of two words on two sets of two ways, three of them in one set:
\* every word of the program is different.
EXTENDS FetchRom

Rom0 == [l \in Line |-> [o \in Offset |-> 1 + 2 * l + o]]
Insts == 0 .. 10
PowerUp0 == [line |-> 1, word |-> 0]
=============================================================================
