----------------------------- MODULE MCFetchAxi -----------------------------
\* Two lines of two words that compete for one way.
EXTENDS FetchAxi

Rom0 == [l \in Line |-> [o \in Offset |-> 1 + 2 * l + o]]
Insts == 0 .. 4
PowerUp0 == [line |-> 0, word |-> 1]
=============================================================================
