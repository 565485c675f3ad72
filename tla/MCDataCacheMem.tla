--------------------------- MODULE MCDataCacheMem ---------------------------
\* Two lines of two words that share one set of two ways, any loads and stores.
EXTENDS DataCacheMem

Mem0 == [a \in 0 .. Cardinality(Line) * LineWords - 1 |-> 0]
=============================================================================
