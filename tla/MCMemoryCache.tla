--------------------------- MODULE MCMemoryCache ---------------------------
\* Small instances of MemoryCache for TLC.
EXTENDS MemoryCache

CONSTANTS t1, t2, t3, v1, v2
=============================================================================
