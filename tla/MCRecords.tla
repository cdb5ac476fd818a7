----------------------------- MODULE MCRecords -----------------------------
\* Small instances of Records for TLC.
EXTENDS Records, TLC

CONSTANTS r1, r2, r3, k1, k2, f1, f2

\* Requests, keys and columns are only compared with their like.
Symmetry == Permutations(Requests) \cup Permutations(Keys) \cup Permutations(Infos)
=============================================================================
