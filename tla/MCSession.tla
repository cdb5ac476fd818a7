----------------------------- MODULE MCSession -----------------------------
\* Small instances of Session for TLC.
EXTENDS Session

CONSTANTS ann, c1, c2
=============================================================================
