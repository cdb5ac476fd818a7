---------------------------- MODULE MCThumbnail ----------------------------
\* Small instances of Thumbnail for TLC.
EXTENDS Thumbnail

CONSTANTS direct, large
=============================================================================
