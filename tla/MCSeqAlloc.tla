----------------------------- MODULE MCSeqAlloc -----------------------------
EXTENDS SeqAlloc, TLC
=============================================================================
