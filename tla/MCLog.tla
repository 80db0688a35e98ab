------------------------------- MODULE MCLog -------------------------------
\* Small instances of Log for TLC.
EXTENDS Log

CONSTANTS t1, t2, blk0, blk1

TwoThreads == {t1, t2}
TwoBlocks == {blk0, blk1}
Bits == {0, 1}
=============================================================================
