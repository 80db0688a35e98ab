----------------------------- MODULE MCBuffers -----------------------------
\* Small instances of Buffers for TLC.
EXTENDS Buffers

CONSTANTS p1, p2

TwoProcs == {p1, p2}
Bits == {0, 1}
=============================================================================
