------------------------------- MODULE MCPipe -------------------------------
\* Small instances of Pipe for TLC.
EXTENDS Pipe

CONSTANTS p1, p2

TwoProcs == {p1, p2}
One == {p1}
Bits == {0, 1}
UpToThree == {<<>>, <<0>>, <<0, 1>>, <<0, 1, 0>>}
=============================================================================
