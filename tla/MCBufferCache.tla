--------------------------- MODULE MCBufferCache ---------------------------
EXTENDS BufferCache
CONSTANTS p1, p2, k1, k2, k3
OneProc == {p1}
TwoProcs == {p1, p2}
ThreeBlocks == {k1, k2, k3}
=============================================================================
