------------------------------- MODULE MCLog -------------------------------
EXTENDS Log
CONSTANTS b1, b2, b3, p1, p2, p3
TwoBlocks == {b1, b2}
ThreeBlocks == {b1, b2, b3}
TwoProcs == {p1, p2}
ThreeProcs == {p1, p2, p3}
=============================================================================
