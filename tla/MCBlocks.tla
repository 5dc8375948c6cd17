------------------------------ MODULE MCBlocks -------------------------------
EXTENDS Blocks
=============================================================================
