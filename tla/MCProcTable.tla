---------------------------- MODULE MCProcTable ----------------------------
EXTENDS ProcTable
CONSTANTS c0, c1
OneCpu == {c0}
TwoCpus == {c0, c1}
=============================================================================
