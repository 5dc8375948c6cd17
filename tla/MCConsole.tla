------------------------------ MODULE MCConsole ------------------------------
EXTENDS Console

\* Typing and editing; two devices and two readers, one of which is killed; a write past a
\* reader; a panic.
Load(k, K, u, P, kl, p) == [kbd |-> k, keys |-> K, uart |-> u, procs |-> P, kills |-> kl, panics |-> p]
Ctl == {"lctl", "rctl"}
AllLoads == {
  Load(4, Keys \cup Ctl, 0, {"r1"}, {}, FALSE),
  Load(1, {"enter"}, 2, {"r1", "r2"}, {"r2"}, FALSE),
  Load(0, {}, 1, {"r1", "w1"}, {}, FALSE),
  Load(1, Keys, 0, {"w1"}, {}, TRUE)}
=============================================================================
