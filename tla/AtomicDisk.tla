----------------------------- MODULE AtomicDisk -----------------------------
(***************************************************************************)
(* What the log promises the file system: a disk that changes by whole     *)
(* groups of completed operations.  volatile is what the running system    *)
(* reads, durable what it would find after a crash.                        *)
(***************************************************************************)
CONSTANTS Blocks, Vals, Procs

VARIABLES durable, volatile, open

avars == <<durable, volatile, open>>

Init ==
  /\ durable \in [Blocks -> Vals]
  /\ volatile = durable
  /\ open = {}

Begin(p) == p \notin open /\ open' = open \cup {p} /\ UNCHANGED <<durable, volatile>>

Write(p, b, v) ==
  /\ p \in open
  /\ volatile' = [volatile EXCEPT ![b] = v]
  /\ UNCHANGED <<durable, open>>

End(p) == p \in open /\ open' = open \ {p} /\ UNCHANGED <<durable, volatile>>

\* Only when no operation is half done.
Commit == open = {} /\ durable' = volatile /\ UNCHANGED <<volatile, open>>

Crash == volatile' = durable /\ open' = {} /\ UNCHANGED durable

Next ==
  \/ \E p \in Procs : Begin(p) \/ End(p) \/ \E b \in Blocks, v \in Vals : Write(p, b, v)
  \/ Commit \/ Crash

Spec == Init /\ [][Next]_avars
=============================================================================
