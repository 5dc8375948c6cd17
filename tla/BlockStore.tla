----------------------------- MODULE BlockStore -----------------------------
(***************************************************************************)
(* What the buffer cache promises: one current contents per disk block,    *)
(* used by at most one process at a time and changed only by it.           *)
(***************************************************************************)
CONSTANTS Blocks, Vals, Procs

VARIABLES val,   \* the contents of each block
          faulty, \* whether the disk may fail
          using  \* the blocks each process has between bread and brelse

svars == <<val, using, faulty>>

Init == val \in [Blocks -> Vals] /\ faulty \in BOOLEAN /\ using = [p \in Procs |-> {}]

Bread(p, k) ==
  /\ \A q \in Procs : k \notin using[q]
  /\ using' = [using EXCEPT ![p] = @ \cup {k}]
  /\ UNCHANGED <<val, faulty>>

Change(p, k, v) ==
  /\ k \in using[p]
  /\ val' = [val EXCEPT ![k] = v]
  /\ UNCHANGED <<using, faulty>>

Brelse(p, k) ==
  /\ k \in using[p]
  /\ using' = [using EXCEPT ![p] = @ \ {k}]
  /\ UNCHANGED <<val, faulty>>

\* On a faulty disk, a read that fails gives the block other contents before anybody sees
\* it, and it has its own again once the buffer is recycled.
Misread(p, k, v) ==
  /\ faulty /\ \A q \in Procs : k \notin using[q]
  /\ val' = [val EXCEPT ![k] = v]
  /\ using' \in {using, [using EXCEPT ![p] = @ \cup {k}]}
  /\ UNCHANGED faulty

Next == \E p \in Procs, k \in Blocks :
  Bread(p, k) \/ Brelse(p, k) \/ \E v \in Vals : Change(p, k, v) \/ Misread(p, k, v)

Spec == Init /\ [][Next]_svars
=============================================================================
