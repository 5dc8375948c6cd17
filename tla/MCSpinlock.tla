----------------------------- MODULE MCSpinlock -----------------------------
(* Two CPUs and two nested locks (tickslock before ptable.lock, the nesting  *)
(* of the timer interrupt and of sys_sleep).                                 *)
EXTENDS Spinlock
CONSTANTS c0, c1, tickslock, ptable
MCCpus == {c0, c1}
MCLocks == {tickslock, ptable}
MCRank == [l \in MCLocks |-> IF l = tickslock THEN 1 ELSE 2]
=============================================================================
