-------------------------- MODULE SchedulerHistory --------------------------
(***************************************************************************)
(* Scheduler with two history variables: the tick at which each process    *)
(* last became RUNNABLE, and under round robin how often each other        *)
(* process has been dispatched since.                                      *)
(***************************************************************************)
EXTENDS Scheduler

CONSTANT MaxBypass   \* bound: where the counting of bypasses stops
ASSUME MaxBypassAssumption == MaxBypass \in Nat

VARIABLES ready, bypass
hvars == <<vars, ready, bypass>>

HInit ==
  /\ Init
  /\ ready = [p \in Slots |-> 0]
  /\ bypass = [p \in Slots |-> [q \in Slots |-> 0]]

Waits(p) == state[p] = "RUNNABLE" /\ state'[p] = "RUNNABLE"
Starts(q) == state[q] = "RUNNABLE" /\ state'[q] = "RUNNING"
SameQueue(p, q) == strategy = 4 => queuelevel[p] = queuelevel[q]

HNext ==
  /\ Next
  /\ ready' = [p \in Slots |->
       IF state[p] # "RUNNABLE" /\ state'[p] = "RUNNABLE" THEN ticks ELSE ready[p]]
  /\ bypass' = [p \in Slots |-> [q \in Slots |->
       IF ~Waits(p) THEN 0
       ELSE IF strategy = 1 /\ Starts(q) /\ bypass[p][q] < MaxBypass
            THEN bypass[p][q] + 1 ELSE bypass[p][q]]]

HSpec == HInit /\ [][HNext]_hvars

HFairSpec == HSpec /\ Fairness

-----------------------------------------------------------------------------
\* A FIFO queue is served in the order of entry, up to the resolution of a tick:
\* nobody is dispatched while somebody waits in its queue since an earlier tick, for
\* fork, yield, wakeup1 and kill all stamp what they make RUNNABLE.
FifoByTick ==
  [][\A p, q \in Slots :
       /\ strategy = 2 \/ (strategy = 4 /\ queuelevel[p] = 2)
       /\ Starts(p) /\ Waits(q) /\ SameQueue(p, q)
       => ready[p] <= ready[q]]_hvars

\* However the others sleep, wake and fork, a process that waits for a round-robin
\* pass sees each of them dispatched at most once by each CPU before its own turn.
BoundedBypass ==
  TypeOK /\ ChargedWithinAge /\ (strategy = 1 => \A p, q \in Slots : bypass[p][q] <= Cardinality(Cpus))

\* Strategy 4 serves its queues in order: nobody is dispatched while somebody of a higher
\* level has been waiting since before the tick at which the scan began, except by a pass
\* over level 1 ("third queue") that has begun: it ends before the upper levels are
\* looked at again.
LevelsInOrder ==
  [][\A p, q \in Slots, c \in Cpus :
       /\ strategy = 4 /\ Starts(p) /\ Waits(q) /\ queuelevel[p] < queuelevel[q]
       /\ cpuproc'[c] = p /\ ready[q] < tmp[c]
       => pos[c] > 1]_hvars
=============================================================================
