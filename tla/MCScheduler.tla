---------------------------- MODULE MCScheduler ----------------------------
(* The builds of scheduler() on one or two CPUs, with what the processes do. *)
EXTENDS SchedulerHistory
CONSTANTS c0, c1
OneCpu == {c0}
TwoCpus == {c0, c1}
AllBuilds == [s \in {1, 2, 3, 4} |->
  CASE s = 1 -> [cpus |-> TwoCpus, ops |-> {"fork", "block", "sleep", "exit", "exec"}, mod |-> 1, ticks |-> 1]
    [] s = 2 -> [cpus |-> TwoCpus, ops |-> {"fork", "block"}, mod |-> 3, ticks |-> 2]
    [] s = 3 -> [cpus |-> OneCpu, ops |-> {"fork"}, mod |-> 6, ticks |-> 5]
    [] s = 4 -> [cpus |-> OneCpu, ops |-> {"fork", "nice"}, mod |-> 6, ticks |-> 5]]
=============================================================================
