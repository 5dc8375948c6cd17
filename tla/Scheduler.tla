------------------------------ MODULE Scheduler ------------------------------
(***************************************************************************)
(* The four scheduling policies of proc.c:scheduler and the fields they    *)
(* read: ticks, priority, ctime, rtime, queuelevel, myquantum.  strategy   *)
(* is a build parameter: 1 round robin with quanta, 2 FIFO by time stamp,  *)
(* 3 "guaranteed" (least GRT), 4 multi-level queues (3: GRT, 2: FIFO,      *)
(* 1: round robin).                                                        *)
(*                                                                         *)
(* Parents, pids and kill are in ProcTable; here a process forks, sleeps on*)
(* ticks or on another channel, lowers its level with nice, re-executes and*)
(* exits.  ticks is written under tickslock and read by the schedulers     *)
(* under ptable.lock, so it may advance between any two of their reads.    *)
(***************************************************************************)
EXTENDS Integers, FiniteSets

CONSTANTS
  NPROC,      \* slots of ptable.proc
  Cpus, Cpu0, \* the processors, and the one whose timer advances ticks
  NoCpu,      \* ptable.lock's holder when it is free
  QUANTA,     \* timer interrupts per dispatch under strategy 1
  Builds      \* the values of strategy considered, and for each the CPUs that
              \* are started, what user programs do, the range of ticks, rtime and
              \* the time stamps (uint: 2^32 in the build), and the bound on ticks
              \* (mod: none)

Strategies == DOMAIN Builds
Ops == {"fork", "exit", "sleep", "block", "nice", "exec"}

ASSUME NPROCAssumption == NPROC \in Nat /\ NPROC >= 1
ASSUME CpusAssumption == IsFiniteSet(Cpus) /\ Cpu0 \in Cpus /\ NoCpu \notin Cpus
ASSUME QuantumAssumption == QUANTA \in Nat \ {0}
ASSUME BuildsAssumption ==
  /\ Strategies \subseteq 1 .. 4
  /\ Builds \in [Strategies -> [cpus : SUBSET Cpus, ops : SUBSET Ops, mod : Nat \ {0}, ticks : Nat]]

Slots == 1 .. NPROC
Nil == 0

VARIABLES
  strategy, ticks,
  state, priority, ctime, rtime, queuelevel, myquantum,  \* fields of struct proc
  onticks,        \* p->chan == &ticks
  np,             \* the child a process is forking
  ptlock,         \* the CPU holding ptable.lock
  cpuproc,        \* proc, the per-CPU current process
  spc,            \* each CPU: "idle" or "scan" in the scheduler loop, "proc" running
                  \* a process, "back" in swtch to the loop
  irq,            \* each CPU's progress through a timer interrupt
  tmp,            \* ticks as the scheduler read it at the start of its pass
  pos             \* where its round-robin pass goes on (1: no such pass yet)

stamps == <<priority, ctime, rtime, queuelevel, myquantum>>
cpuvars == <<cpuproc, spc, irq, tmp, pos>>
vars == <<strategy, ticks, state, stamps, onticks, np, ptlock, cpuvars>>

Set(f, x, v) == [f EXCEPT ![x] = v]
Free == ptlock = NoCpu
First(q, S) == q \in S /\ \A r \in S : q <= r
TickMod == Builds[strategy].mod
Sub(a, b) == (a - b) % TickMod      \* unsigned subtraction

\* CPU c executes its current process, with no lock and outside any handler.
Exec(c) == spc[c] = "proc" /\ irq[c] = "none"

\* userinit, before the first tick.
Init ==
  /\ strategy \in Strategies
  /\ ticks = 0
  /\ state = [p \in Slots |-> IF p = 1 THEN "RUNNABLE" ELSE "UNUSED"]
  /\ priority = [p \in Slots |-> 0] /\ ctime = [p \in Slots |-> 0]
  /\ rtime = [p \in Slots |-> 0] /\ myquantum = [p \in Slots |-> 0]
  /\ queuelevel = [p \in Slots |-> 3]
  /\ onticks = [p \in Slots |-> FALSE]
  /\ np = [p \in Slots |-> Nil]
  /\ ptlock = NoCpu
  /\ cpuproc = [c \in Cpus |-> Nil]
  /\ spc = [c \in Cpus |-> "idle"] /\ irq = [c \in Cpus |-> "none"]
  /\ tmp = [c \in Cpus |-> 0] /\ pos = [c \in Cpus |-> 1]

-----------------------------------------------------------------------------
(* The policies                                                            *)

Runnable == {p \in Slots : state[p] = "RUNNABLE"}
Level(n) == {p \in Runnable : queuelevel[p] = n}

\* The first of S with the least key, provided that key is below the bound a
\* scan starts from.
Least(S, key, bound) ==
  {p \in S : key[p] < bound /\ \A q \in S : key[p] < key[q] \/ (key[p] = key[q] /\ p <= q)}

\* Strategy 1, and level 1 of strategy 4: the next of S in the pass.
NextInPass_Restart(c, S) == {p \in S : First(p, S)}
NextInPass(c, S) == {p \in S : p >= pos[c] /\ \A q \in S : q >= pos[c] => p <= q}

\* Strategy 2, and level 2 of strategy 4: the oldest time stamp before tmp.
Oldest_TableOrder(c, S) == {p \in S : First(p, {q \in S : priority[q] < tmp[c]})}
Oldest(c, S) == Least(S, priority, tmp[c])

\* Strategy 3, and level 3 of strategy 4: the least integer share of its age that
\* a process has been running.
GRT == [p \in Slots |-> LET age == Sub(ticks, ctime[p]) IN
                        IF age # 0 THEN rtime[p] \div age ELSE 0]
LeastServed(c, S) == Least(S, GRT, tmp[c])

\* Strategy 4 looks at level 3, then 2, then makes one pass over level 1; once
\* that pass has begun (pos > 1) it does not look at the upper levels again.
MultiLevel_TwoFirst(c) ==
  IF pos[c] > 1 THEN NextInPass(c, Level(1))
  ELSE IF Oldest(c, Level(2)) # {} THEN Oldest(c, Level(2))
  ELSE IF LeastServed(c, Level(3)) # {} THEN LeastServed(c, Level(3))
  ELSE NextInPass(c, Level(1))
MultiLevel(c) ==
  IF pos[c] > 1 THEN NextInPass(c, Level(1))
  ELSE IF LeastServed(c, Level(3)) # {} THEN LeastServed(c, Level(3))
  ELSE IF Oldest(c, Level(2)) # {} THEN Oldest(c, Level(2))
  ELSE NextInPass(c, Level(1))

\* The process scheduler() runs next: at most one.
Choice(c) ==
  CASE strategy = 1 -> NextInPass(c, Runnable)
    [] strategy = 2 -> Oldest(c, Runnable)
    [] strategy = 3 -> LeastServed(c, Runnable)
    [] strategy = 4 -> MultiLevel(c)

\* p is run by a round-robin pass, which stamps nothing and goes on after it.
InPass(p) == strategy = 1 \/ (strategy = 4 /\ queuelevel[p] = 1)

\* acquire(&ptable.lock), and the first read of ticks.
SchedAcquire(c) ==
  /\ c \in Builds[strategy].cpus /\ spc[c] = "idle" /\ irq[c] = "none" /\ Free
  /\ ptlock' = c
  /\ tmp' = Set(tmp, c, ticks)
  /\ pos' = Set(pos, c, 1)
  /\ spc' = Set(spc, c, "scan")
  /\ UNCHANGED <<strategy, ticks, state, stamps, onticks, np, cpuproc, irq>>

\* Run p; it comes out of swtch and releases the lock (forkret, yield, sleep).
Dispatch(c, p) ==
  /\ spc[c] = "scan" /\ p \in Choice(c)
  /\ cpuproc' = Set(cpuproc, c, p)
  /\ myquantum' = Set(myquantum, p, 0)
  /\ priority' = IF InPass(p) THEN priority ELSE Set(priority, p, ticks)
  /\ pos' = IF InPass(p) THEN Set(pos, c, p + 1) ELSE pos
  /\ state' = Set(state, p, "RUNNING")
  /\ onticks' = Set(onticks, p, FALSE)
  /\ spc' = Set(spc, c, "proc")
  /\ ptlock' = NoCpu
  /\ UNCHANGED <<strategy, ticks, ctime, rtime, queuelevel, np, irq, tmp>>

\* Back from swtch: proc = 0; only a round-robin pass goes on.
SchedBack(c) ==
  /\ spc[c] = "back"
  /\ cpuproc' = Set(cpuproc, c, Nil)
  /\ spc' = Set(spc, c, IF pos[c] > 1 THEN "scan" ELSE "idle")
  /\ ptlock' = IF pos[c] > 1 THEN c ELSE NoCpu
  /\ UNCHANGED <<strategy, ticks, state, stamps, onticks, np, irq, tmp, pos>>

\* Nobody (left) to run: release.
SchedRelease(c) ==
  /\ spc[c] = "scan" /\ Choice(c) = {}
  /\ spc' = Set(spc, c, "idle")
  /\ ptlock' = NoCpu
  /\ UNCHANGED <<strategy, ticks, state, stamps, onticks, np, cpuproc, irq, tmp, pos>>

-----------------------------------------------------------------------------
(* What changes the fields the policies read                               *)

\* sched(), from a process that has set its state and holds the lock.
Sched(c) == spc' = Set(spc, c, "back") /\ ptlock' = c

\* allocproc, in fork: claim the first UNUSED slot and stamp it.
ForkAlloc(c) ==
  LET unused == {q \in Slots : state[q] = "UNUSED"} IN
  /\ "fork" \in Builds[strategy].ops /\ Exec(c) /\ np[cpuproc[c]] = Nil /\ Free
  /\ \E q \in unused :
       /\ First(q, unused)
       /\ state' = Set(state, q, "EMBRYO")
       /\ ctime' = Set(ctime, q, ticks)
       /\ rtime' = Set(rtime, q, 0)
       /\ myquantum' = Set(myquantum, q, 0)
       /\ queuelevel' = Set(queuelevel, q, 3)
       /\ priority' = Set(priority, q, ticks)
       /\ np' = Set(np, cpuproc[c], q)
  /\ UNCHANGED <<strategy, ticks, onticks, ptlock, cpuvars>>

\* The rest of fork: the child is RUNNABLE.
ForkRunnable(c) ==
  LET p == cpuproc[c] IN
  /\ Exec(c) /\ np[p] # Nil /\ Free
  /\ state' = Set(state, np[p], "RUNNABLE")
  /\ priority' = Set(priority, np[p], ticks)
  /\ np' = Set(np, p, Nil)
  /\ UNCHANGED <<strategy, ticks, ctime, rtime, queuelevel, myquantum, onticks, ptlock, cpuvars>>

\* sleep, on &ticks (sys_sleep) or on another channel.
Sleep(c, how) ==
  LET p == cpuproc[c] IN
  /\ how \in Builds[strategy].ops /\ Exec(c) /\ np[p] = Nil /\ Free
  /\ state' = Set(state, p, "SLEEPING")
  /\ onticks' = Set(onticks, p, how = "sleep")
  /\ Sched(c)
  /\ UNCHANGED <<strategy, ticks, stamps, np, cpuproc, irq, tmp, pos>>

\* wakeup1 or kill makes the processes in S RUNNABLE, at the back of the queue.
Ready(S) ==
  /\ state' = [p \in Slots |-> IF p \in S THEN "RUNNABLE" ELSE state[p]]
  /\ priority' = [p \in Slots |-> IF p \in S THEN ticks ELSE priority[p]]

\* A wakeup of another channel, or kill, by a device or by another process.
Wakeup(p) ==
  /\ state[p] = "SLEEPING" /\ Free
  /\ Ready({p})
  /\ UNCHANGED <<strategy, ticks, ctime, rtime, queuelevel, myquantum, onticks, np, ptlock, cpuvars>>

\* exit: the process is a zombie.
Exit(c) ==
  LET p == cpuproc[c] IN
  /\ "exit" \in Builds[strategy].ops /\ Exec(c) /\ p # 1 /\ np[p] = Nil /\ Free
  /\ state' = Set(state, p, "ZOMBIE")
  /\ Sched(c)
  /\ UNCHANGED <<strategy, ticks, stamps, onticks, np, cpuproc, irq, tmp, pos>>

\* wait, by whoever is the parent: the slot is free again.
Reap(p) ==
  /\ state[p] = "ZOMBIE" /\ Free
  /\ state' = Set(state, p, "UNUSED")
  /\ UNCHANGED <<strategy, ticks, stamps, onticks, np, ptlock, cpuvars>>

\* sys_nice: down one level.
Nice(c) ==
  LET p == cpuproc[c] IN
  /\ "nice" \in Builds[strategy].ops /\ Exec(c) /\ np[p] = Nil /\ queuelevel[p] > 1
  /\ queuelevel' = [queuelevel EXCEPT ![p] = @ - 1]
  /\ UNCHANGED <<strategy, ticks, state, priority, ctime, rtime, myquantum, onticks, np, ptlock, cpuvars>>

\* exec: the process's age starts again, what it has run does not.
ExecImage(c) ==
  /\ "exec" \in Builds[strategy].ops /\ Exec(c) /\ np[cpuproc[c]] = Nil
  /\ ctime' = Set(ctime, cpuproc[c], ticks)
  /\ UNCHANGED <<strategy, ticks, state, priority, rtime, queuelevel, myquantum, onticks, np, ptlock, cpuvars>>

\* Anything else a process does.
Compute(c) == Exec(c) /\ UNCHANGED vars

-----------------------------------------------------------------------------
(* trap(): the timer interrupt                                             *)

IntrOn(c) == spc[c] \in {"idle", "proc"} /\ irq[c] = "none"

\* CPU 0: ticks++, under tickslock only.
Tick(c) ==
  /\ IntrOn(c) /\ c = Cpu0 /\ ticks < Builds[strategy].ticks
  /\ ticks' = (ticks + 1) % TickMod
  /\ irq' = Set(irq, c, "wakeup")
  /\ UNCHANGED <<strategy, state, stamps, onticks, np, ptlock, cpuproc, spc, tmp, pos>>

\* CPU 0: wakeup(&ticks).
TickWakeup(c) ==
  /\ irq[c] = "wakeup" /\ Free
  /\ Ready({p \in Slots : state[p] = "SLEEPING" /\ onticks[p]})
  /\ irq' = Set(irq, c, "account")
  /\ UNCHANGED <<strategy, ticks, ctime, rtime, queuelevel, myquantum, onticks, np, ptlock,
                 cpuproc, spc, tmp, pos>>

\* The other CPUs' timers, which no tick separates.
TimerOther(c) ==
  /\ IntrOn(c) /\ c # Cpu0 /\ cpuproc[c] # Nil
  /\ irq' = Set(irq, c, "account")
  /\ UNCHANGED <<strategy, ticks, state, stamps, onticks, np, ptlock, cpuproc, spc, tmp, pos>>

\* The test that ends a quantum; strategies 2 to 4 yield at every interrupt.
MustYield(n) == strategy = 1 => n = QUANTA

\* proc->rtime++.
Charge(n) == (n + 1) % TickMod

\* Charge the running process, and yield when it must.
TimerAccount(c) ==
  LET p == cpuproc[c] IN
  /\ irq[c] = "account"
  /\ IF p = Nil
     THEN irq' = Set(irq, c, "none") /\ UNCHANGED <<rtime, myquantum>>
     ELSE /\ rtime' = [rtime EXCEPT ![p] = Charge(@)]
          /\ myquantum' = [myquantum EXCEPT ![p] = @ + 1]
          /\ irq' = Set(irq, c, IF MustYield(myquantum[p] + 1) THEN "yield" ELSE "none")
  /\ UNCHANGED <<strategy, ticks, state, priority, ctime, queuelevel, onticks, np, ptlock,
                 cpuproc, spc, tmp, pos>>

\* yield: to the back of the queue.
Yield(c) ==
  /\ irq[c] = "yield" /\ Free
  /\ Ready({cpuproc[c]})
  /\ irq' = Set(irq, c, "none")
  /\ Sched(c)
  /\ UNCHANGED <<strategy, ticks, ctime, rtime, queuelevel, myquantum, onticks, np, cpuproc, tmp, pos>>

-----------------------------------------------------------------------------
Loop(c) == SchedAcquire(c) \/ SchedBack(c) \/ SchedRelease(c) \/ \E p \in Slots : Dispatch(c, p)
Handler(c) == TickWakeup(c) \/ TimerAccount(c) \/ Yield(c)
Timer(c) == Tick(c) \/ TimerOther(c)
User(c) ==
  \/ ForkAlloc(c) \/ ForkRunnable(c) \/ Sleep(c, "sleep") \/ Sleep(c, "block")
  \/ Exit(c) \/ Nice(c) \/ ExecImage(c) \/ Compute(c)

Next ==
  \/ \E c \in Cpus : Loop(c) \/ Handler(c) \/ Timer(c) \/ User(c)
  \/ \E p \in Slots : Wakeup(p) \/ Reap(p)

Spec == Init /\ [][Next]_vars

\* Timer interrupts stay pending while FL_IF is clear and handlers end, and the
\* scheduler loop gets on between two interrupts; user programs owe nothing.
Fairness ==
  \A c \in Cpus : SF_vars(Timer(c)) /\ WF_vars(Handler(c)) /\ SF_vars(Loop(c))

-----------------------------------------------------------------------------
Tick0 == 0 .. TickMod - 1

\* Values of the state; under strategy 1 no quantum is exceeded, and under the
\* others no process survives a timer interrupt.
TypeOK ==
  /\ strategy \in Strategies
  /\ ticks \in Tick0
  /\ state \in [Slots -> {"UNUSED", "EMBRYO", "SLEEPING", "RUNNABLE", "RUNNING", "ZOMBIE"}]
  /\ priority \in [Slots -> Tick0] /\ ctime \in [Slots -> Tick0] /\ rtime \in [Slots -> Tick0]
  /\ queuelevel \in [Slots -> 1 .. 3]
  /\ myquantum \in [Slots -> 0 .. IF strategy = 1 THEN QUANTA ELSE 1]
  /\ onticks \in [Slots -> BOOLEAN]
  /\ np \in [Slots -> Slots \cup {Nil}]
  /\ ptlock \in Cpus \cup {NoCpu}
  /\ cpuproc \in [Cpus -> Slots \cup {Nil}]
  /\ spc \in [Cpus -> {"idle", "scan", "proc", "back"}]
  /\ irq \in [Cpus -> {"none", "wakeup", "account", "yield"}]
  /\ tmp \in [Cpus -> Tick0]
  /\ pos \in [Cpus -> 1 .. NPROC + 1]

\* One CPU is started, so that timer interrupts are ticks, and ticks does not wrap.
OneTimer == Builds[strategy].cpus \subseteq {Cpu0} /\ Builds[strategy].ticks < TickMod

\* There, a process that does not call exec, which restarts its age, is never charged
\* more ticks than it has existed for: wait22's etime - ctime - rtime is not negative.
ChargedWithinAge ==
  OneTimer /\ "exec" \notin Builds[strategy].ops =>
    \A p \in Slots : state[p] # "UNUSED" => rtime[p] <= Sub(ticks, ctime[p])

\* Under round robin every process that is RUNNABLE is eventually run.
EveryoneRuns == \A p \in Slots : strategy = 1 /\ state[p] = "RUNNABLE" ~> state[p] = "RUNNING"
=============================================================================
