------------------------------ MODULE ProcTable ------------------------------
(***************************************************************************)
(* The life of a process: proc.c's process table under ptable.lock, the    *)
(* hand-over of that lock across swtch between a CPU's scheduler loop and  *)
(* the kernel threads, sleep/wakeup with the timer and sys_sleep as the    *)
(* client, and the trap-level checks of proc->killed.                      *)
(*                                                                         *)
(* A step is the code between two points where another CPU or an interrupt *)
(* can be noticed: a critical section of ptable.lock or of tickslock, or   *)
(* one unlocked update.  Which RUNNABLE process a scheduler picks is left  *)
(* open here (module Scheduler has the four policies), and the tick count  *)
(* is represented by what sys_sleep computes from it, the ticks a sleeper  *)
(* has left.                                                               *)
(***************************************************************************)
EXTENDS Integers, FiniteSets

CONSTANTS
  NPROC,         \* slots of ptable.proc
  Cpus,          \* the processors
  Cpu0,          \* the one whose timer advances ticks
  NoCpu,         \* a lock's holder when it is free
  QUANTA,        \* timer interrupts per dispatch (strategies 2 to 4 act as 1)
  MaxPid,        \* bound: fork is called only until nextpid exceeds it
  MaxSleep,      \* bound: argument of sys_sleep
  UserCalls,     \* the system calls user programs make
  KillPids,      \* arguments of sys_kill
  AllocMayFail,  \* kalloc and copyuvm may run out of memory
  InitMayDie     \* init may call exit or fault

ASSUME NPROCAssumption == NPROC \in Nat /\ NPROC >= 1
ASSUME CpusAssumption == Cpu0 \in Cpus /\ NoCpu \notin Cpus
ASSUME BoundsAssumption ==
  QUANTA \in Nat \ {0} /\ MaxPid \in Nat \ {0} /\ MaxSleep \in Nat /\ KillPids \subseteq Nat
ASSUME SwitchAssumption ==
  /\ UserCalls \subseteq {"fork", "exit", "wait", "kill", "sleep"}
  /\ AllocMayFail \in BOOLEAN
  /\ InitMayDie \in BOOLEAN

Slots == 1 .. NPROC
Nil == 0                  \* a null struct proc*
INIT == 1                 \* initproc: userinit takes the first slot
TICKS == NPROC + 1        \* the address of ticks as a sleep channel

VARIABLES
  state, pid, parent, chan, killed, kstack, myquantum,  \* fields of struct proc
  nextpid,
  ptlock, tickslock,      \* the CPU holding ptable.lock, tickslock
  cpuproc,                \* proc, the per-CPU current process
  spc,                    \* each CPU: in the scheduler loop without ("idle") or
                          \* with ("scan") ptable.lock, running a process
                          \* ("proc"), in swtch back to the loop ("back"), or
                          \* stopped in panic
  irq,                    \* each CPU's progress through a timer interrupt
  ctx,                    \* where swtch resumes a process ("run": it is running)
  pc,                     \* the process's place in the kernel ("user": outside)
  child,                  \* fork's np
  left                    \* sys_sleep: ticks until ticks - ticks0 >= n

procvars == <<state, pid, parent, chan, killed, kstack, myquantum, nextpid>>
cpuvars == <<cpuproc, spc, irq>>
threadvars == <<ctx, pc, child, left>>
vars == <<procvars, ptlock, tickslock, cpuvars, threadvars>>

PState == {"UNUSED", "EMBRYO", "SLEEPING", "RUNNABLE", "RUNNING", "ZOMBIE"}
Syscalls == {"fork", "exit", "wait", "kill", "sleep"}
PC == Syscalls \cup {"user", "ret", "kstack", "copyuvm", "setrunnable",
                     "waitloop", "check", "sleeping", "reacquire", "die"}

Free(lock) == lock = NoCpu
First(q, S) == q \in S /\ \A r \in S : q <= r
Set(f, x, v) == [f EXCEPT ![x] = v]

\* CPU c executes its current process at a point of the kernel.
Exec(c, at) ==
  /\ spc[c] = "proc" /\ irq[c] = "none"
  /\ ctx[cpuproc[c]] = "run" /\ pc[cpuproc[c]] = at

\* Interrupts are enabled: c holds no lock, and is neither in a handler nor in
\* an exit called from one.
IntrOn(c) ==
  /\ spc[c] \in {"idle", "proc"} /\ irq[c] = "none" /\ ptlock # c /\ tickslock # c
  /\ spc[c] = "proc" => pc[cpuproc[c]] # "die"

-----------------------------------------------------------------------------
\* userinit: the first slot is RUNNABLE with pid 1, and all else is zero.
Init ==
  /\ state = [p \in Slots |-> IF p = INIT THEN "RUNNABLE" ELSE "UNUSED"]
  /\ pid = [p \in Slots |-> IF p = INIT THEN 1 ELSE 0]
  /\ parent = [p \in Slots |-> Nil]
  /\ chan = [p \in Slots |-> 0]
  /\ killed = [p \in Slots |-> FALSE]
  /\ kstack = [p \in Slots |-> p = INIT]
  /\ myquantum = [p \in Slots |-> 0]
  /\ nextpid = 2
  /\ ptlock = NoCpu /\ tickslock = NoCpu
  /\ cpuproc = [c \in Cpus |-> Nil]
  /\ spc = [c \in Cpus |-> "idle"]
  /\ irq = [c \in Cpus |-> "none"]
  /\ ctx = [p \in Slots |-> "forkret"]
  /\ pc = [p \in Slots |-> "user"]
  /\ child = [p \in Slots |-> Nil]
  /\ left = [p \in Slots |-> 0]

\* wakeup1(ch), applied to process states st.
Wakeup1_OnlyOne(st, ch) ==
  [q \in Slots |-> IF First(q, {r \in Slots : st[r] = "SLEEPING" /\ chan[r] = ch})
                   THEN "RUNNABLE" ELSE st[q]]
Wakeup1(st, ch) ==
  [q \in Slots |-> IF st[q] = "SLEEPING" /\ chan[q] = ch THEN "RUNNABLE" ELSE st[q]]

\* sched(): the process saves its context and its CPU goes back to the
\* scheduler loop, which inherits ptable.lock.
Sched_Unlocked(c, saved) ==
  /\ spc' = Set(spc, c, "back")
  /\ ctx' = Set(ctx, cpuproc[c], saved)
  /\ ptlock' = NoCpu
Sched(c, saved) ==
  /\ spc' = Set(spc, c, "back")
  /\ ctx' = Set(ctx, cpuproc[c], saved)
  /\ ptlock' = c

-----------------------------------------------------------------------------
(* trap(): entering and leaving system calls, and faults.                  *)

\* T_SYSCALL: a killed process exits instead.
Syscall(c, call) ==
  LET p == cpuproc[c] IN
  /\ Exec(c, "user")
  /\ call = "exit" /\ p = INIT => InitMayDie
  /\ call = "fork" => nextpid <= MaxPid
  /\ pc' = Set(pc, p, IF killed[p] THEN "exit" ELSE call)
  /\ UNCHANGED <<procvars, ptlock, tickslock, cpuvars, ctx, child, left>>

\* After syscall(): exit if killed meanwhile, else back to user space.
SyscallReturn(c) ==
  LET p == cpuproc[c] IN
  /\ Exec(c, "ret")
  /\ pc' = Set(pc, p, IF killed[p] THEN "exit" ELSE "user")
  /\ UNCHANGED <<procvars, ptlock, tickslock, cpuvars, ctx, child, left>>

\* The default case, in user space: kill the process, which exits.
Fault(c) ==
  LET p == cpuproc[c] IN
  /\ Exec(c, "user")
  /\ p = INIT => InitMayDie
  /\ killed' = Set(killed, p, TRUE)
  /\ pc' = Set(pc, p, "die")
  /\ UNCHANGED <<state, pid, parent, chan, kstack, myquantum, nextpid,
                 ptlock, tickslock, cpuvars, ctx, child, left>>

-----------------------------------------------------------------------------
(* fork()                                                                  *)

\* allocproc, under ptable.lock: claim the first UNUSED slot, or fail.
ForkAlloc(c) ==
  LET p == cpuproc[c]
      unused == {q \in Slots : state[q] = "UNUSED"} IN
  /\ Exec(c, "fork") /\ Free(ptlock)
  /\ \/ /\ unused = {}
        /\ pc' = Set(pc, p, "ret")
        /\ UNCHANGED <<state, pid, myquantum, nextpid, child>>
     \/ \E np \in unused :
          /\ First(np, unused)
          /\ state' = Set(state, np, "EMBRYO")
          /\ pid' = Set(pid, np, nextpid)
          /\ nextpid' = nextpid + 1
          /\ myquantum' = Set(myquantum, np, 0)
          /\ child' = Set(child, p, np)
          /\ pc' = Set(pc, p, "kstack")
  /\ UNCHANGED <<parent, chan, killed, kstack, ptlock, tickslock, cpuvars, ctx, left>>

\* fork gives up on np, without ptable.lock and leaving np->pid behind.
ForkFail(p) ==
  /\ AllocMayFail
  /\ kstack' = Set(kstack, child[p], FALSE)
  /\ state' = Set(state, child[p], "UNUSED")
  /\ child' = Set(child, p, Nil)
  /\ pc' = Set(pc, p, "ret")
  /\ UNCHANGED <<parent, ctx>>

\* allocproc: kalloc the kernel stack, whose context starts at forkret.
ForkKstack(c) ==
  LET p == cpuproc[c] IN
  /\ Exec(c, "kstack")
  /\ \/ ForkFail(p)
     \/ /\ kstack' = Set(kstack, child[p], TRUE)
        /\ ctx' = Set(ctx, child[p], "forkret")
        /\ pc' = Set(pc, p, "copyuvm")
        /\ UNCHANGED <<state, parent, child>>
  /\ UNCHANGED <<pid, chan, killed, myquantum, nextpid, ptlock, tickslock, cpuvars, left>>

\* fork: copyuvm, and then everything up to the second acquire.
ForkCopy(c) ==
  LET p == cpuproc[c] IN
  /\ Exec(c, "copyuvm")
  /\ \/ ForkFail(p)
     \/ /\ parent' = Set(parent, child[p], p)
        /\ pc' = [pc EXCEPT ![p] = "setrunnable", ![child[p]] = "user"]
        /\ UNCHANGED <<state, kstack, ctx, child>>
  /\ UNCHANGED <<pid, chan, killed, myquantum, nextpid, ptlock, tickslock, cpuvars, left>>

\* fork: np->state = RUNNABLE, under ptable.lock.
ForkRunnable(c) ==
  LET p == cpuproc[c] IN
  /\ Exec(c, "setrunnable") /\ Free(ptlock)
  /\ state' = Set(state, child[p], "RUNNABLE")
  /\ child' = Set(child, p, Nil)
  /\ pc' = Set(pc, p, "ret")
  /\ UNCHANGED <<pid, parent, chan, killed, kstack, myquantum, nextpid,
                 ptlock, tickslock, cpuvars, ctx, left>>

-----------------------------------------------------------------------------
(* exit() and wait()                                                       *)

\* exit: pass p's children to init.
Reparent(p) == [q \in Slots |-> IF parent[q] = p THEN INIT ELSE parent[q]]

\* exit: wake the parent, and init too if it inherits a zombie.
ExitWakeups_None(p) == state
ExitWakeups_InitOnly(p) == Wakeup1(state, INIT)
ExitWakeups(p) ==
  LET woken == Wakeup1(state, parent[p]) IN
  IF \E q \in Slots : parent[q] = p /\ state[q] = "ZOMBIE" THEN Wakeup1(woken, INIT) ELSE woken

\* exit: hand over the children, become a zombie, and sched.
Exit(c) ==
  LET p == cpuproc[c] IN
  /\ Exec(c, "exit") \/ Exec(c, "die")
  /\ IF p = INIT
     THEN spc' = Set(spc, c, "panic") /\ UNCHANGED <<state, parent, ctx, ptlock>>
     ELSE /\ Free(ptlock)
          /\ parent' = Reparent(p)
          /\ state' = Set(ExitWakeups(p), p, "ZOMBIE")
          /\ Sched(c, "exit")
  /\ UNCHANGED <<pid, chan, killed, kstack, myquantum, nextpid, tickslock,
                 cpuproc, irq, pc, child, left>>

\* wait: free the zombie q.
Reap_KeepKilled(q) ==
  /\ kstack' = Set(kstack, q, FALSE)
  /\ pid' = Set(pid, q, 0)
  /\ parent' = Set(parent, q, Nil)
  /\ state' = Set(state, q, "UNUSED")
  /\ UNCHANGED killed
Reap(q) ==
  /\ kstack' = Set(kstack, q, FALSE)
  /\ pid' = Set(pid, q, 0)
  /\ parent' = Set(parent, q, Nil)
  /\ killed' = Set(killed, q, FALSE)
  /\ state' = Set(state, q, "UNUSED")

\* wait's loop body, holding ptable.lock: reap the first zombie child, or
\* return -1, or sleep on its own address keeping the lock.
Wait(c) ==
  LET p == cpuproc[c]
      kids == {q \in Slots : parent[q] = p}
      zombies == {q \in kids : state[q] = "ZOMBIE"} IN
  /\ (Exec(c, "wait") /\ Free(ptlock)) \/ Exec(c, "waitloop")
  /\ \/ \E q \in zombies :
          /\ First(q, zombies)
          /\ Reap(q)
          /\ ptlock' = NoCpu
          /\ pc' = Set(pc, p, "ret")
          /\ UNCHANGED <<chan, spc, ctx>>
     \/ /\ zombies = {} /\ (kids = {} \/ killed[p])
        /\ ptlock' = NoCpu
        /\ pc' = Set(pc, p, "ret")
        /\ UNCHANGED <<state, pid, parent, chan, killed, kstack, spc, ctx>>
     \/ /\ zombies = {} /\ kids # {} /\ ~killed[p]
        /\ chan' = Set(chan, p, p)
        /\ state' = Set(state, p, "SLEEPING")
        /\ pc' = Set(pc, p, "waitloop")
        /\ Sched(c, "sleep")
        /\ UNCHANGED <<pid, parent, killed, kstack>>
  /\ UNCHANGED <<myquantum, nextpid, tickslock, cpuproc, irq, child, left>>

\* kill: a sleeping victim is woken.
KillWakes(q) == IF state[q] = "SLEEPING" THEN Set(state, q, "RUNNABLE") ELSE state

\* kill: mark the first slot with that pid, whatever its state.
Kill(c) ==
  LET p == cpuproc[c] IN
  /\ Exec(c, "kill") /\ Free(ptlock)
  /\ \E target \in KillPids :
       LET match == {q \in Slots : pid[q] = target} IN
       \/ match = {} /\ UNCHANGED <<state, killed>>
       \/ \E q \in match :
            /\ First(q, match)
            /\ killed' = Set(killed, q, TRUE)
            /\ state' = KillWakes(q)
  /\ pc' = Set(pc, p, "ret")
  /\ UNCHANGED <<pid, parent, chan, kstack, myquantum, nextpid,
                 ptlock, tickslock, cpuvars, ctx, child, left>>

-----------------------------------------------------------------------------
(* sys_sleep(), the client of sleep(&ticks, &tickslock)                    *)

\* acquire(&tickslock); ticks0 = ticks.
SleepStart(c) ==
  LET p == cpuproc[c] IN
  /\ Exec(c, "sleep") /\ Free(tickslock)
  /\ tickslock' = c
  /\ \E n \in 0 .. MaxSleep : left' = Set(left, p, n)
  /\ pc' = Set(pc, p, "check")
  /\ UNCHANGED <<procvars, ptlock, cpuvars, ctx, child>>

\* The while condition and the test of proc->killed, holding tickslock.
SleepDone(p) == left[p] = 0 \/ killed[p]
SleepCheck(c) ==
  LET p == cpuproc[c] IN
  /\ Exec(c, "check")
  /\ tickslock' = IF SleepDone(p) THEN NoCpu ELSE tickslock
  /\ left' = IF SleepDone(p) THEN Set(left, p, 0) ELSE left
  /\ pc' = Set(pc, p, IF SleepDone(p) THEN "ret" ELSE "sleeping")
  /\ UNCHANGED <<procvars, ptlock, cpuvars, ctx, child>>

\* sleep: take ptable.lock, release lk, and sched.
SleepLk(c) == NoCpu
Sleep(c) ==
  LET p == cpuproc[c] IN
  /\ Exec(c, "sleeping") /\ Free(ptlock)
  /\ tickslock' = SleepLk(c)
  /\ chan' = Set(chan, p, TICKS)
  /\ state' = Set(state, p, "SLEEPING")
  /\ pc' = Set(pc, p, "reacquire")
  /\ Sched(c, "sleep")
  /\ UNCHANGED <<pid, parent, killed, kstack, myquantum, nextpid, cpuproc, irq,
                 child, left>>

\* sleep, back from sched: tidy up, and drop ptable.lock unless it is lk.
SleepResume(c) ==
  LET p == cpuproc[c] IN
  /\ spc[c] = "proc" /\ ctx[p] = "sleep"
  /\ ctx' = Set(ctx, p, "run")
  /\ chan' = Set(chan, p, 0)
  /\ ptlock' = IF pc[p] = "waitloop" THEN ptlock ELSE NoCpu
  /\ UNCHANGED <<state, pid, parent, killed, kstack, myquantum, nextpid,
                 tickslock, cpuvars, pc, child, left>>

\* sleep: acquire(lk), back to sys_sleep's loop.
SleepReacquire(c) ==
  LET p == cpuproc[c] IN
  /\ Exec(c, "reacquire") /\ Free(tickslock)
  /\ tickslock' = c
  /\ pc' = Set(pc, p, "check")
  /\ UNCHANGED <<procvars, ptlock, cpuvars, ctx, child, left>>

-----------------------------------------------------------------------------
(* trap(): the timer interrupt                                             *)

\* acquire(&tickslock); ticks++, on CPU 0 only.
Tick(c) ==
  /\ IntrOn(c) /\ c = Cpu0 /\ Free(tickslock)
  /\ tickslock' = c
  /\ left' = [p \in Slots |-> IF left[p] > 0 THEN left[p] - 1 ELSE 0]
  /\ irq' = Set(irq, c, "wakeup")
  /\ UNCHANGED <<procvars, ptlock, cpuproc, spc, ctx, pc, child>>

\* wakeup(&ticks); release(&tickslock).
TickWakeup(c) ==
  /\ irq[c] = "wakeup" /\ Free(ptlock)
  /\ state' = Wakeup1(state, TICKS)
  /\ tickslock' = NoCpu
  /\ irq' = Set(irq, c, "account")
  /\ UNCHANGED <<pid, parent, chan, killed, kstack, myquantum, nextpid, ptlock,
                 cpuproc, spc, threadvars>>

\* The other CPUs' timers only charge the running process.
TimerOther(c) ==
  /\ IntrOn(c) /\ c # Cpu0
  /\ irq' = Set(irq, c, "account")
  /\ UNCHANGED <<procvars, ptlock, tickslock, cpuproc, spc, threadvars>>

\* The test that ends a quantum.
QuantumSpent(n) == n = QUANTA

\* trap forces p to exit when it has interrupted user space.
DiesInUser_Never(p) == FALSE
DiesInUser(p) == killed[p] /\ pc[p] = "user"

\* proc->myquantum++; then exit if killed in user space, or decide to yield.
TimerAccount(c) ==
  LET p == cpuproc[c]
      charged == p # Nil /\ state[p] = "RUNNING"
      dies == p # Nil /\ DiesInUser(p) IN
  /\ irq[c] = "account"
  /\ myquantum' = IF charged THEN [myquantum EXCEPT ![p] = @ + 1] ELSE myquantum
  /\ pc' = IF dies THEN Set(pc, p, "die") ELSE pc
  /\ irq' = Set(irq, c, IF charged /\ ~dies /\ QuantumSpent(myquantum'[p]) THEN "yield" ELSE "none")
  /\ UNCHANGED <<state, pid, parent, chan, killed, kstack, nextpid, ptlock, tickslock,
                 cpuproc, spc, ctx, child, left>>

\* yield: RUNNABLE again, and sched.
Yield(c) ==
  /\ irq[c] = "yield" /\ Free(ptlock)
  /\ state' = Set(state, cpuproc[c], "RUNNABLE")
  /\ irq' = Set(irq, c, "none")
  /\ Sched(c, "yield")
  /\ UNCHANGED <<pid, parent, chan, killed, kstack, myquantum, nextpid, tickslock,
                 cpuproc, pc, child, left>>

\* yield, back from sched: release, and trap's last test of proc->killed.
YieldResume(c) ==
  LET p == cpuproc[c] IN
  /\ spc[c] = "proc" /\ ctx[p] = "yield"
  /\ ctx' = Set(ctx, p, "run")
  /\ ptlock' = NoCpu
  /\ pc' = IF DiesInUser(p) THEN Set(pc, p, "die") ELSE pc
  /\ UNCHANGED <<procvars, tickslock, cpuvars, child, left>>

\* forkret: a new process releases the scheduler's lock and enters user space.
Forkret(c) ==
  LET p == cpuproc[c] IN
  /\ spc[c] = "proc" /\ ctx[p] = "forkret"
  /\ ctx' = Set(ctx, p, "run")
  /\ ptlock' = NoCpu
  /\ UNCHANGED <<procvars, tickslock, cpuvars, pc, child, left>>

-----------------------------------------------------------------------------
(* scheduler()                                                             *)

\* acquire(&ptable.lock) at the top of the loop.
SchedAcquire(c) ==
  /\ spc[c] = "idle" /\ irq[c] = "none" /\ Free(ptlock)
  /\ ptlock' = c
  /\ spc' = Set(spc, c, "scan")
  /\ UNCHANGED <<procvars, tickslock, cpuproc, irq, threadvars>>

\* The policy picks a RUNNABLE process; swtch to it, lock and all.
Dispatch(c, p) ==
  /\ spc[c] = "scan"
  /\ state[p] = "RUNNABLE"
  /\ cpuproc' = Set(cpuproc, c, p)
  /\ myquantum' = Set(myquantum, p, 0)
  /\ state' = Set(state, p, "RUNNING")
  /\ spc' = Set(spc, c, "proc")
  /\ UNCHANGED <<pid, parent, chan, killed, kstack, nextpid, ptlock, tickslock,
                 irq, threadvars>>

\* swtch has returned to the scheduler: proc = 0.
SchedBack(c) ==
  /\ spc[c] = "back"
  /\ cpuproc' = Set(cpuproc, c, Nil)
  /\ spc' = Set(spc, c, "scan")
  /\ UNCHANGED <<procvars, ptlock, tickslock, irq, threadvars>>

\* The pass over the table is over (or found nobody): release.
SchedRelease(c) ==
  /\ spc[c] = "scan"
  /\ ptlock' = NoCpu
  /\ spc' = Set(spc, c, "idle")
  /\ UNCHANGED <<procvars, tickslock, cpuproc, irq, threadvars>>

-----------------------------------------------------------------------------
\* The current process executes kernel code.
InKernel(c) ==
  \/ SyscallReturn(c) \/ ForkAlloc(c) \/ ForkKstack(c) \/ ForkCopy(c) \/ ForkRunnable(c)
  \/ Exit(c) \/ Wait(c) \/ Kill(c)
  \/ SleepStart(c) \/ SleepCheck(c) \/ Sleep(c) \/ SleepReacquire(c)

\* The current process comes out of swtch.
Resume(c) == SleepResume(c) \/ YieldResume(c) \/ Forkret(c)

\* The timer handler, from its wakeup to its yield.
Handler(c) == TickWakeup(c) \/ TimerAccount(c) \/ Yield(c)

\* The steps of the scheduler loop that are the same for every policy.
Loop(c) == SchedAcquire(c) \/ SchedBack(c)

User(c) == Fault(c) \/ \E call \in UserCalls : Syscall(c, call)

Timer(c) == Tick(c) \/ TimerOther(c)

\* panic() disables interrupts and spins for ever.
Panic(c) == spc[c] = "panic" /\ UNCHANGED vars

Next == \E c \in Cpus :
  \/ InKernel(c) \/ Resume(c) \/ Handler(c) \/ Loop(c)
  \/ User(c) \/ Timer(c) \/ SchedRelease(c)
  \/ \E p \in Slots : Dispatch(c, p)
  \/ Panic(c)

Spec == Init /\ [][Next]_vars

\* For one processor, where no lock is contended.  The timer keeps
\* interrupting: an interrupt that finds FL_IF clear stays pending until it is set
\* (strong fairness of Timer).  But a tick is long: the handler ends, and the
\* interrupted code is not interrupted before every one of its steps (strong
\* fairness of the steps that interrupts can pre-empt).  The policy picks every
\* process that is RUNNABLE again and again, as strategies 1 and 2 do (see
\* Scheduler).
FairSpec ==
  /\ Spec
  /\ \A c \in Cpus :
       /\ SF_vars(Timer(c)) /\ WF_vars(Handler(c)) /\ WF_vars(Resume(c))
       /\ SF_vars(Loop(c)) /\ WF_vars(SchedRelease(c))
       /\ \A p \in Slots : SF_vars(cpuproc[c] = p /\ InKernel(c)) /\ SF_vars(Dispatch(c, p))

-----------------------------------------------------------------------------
\* Values of the state, and no process used up more than its quantum.
TypeOK ==
  /\ state \in [Slots -> PState]
  /\ pid \in [Slots -> Nat]
  /\ parent \in [Slots -> Slots \cup {Nil}]
  /\ chan \in [Slots -> 0 .. TICKS]
  /\ killed \in [Slots -> BOOLEAN]
  /\ kstack \in [Slots -> BOOLEAN]
  /\ myquantum \in [Slots -> 0 .. QUANTA]
  /\ nextpid \in Nat
  /\ ptlock \in Cpus \cup {NoCpu}
  /\ tickslock \in Cpus \cup {NoCpu}
  /\ cpuproc \in [Cpus -> Slots \cup {Nil}]
  /\ spc \in [Cpus -> {"idle", "scan", "proc", "back", "panic"}]
  /\ irq \in [Cpus -> {"none", "wakeup", "account", "yield"}]
  /\ ctx \in [Slots -> {"forkret", "run", "yield", "sleep", "exit"}]
  /\ pc \in [Slots -> PC]
  /\ child \in [Slots -> Slots \cup {Nil}]
  /\ left \in [Slots -> 0 .. MaxSleep]

\* sched's panics: a CPU enters the scheduler holding ptable.lock, and only it.
SchedHoldsOnlyPtable ==
  \A c \in Cpus : spc[c] \in {"scan", "back"} => ptlock = c /\ tickslock # c

\* A process is RUNNING exactly while a CPU executes it, and no two CPUs are on
\* one process's stack: neither executing it nor still switching away from it, since
\* ptable.lock, and no other, is held from before sched's swtch until after it.
RunningOnOneCpu ==
  /\ TypeOK /\ SchedHoldsOnlyPtable
  /\ \A p \in Slots :
       state[p] = "RUNNING" <=> \E c \in Cpus : spc[c] \in {"proc", "panic"} /\ cpuproc[c] = p
  /\ \A c, d \in Cpus : cpuproc[c] = cpuproc[d] /\ cpuproc[c] # Nil => c = d

\* wait never frees a kernel stack that a CPU still stands on, although exit
\* makes the process a zombie before sched leaves that stack.
NoStackFreedInUse ==
  \A c \in Cpus : cpuproc[c] # Nil => kstack[cpuproc[c]]

\* Every process but init has a parent that can still call wait for it: exit
\* leaves no child behind with a dead parent.
ReaperExists ==
  \A p \in Slots :
    /\ p # INIT /\ state[p] \notin {"UNUSED", "EMBRYO"} => parent[p] # Nil
    /\ parent[p] # Nil => state[parent[p]] \in {"RUNNABLE", "RUNNING", "SLEEPING"}

\* Every zombie will be found: a process asleep in wait has a child to wait for, none of
\* its children is a zombie, and no kill is pending, so neither an exit nor a kill was
\* missed; and exit passes children on to somebody who can still wait.
NoMissedExit ==
  /\ ReaperExists
  /\ \A p \in Slots : state[p] = "SLEEPING" /\ chan[p] = p =>
       /\ ~killed[p]
       /\ \E q \in Slots : parent[q] = p
       /\ \A q \in Slots : parent[q] = p => state[q] # "ZOMBIE"

\* A free slot is not marked killed, so that nobody is killed from birth, unless the pid of
\* a failed fork is still in it: fork and allocproc give the slot back without clearing the
\* pid, and kill looks for a pid whatever the slot's state (so that kill(0) marks the first
\* slot that is free).
FreeSlotsUnmarked ==
  \A p \in Slots : state[p] = "UNUSED" /\ killed[p] => pid[p] # 0 \/ 0 \in KillPids

\* sys_sleep returns.
SleepReturns ==
  \A p \in Slots : pc[p] \in {"check", "sleeping", "reacquire"} ~> pc[p] = "ret"

\* A killed process exits, wherever it was ("won't exit until it returns to user
\* space", which it does).
KilledDies ==
  \A p \in Slots \ {INIT} :
    killed[p] /\ state[p] \in {"RUNNABLE", "RUNNING", "SLEEPING"} ~> state[p] = "ZOMBIE"

\* A process that waits with an exited child is not left waiting.
WaitReturns ==
  \A p \in Slots :
    pc[p] \in {"wait", "waitloop"} /\ (\E q \in Slots : parent[q] = p /\ state[q] = "ZOMBIE")
      ~> pc[p] = "ret"
=============================================================================
