--------------------------- MODULE ProcTableProofs ---------------------------
(***************************************************************************)
(* The invariants of ProcTable for any table size, any processors and any  *)
(* policy.  IInv says who holds ptable.lock at every point between a       *)
(* process's sched and the place where another thread comes out of swtch,  *)
(* where swtch will resume each process, and what fork has set up so far.  *)
(***************************************************************************)
EXTENDS ProcTable, TLAPS

Live == {"RUNNABLE", "RUNNING", "SLEEPING"}

\* The places inside fork at which np is an EMBRYO.
Forking == {"kstack", "copyuvm", "setrunnable"}

\* ptable.lock is a CPU's from sched or the top of the scheduler loop until the
\* process that swtch resumes releases it, which wait does only when it is done.
PtLockInv(c) == ptlock = c <=>
  \/ spc[c] \in {"scan", "back"}
  \/ spc[c] = "proc" /\ (ctx[cpuproc[c]] # "run" \/ pc[cpuproc[c]] = "waitloop")

\* tickslock is held by the timer's handler and by sys_sleep around its test.
TicksLockInv(c) == tickslock = c <=>
  irq[c] = "wakeup" \/ (spc[c] = "proc" /\ pc[cpuproc[c]] \in {"check", "sleeping"})

\* What a CPU does, and the process it does it for.
CpuInv(c) ==
  /\ spc[c] \in {"idle", "scan"} <=> cpuproc[c] = Nil
  /\ spc[c] \in {"proc", "panic"} => state[cpuproc[c]] = "RUNNING"
  /\ spc[c] = "back" => state[cpuproc[c]] \in {"RUNNABLE", "SLEEPING", "ZOMBIE"}
  /\ \A d \in Cpus : cpuproc[c] = cpuproc[d] /\ cpuproc[c] # Nil => c = d

\* Only a CPU that holds no lock is interrupted, so the handler may yield; and a
\* process is not charged beyond its quantum.
IrqInv(c) ==
  /\ irq[c] # "none" => spc[c] \in {"idle", "proc"}
  /\ irq[c] = "yield" => spc[c] = "proc"
  /\ irq[c] # "none" /\ spc[c] = "proc" =>
       ctx[cpuproc[c]] = "run" /\ pc[cpuproc[c]] \notin {"waitloop", "check", "sleeping", "die"}
  /\ spc[c] = "proc" =>
       myquantum[cpuproc[c]] < QUANTA \/ irq[c] = "yield" \/ pc[cpuproc[c]] = "die"

\* Where swtch will resume a process agrees with its state, and a process that is
\* not running stands at a place where the lock it holds is ptable.lock at most.
CtxInv(p) ==
  /\ state[p] = "RUNNING" => \E c \in Cpus : spc[c] \in {"proc", "panic"} /\ cpuproc[c] = p
  /\ state[p] \in {"RUNNABLE", "SLEEPING"} => ctx[p] # "run" /\ pc[p] \notin {"check", "sleeping"}
  /\ state[p] \in {"RUNNABLE", "RUNNING"} /\ ctx[p] \in {"yield", "forkret"} => pc[p] # "waitloop"
  /\ state[p] = "SLEEPING" => ctx[p] = "sleep"

\* A slot's resources and marks.
SlotInv(p) ==
  /\ state[p] \notin {"UNUSED", "EMBRYO"} => kstack[p]
  /\ state[p] = "EMBRYO" => pid[p] # 0
  /\ state[p] = "UNUSED" => parent[p] = Nil
  /\ state[p] = "UNUSED" /\ killed[p] => pid[p] # 0 \/ 0 \in KillPids

\* fork's np is nobody else's, and set up as far as fork has come.
ForkInv(p) == pc[p] \in Forking =>
  /\ state[p] \in {"RUNNABLE", "RUNNING"}
  /\ child[p] \in Slots /\ state[child[p]] = "EMBRYO"
  /\ \A q \in Slots : pc[q] \in Forking /\ child[q] = child[p] => q = p
  /\ pc[p] \in {"kstack", "copyuvm"} => parent[child[p]] = Nil
  /\ pc[p] \in {"copyuvm", "setrunnable"} => kstack[child[p]] /\ ctx[child[p]] = "forkret"
  /\ pc[p] = "setrunnable" => parent[child[p]] = p /\ pc[child[p]] = "user"

\* Who can still wait for whom, and who sleeps in wait.
WaitInv(p) ==
  /\ parent[p] # p /\ (p = INIT => parent[p] = Nil)
  /\ p # INIT /\ state[p] \notin {"UNUSED", "EMBRYO"} => parent[p] # Nil
  /\ parent[p] # Nil => state[parent[p]] \in Live
  /\ state[p] = "SLEEPING" /\ chan[p] = p =>
       /\ ~killed[p]
       /\ \E q \in Slots : parent[q] = p
       /\ \A q \in Slots : parent[q] = p => state[q] # "ZOMBIE"

IInv ==
  /\ TypeOK /\ nextpid # 0 /\ state[INIT] \in Live
  /\ \A c \in Cpus : PtLockInv(c) /\ TicksLockInv(c) /\ CpuInv(c) /\ IrqInv(c)
  /\ \A p \in Slots : CtxInv(p) /\ SlotInv(p) /\ ForkInv(p) /\ WaitInv(p)

-----------------------------------------------------------------------------
(* Facts that the proofs of the steps share.                               *)

\* Null is no slot, and init's is one.
LEMMA SlotFacts == Nil \notin Slots /\ INIT \in Slots /\ TICKS \notin Slots
BY NPROCAssumption DEF Nil, INIT, TICKS, Slots

\* A process that a CPU stands on is in nobody else's hands.
LEMMA OnCpu ==
  ASSUME IInv, NEW c \in Cpus, cpuproc[c] # Nil
  PROVE  /\ cpuproc[c] \in Slots /\ spc[c] \in {"proc", "back", "panic"}
         /\ state[cpuproc[c]] \notin {"UNUSED", "EMBRYO"}
         /\ \A d \in Cpus : cpuproc[d] = cpuproc[c] => d = c
<1>1. CpuInv(c) /\ spc[c] \in {"idle", "scan", "proc", "back", "panic"}
  BY Zenon DEF IInv, TypeOK
<1>2. cpuproc[c] \in Slots
  BY ZenonT(60) DEF IInv, TypeOK
<1> QED BY Zenon, <1>1, <1>2 DEF CpuInv

\* The process a CPU executes is RUNNING.
LEMMA Current ==
  ASSUME IInv, NEW c \in Cpus, spc[c] \in {"proc", "panic"}
  PROVE  /\ cpuproc[c] \in Slots /\ cpuproc[c] # Nil /\ state[cpuproc[c]] = "RUNNING"
         /\ \A d \in Cpus : cpuproc[d] = cpuproc[c] => d = c
<1>1. cpuproc[c] # Nil /\ state[cpuproc[c]] = "RUNNING"
  BY Zenon DEF IInv, CpuInv
<1> QED BY Zenon, <1>1, OnCpu

\* The locks and the handler of a CPU d are as they should be after another CPU's step
\* that leaves d, and the processes other CPUs execute, alone.
LEMMA OtherCpus ==
  ASSUME IInv, NEW c \in Cpus, NEW d \in Cpus, d # c,
         spc'[d] = spc[d], irq'[d] = irq[d], cpuproc'[d] = cpuproc[d],
         ptlock' = d <=> ptlock = d, tickslock' = d <=> tickslock = d,
         \A q \in Slots : state[q] = "RUNNING" /\ q # cpuproc[c] =>
           ctx'[q] = ctx[q] /\ pc'[q] = pc[q] /\ myquantum'[q] = myquantum[q]
  PROVE  PtLockInv(d)' /\ TicksLockInv(d)' /\ IrqInv(d)'
<1>1. spc[d] = "proc" => /\ ctx'[cpuproc[d]] = ctx[cpuproc[d]] /\ pc'[cpuproc[d]] = pc[cpuproc[d]]
                         /\ myquantum'[cpuproc[d]] = myquantum[cpuproc[d]]
  BY Zenon, Current
<1>2. PtLockInv(d) /\ TicksLockInv(d) /\ IrqInv(d)
  BY Zenon DEF IInv
<1> QED BY Zenon, <1>1, <1>2 DEF PtLockInv, TicksLockInv, IrqInv

\* CPUs keep their processes: those executed stay RUNNING, and while a CPU switches
\* away from one, which it does with ptable.lock, nobody changes that one's state.
LEMMA CpusKeep ==
  ASSUME IInv, NEW d \in Cpus, spc'[d] = spc[d], cpuproc' = cpuproc,
         cpuproc[d] # Nil /\ state[cpuproc[d]] = "RUNNING" => state'[cpuproc[d]] = "RUNNING",
         cpuproc[d] # Nil /\ ptlock = d => state'[cpuproc[d]] = state[cpuproc[d]]
  PROVE  CpuInv(d)'
<1>1. CpuInv(d) /\ PtLockInv(d)
  BY Zenon DEF IInv
<1> QED BY Zenon, <1>1 DEF CpuInv, PtLockInv, Nil

\* fork's np is safe from a step that neither moves a forking process elsewhere in
\* fork, nor stops it, nor touches its np.
LEMMA ForkFrame ==
  ASSUME \A r \in Slots : ForkInv(r),
         \A r \in Slots : pc'[r] \in Forking /\ pc[r] \in Forking =>
           /\ pc'[r] = pc[r] /\ child'[r] = child[r] /\ state'[r] \in {"RUNNABLE", "RUNNING"}
           /\ parent'[child[r]] = parent[child[r]],
         \A r \in Slots : pc'[r] \in Forking => pc[r] \in Forking,
         \A r \in Slots : state[r] = "EMBRYO" =>
           state'[r] = "EMBRYO" /\ kstack'[r] = kstack[r] /\ ctx'[r] = ctx[r] /\ pc'[r] = pc[r],
         NEW q \in Slots
  PROVE  ForkInv(q)'
BY DEF ForkInv

\* wait's bookkeeping is safe from a step that makes no zombie, kills nobody asleep in
\* wait, and leaves the parents alive.
LEMMA WaitFrame ==
  ASSUME \A r \in Slots : WaitInv(r), parent' = parent,
         parent \in [Slots -> Slots \cup {Nil}],
         \A r \in Slots :
           /\ state'[r] \notin {"UNUSED", "EMBRYO"} =>
                state[r] \notin {"UNUSED", "EMBRYO"} \/ parent[r] # Nil
           /\ state[r] \in Live => state'[r] \in Live
           /\ state'[r] = "SLEEPING" /\ chan'[r] = r =>
                state[r] = "SLEEPING" /\ chan[r] = r /\ killed'[r] = killed[r]
           /\ state'[r] = "ZOMBIE" => state[r] = "ZOMBIE",
         NEW q \in Slots
  PROVE  WaitInv(q)'
BY DEF WaitInv, Nil

\* Where a process that does not move will be resumed.
LEMMA CtxFrame ==
  ASSUME NEW q \in Slots, CtxInv(q), state'[q] = state[q], ctx'[q] = ctx[q], pc'[q] = pc[q],
         \A d \in Cpus : spc[d] \in {"proc", "panic"} /\ cpuproc[d] = q =>
           spc'[d] \in {"proc", "panic"} /\ cpuproc'[d] = q
  PROVE  CtxInv(q)'
BY Zenon DEF CtxInv

\* What a slot that is left alone owns.
LEMMA SlotFrame ==
  ASSUME NEW q \in Slots, SlotInv(q), state'[q] = state[q], kstack'[q] = kstack[q],
         pid'[q] = pid[q], parent'[q] = parent[q], killed'[q] = killed[q]
  PROVE  SlotInv(q)'
BY Zenon DEF SlotInv

\* The np of a process in fork is an EMBRYO slot that is no CPU's, and not init's.
LEMMA NpOf ==
  ASSUME IInv, NEW p \in Slots, pc[p] \in Forking
  PROVE  /\ child[p] \in Slots /\ state[child[p]] = "EMBRYO" /\ pid[child[p]] # 0
         /\ child[p] # p /\ child[p] # INIT /\ pc[child[p]] \notin Forking
         /\ \A q \in Slots : pc[q] \in Forking /\ child[q] = child[p] => q = p
BY Zenon DEF IInv, ForkInv, SlotInv, Live, Forking

-----------------------------------------------------------------------------
(* trap(): entering and leaving system calls, and faults.                  *)

\* A process goes from one place of the kernel or of user space to another that no
\* lock, no handler and no fork depends on.
LEMMA MoveKeeps ==
  ASSUME IInv, NEW c \in Cpus, NEW from, NEW to, Exec(c, from),
         from \in {"user", "ret"}, to \in Syscalls \cup {"user"},
         pc' = Set(pc, cpuproc[c], to),
         UNCHANGED <<procvars, ptlock, tickslock, cpuvars, ctx, child, left>>
  PROVE  IInv'
<1> DEFINE p == cpuproc[c]
<1>1. /\ p \in Slots /\ spc[c] = "proc" /\ irq[c] = "none" /\ ctx[p] = "run" /\ pc[p] = from
      /\ state[p] = "RUNNING"
  BY Zenon, Current DEF Exec
<1>2. UNCHANGED <<state, pid, parent, chan, killed, kstack, myquantum, nextpid, ptlock,
                  tickslock, cpuproc, spc, irq, ctx, child, left>>
  BY Zenon DEF Set, PC, procvars, cpuvars
<1>3. /\ pc' = [pc EXCEPT ![p] = to] /\ to \in PC
  BY Zenon DEF Set, PC, procvars, cpuvars
<1>4. /\ pc'[p] = to /\ to \notin Forking \cup {"waitloop", "check", "sleeping", "die"}
      /\ \A q \in Slots : q # p => pc'[q] = pc[q]
  BY ZenonT(60), <1>1, <1>2, <1>3 DEF IInv, TypeOK, Syscalls, Forking
<1>5. TypeOK' /\ nextpid' # 0 /\ state'[INIT] \in Live
  <2>1. TypeOK'
    <3>1. pc \in [Slots -> PC]
      BY Zenon DEF IInv, TypeOK
    <3>2. pc' \in [Slots -> PC]
      BY Zenon, <1>2, <1>3, <3>1
    <3> QED BY Zenon, <1>2, <1>3, <3>2 DEF IInv, TypeOK
  <2>2. nextpid' # 0 /\ state'[INIT] \in Live
    BY Zenon, <1>2 DEF IInv
  <2> QED BY Zenon, <2>1, <2>2
<1>6. ASSUME NEW d \in Cpus PROVE PtLockInv(d)' /\ TicksLockInv(d)' /\ IrqInv(d)'
  <2>1. CASE d = c
    <3>1. PtLockInv(c) /\ TicksLockInv(c) /\ IrqInv(c)
      BY Zenon DEF IInv
    <3> QED BY Zenon, <1>1, <1>2, <1>4, <2>1, <3>1 DEF PtLockInv, TicksLockInv, IrqInv
  <2>2. CASE d # c
    BY Zenon, <1>1, <1>2, <1>4, <2>2, OtherCpus
  <2> QED BY Zenon, <2>1, <2>2
<1>7. ASSUME NEW d \in Cpus PROVE CpuInv(d)'
  BY Zenon, <1>2, CpusKeep
<1>8. ASSUME NEW q \in Slots PROVE CtxInv(q)'
  BY ZenonT(40), <1>1, <1>2, <1>4, CtxFrame DEF IInv, CtxInv
<1>9. ASSUME NEW q \in Slots PROVE SlotInv(q)'
  BY Zenon, <1>2, SlotFrame DEF IInv
<1>10. ASSUME NEW q \in Slots PROVE ForkInv(q)'
  BY ZenonT(60), <1>1, <1>2, <1>4, ForkFrame DEF IInv, ForkInv, Forking
<1>11. ASSUME NEW q \in Slots PROVE WaitInv(q)'
  BY Zenon, <1>2, WaitFrame DEF IInv, TypeOK
<1> QED
  BY Zenon, <1>5, <1>6, <1>7, <1>8, <1>9, <1>10, <1>11 DEF IInv

\* T_SYSCALL: the process enters a system call, or exit if it is killed.
LEMMA SyscallKeeps ==
  ASSUME IInv, NEW c \in Cpus, NEW call \in UserCalls, Syscall(c, call)
  PROVE  IInv'
BY Zenon, MoveKeeps, SwitchAssumption DEF Syscall, Syscalls

\* The end of a system call.
LEMMA SyscallReturnKeeps ==
  ASSUME IInv, NEW c \in Cpus, SyscallReturn(c)
  PROVE  IInv'
BY Zenon, MoveKeeps DEF SyscallReturn, Syscalls

\* A fault in user space marks the process killed and makes it exit.
LEMMA FaultKeeps ==
  ASSUME IInv, NEW c \in Cpus, Fault(c)
  PROVE  IInv'
<1> DEFINE p == cpuproc[c]
<1>1. /\ p \in Slots /\ spc[c] = "proc" /\ irq[c] = "none" /\ ctx[p] = "run" /\ pc[p] = "user"
      /\ state[p] = "RUNNING"
  BY Zenon, Current DEF Exec, Fault
<1>2. UNCHANGED <<state, pid, parent, chan, kstack, myquantum, nextpid, ptlock,
                  tickslock, cpuproc, spc, irq, ctx, child, left>>
  BY Zenon DEF Fault, Set, cpuvars
<1>3. /\ pc' = [pc EXCEPT ![p] = "die"] /\ killed' = [killed EXCEPT ![p] = TRUE]
  BY Zenon DEF Fault, Set, cpuvars
<1>4. /\ pc'[p] = "die"
      /\ \A q \in Slots : q # p => pc'[q] = pc[q] /\ killed'[q] = killed[q]
  BY Zenon, <1>1, <1>2, <1>3 DEF IInv, TypeOK
<1>5. TypeOK' /\ nextpid' # 0 /\ state'[INIT] \in Live
  <2>1. TypeOK'
    BY Zenon, <1>2, <1>3 DEF IInv, TypeOK, PC
  <2>2. nextpid' # 0 /\ state'[INIT] \in Live
    BY Zenon, <1>2 DEF IInv
  <2> QED BY Zenon, <2>1, <2>2
<1>6. ASSUME NEW d \in Cpus PROVE PtLockInv(d)' /\ TicksLockInv(d)' /\ IrqInv(d)'
  <2>1. CASE d = c
    <3>1. PtLockInv(c) /\ TicksLockInv(c) /\ IrqInv(c)
      BY Zenon DEF IInv
    <3> QED BY Zenon, <1>1, <1>2, <1>4, <2>1, <3>1 DEF PtLockInv, TicksLockInv, IrqInv
  <2>2. CASE d # c
    BY Zenon, <1>1, <1>2, <1>4, <2>2, OtherCpus
  <2> QED BY Zenon, <2>1, <2>2
<1>7. ASSUME NEW d \in Cpus PROVE CpuInv(d)'
  BY Zenon, <1>2, CpusKeep
<1>8. ASSUME NEW q \in Slots PROVE CtxInv(q)'
  BY ZenonT(40), <1>1, <1>2, <1>4, CtxFrame DEF IInv, CtxInv
<1>9. ASSUME NEW q \in Slots PROVE SlotInv(q)'
  BY Zenon, <1>1, <1>2, <1>4, SlotFrame DEF IInv, SlotInv
<1>10. ASSUME NEW q \in Slots PROVE ForkInv(q)'
  BY ZenonT(60), <1>1, <1>2, <1>4, ForkFrame DEF IInv, ForkInv, Forking
<1>11. ASSUME NEW q \in Slots PROVE WaitInv(q)'
  BY Zenon, <1>1, <1>2, <1>4, WaitFrame DEF IInv, TypeOK
<1> QED
  BY Zenon, <1>5, <1>6, <1>7, <1>8, <1>9, <1>10, <1>11 DEF IInv

-----------------------------------------------------------------------------
(* fork()                                                                  *)

\* allocproc finds no UNUSED slot.
LEMMA ForkNoneKeeps ==
  ASSUME IInv, NEW c \in Cpus, Exec(c, "fork"),
         pc' = Set(pc, cpuproc[c], "ret"),
         UNCHANGED <<procvars, ptlock, tickslock, cpuvars, ctx, child, left>>
  PROVE  IInv'
<1> DEFINE p == cpuproc[c]
<1>1. /\ p \in Slots /\ spc[c] = "proc" /\ irq[c] = "none" /\ ctx[p] = "run" /\ pc[p] = "fork"
      /\ state[p] = "RUNNING"
  BY Zenon, Current DEF Exec
<1>2. UNCHANGED <<state, pid, parent, chan, killed, kstack, myquantum, nextpid, ptlock,
                  tickslock, cpuproc, spc, irq, ctx, child, left>>
  BY Zenon DEF Set, procvars, cpuvars
<1>3. pc' = [pc EXCEPT ![p] = "ret"]
  BY Zenon DEF Set, procvars, cpuvars
<1>4. /\ pc'[p] = "ret" /\ \A q \in Slots : q # p => pc'[q] = pc[q]
  BY ZenonT(40), <1>1, <1>2, <1>3 DEF IInv, TypeOK
<1>5. TypeOK' /\ nextpid' # 0 /\ state'[INIT] \in Live
  <2>1. TypeOK'
    BY ZenonT(60), <1>2, <1>3 DEF IInv, TypeOK, PC
  <2>2. nextpid' # 0 /\ state'[INIT] \in Live
    BY Zenon, <1>2 DEF IInv
  <2> QED BY Zenon, <2>1, <2>2
<1>6. ASSUME NEW d \in Cpus PROVE PtLockInv(d)' /\ TicksLockInv(d)' /\ IrqInv(d)'
  <2>1. CASE d = c
    <3>1. PtLockInv(c) /\ TicksLockInv(c) /\ IrqInv(c)
      BY Zenon DEF IInv
    <3> QED BY Zenon, <1>1, <1>2, <1>4, <2>1, <3>1 DEF PtLockInv, TicksLockInv, IrqInv
  <2>2. CASE d # c
    BY Zenon, <1>1, <1>2, <1>4, <2>2, OtherCpus
  <2> QED BY Zenon, <2>1, <2>2
<1>7. ASSUME NEW d \in Cpus PROVE CpuInv(d)'
  BY Zenon, <1>2, CpusKeep
<1>8. ASSUME NEW q \in Slots PROVE CtxInv(q)'
  BY ZenonT(40), <1>1, <1>2, <1>4, CtxFrame DEF IInv, CtxInv
<1>9. ASSUME NEW q \in Slots PROVE SlotInv(q)'
  BY Zenon, <1>2, SlotFrame DEF IInv
<1>10. ASSUME NEW q \in Slots PROVE ForkInv(q)'
  BY ZenonT(60), <1>1, <1>2, <1>4, ForkFrame DEF IInv, ForkInv, Forking
<1>11. ASSUME NEW q \in Slots PROVE WaitInv(q)'
  BY Zenon, <1>2, WaitFrame DEF IInv, TypeOK
<1> QED
  BY Zenon, <1>5, <1>6, <1>7, <1>8, <1>9, <1>10, <1>11 DEF IInv

\* allocproc claims the first UNUSED slot, which is no CPU's and no forking process's.
LEMMA ForkAllocKeeps ==
  ASSUME IInv, NEW c \in Cpus, ForkAlloc(c)
  PROVE  IInv'
<1> DEFINE p == cpuproc[c]
           unused == {q \in Slots : state[q] = "UNUSED"}
<1> SUFFICES ASSUME unused # {} PROVE IInv'
  BY Zenon, ForkNoneKeeps DEF ForkAlloc, procvars
<1>0. PICK np \in unused :
        /\ state' = Set(state, np, "EMBRYO") /\ pid' = Set(pid, np, nextpid)
        /\ nextpid' = nextpid + 1 /\ myquantum' = Set(myquantum, np, 0)
        /\ child' = Set(child, p, np) /\ pc' = Set(pc, p, "kstack")
  BY Zenon DEF ForkAlloc
<1>1. /\ p \in Slots /\ spc[c] = "proc" /\ irq[c] = "none" /\ ctx[p] = "run" /\ pc[p] = "fork"
      /\ state[p] = "RUNNING"
      /\ np \in Slots /\ state[np] = "UNUSED" /\ np # p /\ parent[np] = Nil
  <2>1. np \in Slots /\ state[np] = "UNUSED"
    BY Zenon, <1>0
  <2>2. parent[np] = Nil
    BY Zenon, <2>1 DEF IInv, SlotInv
  <2> QED BY Zenon, <2>1, <2>2, Current DEF Exec, ForkAlloc
<1>2. UNCHANGED <<parent, chan, killed, kstack, ptlock, tickslock, cpuproc, spc, irq,
                  ctx, left>>
  BY Zenon, <1>0 DEF ForkAlloc, Set, cpuvars
<1>3. /\ state' = [state EXCEPT ![np] = "EMBRYO"] /\ pid' = [pid EXCEPT ![np] = nextpid]
      /\ nextpid' = nextpid + 1 /\ myquantum' = [myquantum EXCEPT ![np] = 0]
      /\ child' = [child EXCEPT ![p] = np] /\ pc' = [pc EXCEPT ![p] = "kstack"]
  BY Zenon, <1>0 DEF ForkAlloc, Set, cpuvars
<1>4. /\ pc'[p] = "kstack" /\ child'[p] = np /\ state'[np] = "EMBRYO" /\ pid'[np] # 0 /\ nextpid' # 0
      /\ \A q \in Slots : q # p => pc'[q] = pc[q] /\ child'[q] = child[q]
      /\ \A q \in Slots : q # np =>
           state'[q] = state[q] /\ pid'[q] = pid[q] /\ myquantum'[q] = myquantum[q]
  BY <1>1, <1>2, <1>3 DEF IInv, TypeOK
<1>5. TypeOK' /\ nextpid' # 0 /\ state'[INIT] \in Live
  <2>1. TypeOK'
    BY <1>1, <1>2, <1>3, BoundsAssumption DEF IInv, TypeOK, PC, PState
  <2>2. nextpid' # 0 /\ state'[INIT] \in Live
    BY Zenon, <1>1, <1>4, SlotFacts DEF IInv, TypeOK, Live
  <2> QED BY Zenon, <2>1, <2>2
<1>6. ASSUME NEW d \in Cpus PROVE PtLockInv(d)' /\ TicksLockInv(d)' /\ IrqInv(d)'
  <2>1. CASE d = c
    <3>1. PtLockInv(c) /\ TicksLockInv(c) /\ IrqInv(c)
      BY Zenon DEF IInv
    <3> QED BY Zenon, <1>1, <1>2, <1>4, <2>1, <3>1 DEF PtLockInv, TicksLockInv, IrqInv
  <2>2. CASE d # c
    BY Zenon, <1>1, <1>2, <1>4, <2>2, OtherCpus
  <2> QED BY Zenon, <2>1, <2>2
<1>7. ASSUME NEW d \in Cpus PROVE CpuInv(d)'
  BY SMTT(30), <1>1, <1>2, <1>4, CpusKeep, OnCpu
<1>8. ASSUME NEW q \in Slots PROVE CtxInv(q)'
  BY <1>1, <1>2, <1>4, CtxFrame DEF IInv, CtxInv
<1>9. ASSUME NEW q \in Slots PROVE SlotInv(q)'
  BY ZenonT(60), <1>1, <1>2, <1>4, SlotFrame DEF IInv, SlotInv
<1>10. ASSUME NEW q \in Slots PROVE ForkInv(q)'
  <2>1. \A r \in Slots : pc[r] \in Forking =>
          r # p /\ r # np /\ child[r] \in Slots /\ child[r] # np /\ child[r] # p
    BY ZenonT(60), <1>1 DEF IInv, ForkInv, Forking
  <2>2. ForkInv(q)
    BY Zenon DEF IInv
  <2>3. CASE q = p
    BY <1>1, <1>2, <1>4, <2>1, <2>3 DEF ForkInv, Forking
  <2>4. CASE q # p
    BY SMTT(30), <1>1, <1>2, <1>4, <2>1, <2>2, <2>4 DEF ForkInv, Forking
  <2> QED BY Zenon, <2>3, <2>4
<1>11. ASSUME NEW q \in Slots PROVE WaitInv(q)'
  BY <1>1, <1>2, <1>4, WaitFrame DEF IInv, TypeOK, Live
<1> QED
  BY Zenon, <1>5, <1>6, <1>7, <1>8, <1>9, <1>10, <1>11 DEF IInv

\* fork gives its np back while no other process knows of it.
LEMMA ForkFailKeeps ==
  ASSUME IInv, NEW c \in Cpus, NEW at \in {"kstack", "copyuvm"}, Exec(c, at), ForkFail(cpuproc[c]),
         UNCHANGED <<pid, chan, killed, myquantum, nextpid, ptlock, tickslock, cpuvars, left>>
  PROVE  IInv'
<1> DEFINE p == cpuproc[c]
           np == child[p]
<1>1. /\ p \in Slots /\ spc[c] = "proc" /\ irq[c] = "none" /\ ctx[p] = "run" /\ pc[p] = at
      /\ state[p] = "RUNNING"
      /\ np \in Slots /\ state[np] = "EMBRYO" /\ pid[np] # 0 /\ np # p /\ np # INIT
      /\ parent[np] = Nil
      /\ \A q \in Slots : pc[q] \in Forking /\ child[q] = np => q = p
  <2>1. /\ p \in Slots /\ spc[c] = "proc" /\ irq[c] = "none" /\ ctx[p] = "run" /\ pc[p] = at
        /\ state[p] = "RUNNING"
    BY Zenon, Current DEF Exec
  <2>2. at \in Forking
    BY Zenon DEF Forking
  <2>3. parent[np] = Nil
    BY Zenon, <2>1 DEF IInv, ForkInv, Forking
  <2> QED BY Zenon, <2>1, <2>2, <2>3, NpOf
<1>2. UNCHANGED <<pid, parent, chan, killed, myquantum, nextpid, ptlock, tickslock,
                  cpuproc, spc, irq, ctx, left>>
  BY Zenon DEF ForkFail, Set, cpuvars
<1>3. /\ kstack' = [kstack EXCEPT ![np] = FALSE] /\ state' = [state EXCEPT ![np] = "UNUSED"]
      /\ child' = [child EXCEPT ![p] = Nil] /\ pc' = [pc EXCEPT ![p] = "ret"]
  BY Zenon DEF ForkFail, Set, cpuvars
<1>4. /\ pc'[p] = "ret" /\ state'[np] = "UNUSED"
      /\ \A q \in Slots : q # p => pc'[q] = pc[q] /\ child'[q] = child[q]
      /\ \A q \in Slots : q # np => state'[q] = state[q] /\ kstack'[q] = kstack[q]
  BY Zenon, <1>1, <1>2, <1>3 DEF IInv, TypeOK
<1>5. TypeOK' /\ nextpid' # 0 /\ state'[INIT] \in Live
  <2>1. TypeOK'
    BY ZenonT(60), <1>1, <1>2, <1>3 DEF IInv, TypeOK, PC, PState, Nil
  <2>2. nextpid' # 0 /\ state'[INIT] \in Live
    BY Zenon, <1>1, <1>2, <1>4, SlotFacts DEF IInv
  <2> QED BY Zenon, <2>1, <2>2
<1>6. ASSUME NEW d \in Cpus PROVE PtLockInv(d)' /\ TicksLockInv(d)' /\ IrqInv(d)'
  <2>1. CASE d = c
    <3>1. PtLockInv(c) /\ TicksLockInv(c) /\ IrqInv(c)
      BY Zenon DEF IInv
    <3> QED BY Zenon, <1>1, <1>2, <1>4, <2>1, <3>1 DEF PtLockInv, TicksLockInv, IrqInv
  <2>2. CASE d # c
    BY Zenon, <1>1, <1>2, <1>4, <2>2, OtherCpus
  <2> QED BY Zenon, <2>1, <2>2
<1>7. ASSUME NEW d \in Cpus PROVE CpuInv(d)'
  BY ZenonT(40), <1>1, <1>2, <1>4, CpusKeep, OnCpu
<1>8. ASSUME NEW q \in Slots PROVE CtxInv(q)'
  BY <1>1, <1>2, <1>4, CtxFrame DEF IInv, CtxInv
<1>9. ASSUME NEW q \in Slots PROVE SlotInv(q)'
  BY Zenon, <1>1, <1>2, <1>4, SlotFrame DEF IInv, SlotInv
<1>10. ASSUME NEW q \in Slots PROVE ForkInv(q)'
  <2>1. \A r \in Slots : pc'[r] \in Forking =>
          /\ r # p /\ r # np /\ pc'[r] = pc[r] /\ child[r] \in Slots /\ child[r] # np /\ child[r] # p
          /\ child'[r] = child[r]
    BY ZenonT(40), <1>1, <1>4 DEF IInv, ForkInv, Forking
  <2>2. ForkInv(q)
    BY Zenon DEF IInv
  <2> QED BY <1>1, <1>2, <1>4, <2>1, <2>2 DEF ForkInv
<1>11. ASSUME NEW q \in Slots PROVE WaitInv(q)'
  BY ZenonT(60), <1>1, <1>2, <1>4, WaitFrame DEF IInv, TypeOK, Live
<1> QED
  BY Zenon, <1>5, <1>6, <1>7, <1>8, <1>9, <1>10, <1>11 DEF IInv

\* allocproc allocates the kernel stack, or gives up.
LEMMA ForkKstackKeeps ==
  ASSUME IInv, NEW c \in Cpus, ForkKstack(c)
  PROVE  IInv'
<1> DEFINE p == cpuproc[c]
           np == child[p]
<1> SUFFICES ASSUME ~ForkFail(p) PROVE IInv'
  BY Zenon, ForkFailKeeps DEF ForkKstack
<1>1. /\ p \in Slots /\ spc[c] = "proc" /\ irq[c] = "none" /\ ctx[p] = "run" /\ pc[p] = "kstack"
      /\ state[p] = "RUNNING"
      /\ np \in Slots /\ state[np] = "EMBRYO" /\ np # p /\ np # INIT /\ pc[np] \notin Forking
      /\ \A q \in Slots : pc[q] \in Forking /\ child[q] = np => q = p
  <2>1. /\ p \in Slots /\ spc[c] = "proc" /\ irq[c] = "none" /\ ctx[p] = "run" /\ pc[p] = "kstack"
        /\ state[p] = "RUNNING"
    BY Zenon, Current DEF Exec, ForkKstack
  <2>2. pc[p] \in Forking
    BY Zenon, <2>1 DEF Forking
  <2>3. ForkInv(p) /\ p # Nil
    BY Zenon, <2>1, SlotFacts DEF IInv
  <2> QED BY Zenon, <2>1, <2>2, <2>3, NpOf DEF ForkInv
<1>2. UNCHANGED <<state, pid, parent, chan, killed, myquantum, nextpid, ptlock,
                  tickslock, cpuproc, spc, irq, child, left>>
  BY Zenon DEF ForkKstack, Set, cpuvars
<1>3. /\ kstack' = [kstack EXCEPT ![np] = TRUE] /\ ctx' = [ctx EXCEPT ![np] = "forkret"]
      /\ pc' = [pc EXCEPT ![p] = "copyuvm"]
  BY Zenon DEF ForkKstack, Set, cpuvars
<1>4. /\ pc'[p] = "copyuvm" /\ kstack'[np] = TRUE /\ ctx'[np] = "forkret"
      /\ \A q \in Slots : q # p => pc'[q] = pc[q]
      /\ \A q \in Slots : q # np => kstack'[q] = kstack[q] /\ ctx'[q] = ctx[q]
  BY Zenon, <1>1, <1>2, <1>3 DEF IInv, TypeOK
<1>5. TypeOK' /\ nextpid' # 0 /\ state'[INIT] \in Live
  <2>1. TypeOK'
    BY Zenon, <1>2, <1>3 DEF IInv, TypeOK, PC
  <2>2. nextpid' # 0 /\ state'[INIT] \in Live
    BY Zenon, <1>2 DEF IInv
  <2> QED BY Zenon, <2>1, <2>2
<1>6. ASSUME NEW d \in Cpus PROVE PtLockInv(d)' /\ TicksLockInv(d)' /\ IrqInv(d)'
  <2>1. CASE d = c
    <3>1. PtLockInv(c) /\ TicksLockInv(c) /\ IrqInv(c)
      BY Zenon DEF IInv
    <3> QED BY Zenon, <1>1, <1>2, <1>4, <2>1, <3>1 DEF PtLockInv, TicksLockInv, IrqInv
  <2>2. CASE d # c
    BY Zenon, <1>1, <1>2, <1>4, <2>2, OtherCpus
  <2> QED BY Zenon, <2>1, <2>2
<1>7. ASSUME NEW d \in Cpus PROVE CpuInv(d)'
  BY Zenon, <1>2, CpusKeep
<1>8. ASSUME NEW q \in Slots PROVE CtxInv(q)'
  <2>1. CtxInv(q)
    BY Zenon DEF IInv
  <2>2. CASE q = np
    BY Zenon, <1>1, <1>2, <1>4, <2>2 DEF CtxInv
  <2>3. CASE q # np
    BY Zenon, <1>1, <1>2, <1>4, <2>1, <2>3 DEF CtxInv
  <2> QED BY Zenon, <2>2, <2>3
<1>9. ASSUME NEW q \in Slots PROVE SlotInv(q)'
  BY Zenon, <1>1, <1>2, <1>4, SlotFrame DEF IInv, SlotInv
<1>10. ASSUME NEW q \in Slots PROVE ForkInv(q)'
  <2>1. \A r \in Slots : r # p /\ pc'[r] \in Forking =>
          /\ r # np /\ pc'[r] = pc[r] /\ child[r] \in Slots /\ child[r] # np /\ child[r] # p
    BY ZenonT(60), <1>1, <1>2, <1>4 DEF IInv, ForkInv, Forking
  <2>2. ForkInv(q)
    BY Zenon DEF IInv
  <2>3. CASE q = p
    BY Zenon, <1>1, <1>2, <1>4, <2>1, <2>2, <2>3 DEF ForkInv, Forking
  <2>4. CASE q # p
    BY <1>1, <1>2, <1>4, <2>1, <2>2, <2>4 DEF ForkInv, Forking
  <2> QED BY Zenon, <2>3, <2>4
<1>11. ASSUME NEW q \in Slots PROVE WaitInv(q)'
  BY Zenon, <1>2, WaitFrame DEF IInv, TypeOK
<1> QED
  BY Zenon, <1>5, <1>6, <1>7, <1>8, <1>9, <1>10, <1>11 DEF IInv

\* fork copies the parent into np, or gives up.
LEMMA ForkCopyKeeps ==
  ASSUME IInv, NEW c \in Cpus, ForkCopy(c)
  PROVE  IInv'
<1> DEFINE p == cpuproc[c]
           np == child[p]
<1> SUFFICES ASSUME ~ForkFail(p) PROVE IInv'
  BY Zenon, ForkFailKeeps DEF ForkCopy
<1>1. /\ p \in Slots /\ spc[c] = "proc" /\ irq[c] = "none" /\ ctx[p] = "run" /\ pc[p] = "copyuvm"
      /\ state[p] = "RUNNING"
      /\ np \in Slots /\ state[np] = "EMBRYO" /\ np # p /\ np # INIT /\ pc[np] \notin Forking
      /\ \A q \in Slots : pc[q] \in Forking /\ child[q] = np => q = p
      /\ parent[np] = Nil /\ p # Nil /\ kstack[np] /\ ctx[np] = "forkret"
  <2>1. /\ p \in Slots /\ spc[c] = "proc" /\ irq[c] = "none" /\ ctx[p] = "run" /\ pc[p] = "copyuvm"
        /\ state[p] = "RUNNING"
    BY Zenon, Current DEF Exec, ForkCopy
  <2>2. pc[p] \in Forking
    BY Zenon, <2>1 DEF Forking
  <2>3. ForkInv(p) /\ p # Nil
    BY Zenon, <2>1, SlotFacts DEF IInv
  <2> QED BY Zenon, <2>1, <2>2, <2>3, NpOf DEF ForkInv
<1>2. UNCHANGED <<state, pid, chan, killed, kstack, myquantum, nextpid, ptlock,
                  tickslock, cpuproc, spc, irq, ctx, child, left>>
  BY Zenon DEF ForkCopy, Set, cpuvars
<1>3. /\ parent' = [parent EXCEPT ![np] = p]
      /\ pc' = [pc EXCEPT ![p] = "setrunnable", ![np] = "user"]
  BY Zenon DEF ForkCopy, Set, cpuvars
<1>4. /\ pc'[p] = "setrunnable" /\ pc'[np] = "user" /\ parent'[np] = p
      /\ \A q \in Slots : q # p /\ q # np => pc'[q] = pc[q]
      /\ \A q \in Slots : q # np => parent'[q] = parent[q]
  BY ZenonT(60), <1>1, <1>2, <1>3 DEF IInv, TypeOK
<1>5. TypeOK' /\ nextpid' # 0 /\ state'[INIT] \in Live
  <2>1. TypeOK'
    BY Zenon, <1>1, <1>2, <1>3 DEF IInv, TypeOK, PC
  <2>2. nextpid' # 0 /\ state'[INIT] \in Live
    BY Zenon, <1>2 DEF IInv
  <2> QED BY Zenon, <2>1, <2>2
<1>6. ASSUME NEW d \in Cpus PROVE PtLockInv(d)' /\ TicksLockInv(d)' /\ IrqInv(d)'
  <2>1. CASE d = c
    <3>1. PtLockInv(c) /\ TicksLockInv(c) /\ IrqInv(c)
      BY Zenon DEF IInv
    <3> QED BY Zenon, <1>1, <1>2, <1>4, <2>1, <3>1 DEF PtLockInv, TicksLockInv, IrqInv
  <2>2. CASE d # c
    BY Zenon, <1>1, <1>2, <1>4, <2>2, OtherCpus
  <2> QED BY Zenon, <2>1, <2>2
<1>7. ASSUME NEW d \in Cpus PROVE CpuInv(d)'
  BY Zenon, <1>2, CpusKeep
<1>8. ASSUME NEW q \in Slots PROVE CtxInv(q)'
  <2>1. CtxInv(q)
    BY Zenon DEF IInv
  <2>2. CASE q = np
    BY Zenon, <1>1, <1>2, <1>4, <2>2 DEF CtxInv
  <2>3. CASE q # np
    BY Zenon, <1>1, <1>2, <1>4, <2>1, <2>3 DEF CtxInv
  <2> QED BY Zenon, <2>2, <2>3
<1>9. ASSUME NEW q \in Slots PROVE SlotInv(q)'
  BY Zenon, <1>1, <1>2, <1>4, SlotFrame DEF IInv, SlotInv
<1>10. ASSUME NEW q \in Slots PROVE ForkInv(q)'
  <2>1. \A r \in Slots : r # p /\ pc'[r] \in Forking =>
          /\ r # np /\ pc'[r] = pc[r] /\ child[r] \in Slots /\ child[r] # np /\ child[r] # p
          /\ pc'[child[r]] = pc[child[r]] /\ parent'[child[r]] = parent[child[r]]
    <3>1. \A r \in Slots : pc[r] \in Forking => child[r] \in Slots /\ child[r] # p
      BY ZenonT(60), <1>1 DEF IInv, ForkInv
    <3> QED BY ZenonT(60), <1>1, <1>4, <3>1 DEF Forking
  <2>2. ForkInv(q)
    BY Zenon DEF IInv
  <2>3. CASE q = p
    BY Zenon, <1>1, <1>2, <1>4, <2>1, <2>2, <2>3 DEF ForkInv, Forking
  <2>4. CASE q # p /\ pc'[q] \in Forking
    <3>1. pc'[q] = pc[q] /\ UNCHANGED <<state, child, kstack, ctx>>
      BY ZenonT(60), <1>2, <2>1, <2>4
    <3>2. \A r \in Slots : pc'[r] \in Forking /\ child[r] = child[q] => r = q
      BY <1>1, <2>1, <2>2, <2>4, <3>1 DEF ForkInv
    <3> QED BY Zenon, <2>1, <2>2, <2>4, <3>1, <3>2 DEF ForkInv
  <2> QED BY Zenon, <2>3, <2>4 DEF ForkInv
<1>11. ASSUME NEW q \in Slots PROVE WaitInv(q)'
  <2>1. WaitInv(q)
    BY Zenon DEF IInv
  <2>2. CASE q = np
    BY ZenonT(60), <1>1, <1>2, <1>4, <2>2 DEF WaitInv, Live
  <2>3. CASE q # np
    BY SMTT(30), <1>1, <1>2, <1>4, <2>1, <2>3, SlotFacts DEF WaitInv
  <2> QED BY Zenon, <2>2, <2>3
<1> QED
  BY Zenon, <1>5, <1>6, <1>7, <1>8, <1>9, <1>10, <1>11 DEF IInv

\* fork makes np RUNNABLE, to be resumed in forkret.
LEMMA ForkRunnableKeeps ==
  ASSUME IInv, NEW c \in Cpus, ForkRunnable(c)
  PROVE  IInv'
<1> DEFINE p == cpuproc[c]
           np == child[p]
<1>1. /\ p \in Slots /\ spc[c] = "proc" /\ irq[c] = "none" /\ ctx[p] = "run" /\ pc[p] = "setrunnable"
      /\ state[p] = "RUNNING"
      /\ np \in Slots /\ state[np] = "EMBRYO" /\ np # p /\ np # INIT /\ pc[np] \notin Forking
      /\ \A q \in Slots : pc[q] \in Forking /\ child[q] = np => q = p
      /\ parent[np] = p /\ p # Nil /\ kstack[np] /\ ctx[np] = "forkret" /\ pc[np] = "user"
  <2>1. /\ p \in Slots /\ spc[c] = "proc" /\ irq[c] = "none" /\ ctx[p] = "run" /\ pc[p] = "setrunnable"
        /\ state[p] = "RUNNING"
    BY Zenon, Current DEF Exec, ForkRunnable
  <2>2. pc[p] \in Forking
    BY Zenon, <2>1 DEF Forking
  <2>3. ForkInv(p) /\ p # Nil
    BY Zenon, <2>1, SlotFacts DEF IInv
  <2> QED BY Zenon, <2>1, <2>2, <2>3, NpOf DEF ForkInv
<1>2. UNCHANGED <<pid, parent, chan, killed, kstack, myquantum, nextpid, ptlock,
                  tickslock, cpuproc, spc, irq, ctx, left>>
  BY Zenon DEF ForkRunnable, Set, cpuvars
<1>3. /\ state' = [state EXCEPT ![np] = "RUNNABLE"] /\ child' = [child EXCEPT ![p] = Nil]
      /\ pc' = [pc EXCEPT ![p] = "ret"]
  BY Zenon DEF ForkRunnable, Set, cpuvars
<1>4. /\ pc'[p] = "ret" /\ state'[np] = "RUNNABLE"
      /\ \A q \in Slots : q # p => pc'[q] = pc[q] /\ child'[q] = child[q]
      /\ \A q \in Slots : q # np => state'[q] = state[q]
  BY ZenonT(60), <1>1, <1>2, <1>3 DEF IInv, TypeOK
<1>5. TypeOK' /\ nextpid' # 0 /\ state'[INIT] \in Live
  <2>1. TypeOK'
    BY Zenon, <1>1, <1>2, <1>3 DEF IInv, TypeOK, PC, PState, Nil
  <2>2. nextpid' # 0 /\ state'[INIT] \in Live
    BY Zenon, <1>1, <1>2, <1>4, SlotFacts DEF IInv
  <2> QED BY Zenon, <2>1, <2>2
<1>6. ASSUME NEW d \in Cpus PROVE PtLockInv(d)' /\ TicksLockInv(d)' /\ IrqInv(d)'
  <2>1. CASE d = c
    <3>1. PtLockInv(c) /\ TicksLockInv(c) /\ IrqInv(c)
      BY Zenon DEF IInv
    <3> QED BY Zenon, <1>1, <1>2, <1>4, <2>1, <3>1 DEF PtLockInv, TicksLockInv, IrqInv
  <2>2. CASE d # c
    BY ZenonT(60), <1>1, <1>2, <1>4, <2>2, OtherCpus
  <2> QED BY Zenon, <2>1, <2>2
<1>7. ASSUME NEW d \in Cpus PROVE CpuInv(d)'
  BY <1>1, <1>2, <1>4, CpusKeep, OnCpu
<1>8. ASSUME NEW q \in Slots PROVE CtxInv(q)'
  <2>1. CtxInv(q)
    BY Zenon DEF IInv
  <2>2. CASE q = np
    BY Zenon, <1>1, <1>2, <1>4, <2>2 DEF CtxInv
  <2>3. CASE q # np
    BY ZenonT(60), <1>1, <1>2, <1>4, <2>1, <2>3 DEF CtxInv
  <2> QED BY Zenon, <2>2, <2>3
<1>9. ASSUME NEW q \in Slots PROVE SlotInv(q)'
  BY Zenon, <1>1, <1>2, <1>4, SlotFrame DEF IInv, SlotInv
<1>10. ASSUME NEW q \in Slots PROVE ForkInv(q)'
  <2>1. \A r \in Slots : r # p /\ pc'[r] \in Forking =>
          /\ r # np /\ pc'[r] = pc[r] /\ child[r] \in Slots /\ child[r] # np /\ child[r] # p
    BY ZenonT(40), <1>1, <1>2, <1>4 DEF IInv, ForkInv, Forking
  <2>2. ForkInv(q)
    BY Zenon DEF IInv
  <2>3. CASE q = p
    BY Zenon, <1>1, <1>2, <1>4, <2>1, <2>2, <2>3 DEF ForkInv, Forking
  <2>4. CASE q # p
    BY <1>1, <1>2, <1>4, <2>1, <2>2, <2>4 DEF ForkInv, Forking
  <2> QED BY Zenon, <2>3, <2>4
<1>11. ASSUME NEW q \in Slots PROVE WaitInv(q)'
  <2>1. \A r \in Slots :
          /\ state'[r] \notin {"UNUSED", "EMBRYO"} =>
               state[r] \notin {"UNUSED", "EMBRYO"} \/ parent[r] # Nil
          /\ state[r] \in Live => state'[r] \in Live
          /\ state'[r] = "SLEEPING" => state[r] = "SLEEPING"
          /\ state'[r] = "ZOMBIE" => state[r] = "ZOMBIE"
    BY ZenonT(40), <1>1, <1>4 DEF Live
  <2> QED BY Zenon, <1>2, <2>1, WaitFrame DEF IInv, TypeOK
<1> QED
  BY Zenon, <1>5, <1>6, <1>7, <1>8, <1>9, <1>10, <1>11 DEF IInv

-----------------------------------------------------------------------------
(* exit() and wait()                                                       *)

\* exit's wakeups make sleepers RUNNABLE: the parent asleep in wait, and init asleep in
\* wait if it inherits a zombie.
LEMMA ExitWakes ==
  ASSUME IInv, NEW p \in Slots
  PROVE  /\ ExitWakeups(p) \in [Slots -> PState]
         /\ \A q \in Slots : ExitWakeups(p)[q] = state[q] \/
              (state[q] = "SLEEPING" /\ ExitWakeups(p)[q] = "RUNNABLE")
         /\ \A q \in Slots : chan[q] = q /\ q = parent[p] => ExitWakeups(p)[q] # "SLEEPING"
         /\ chan[INIT] = INIT /\ (\E r \in Slots : parent[r] = p /\ state[r] = "ZOMBIE") =>
              ExitWakeups(p)[INIT] # "SLEEPING"
<1>1. state \in [Slots -> PState]
  BY Zenon DEF IInv, TypeOK
<1>2. ASSUME NEW st \in [Slots -> PState], NEW ch
      PROVE  /\ Wakeup1(st, ch) \in [Slots -> PState]
             /\ \A q \in Slots :
                  /\ Wakeup1(st, ch)[q] = st[q] \/
                       (st[q] = "SLEEPING" /\ Wakeup1(st, ch)[q] = "RUNNABLE")
                  /\ chan[q] = ch => Wakeup1(st, ch)[q] # "SLEEPING"
  BY Zenon DEF Wakeup1, PState
<1> DEFINE woken == Wakeup1(state, parent[p])
           twice == Wakeup1(woken, INIT)
<1>3. /\ woken \in [Slots -> PState]
      /\ \A q \in Slots :
           /\ woken[q] = state[q] \/ (state[q] = "SLEEPING" /\ woken[q] = "RUNNABLE")
           /\ chan[q] = parent[p] => woken[q] # "SLEEPING"
  BY Zenon, <1>1, <1>2
<1>4. /\ twice \in [Slots -> PState]
      /\ \A q \in Slots :
           /\ twice[q] = woken[q] \/ (woken[q] = "SLEEPING" /\ twice[q] = "RUNNABLE")
           /\ chan[q] = INIT => twice[q] # "SLEEPING"
  BY <1>2, <1>3
<1>5. ExitWakeups(p) = IF \E r \in Slots : parent[r] = p /\ state[r] = "ZOMBIE" THEN twice ELSE woken
  BY Zenon DEF ExitWakeups
<1> HIDE DEF woken, twice
<1>6. CASE \E r \in Slots : parent[r] = p /\ state[r] = "ZOMBIE"
  <2>1. ExitWakeups(p) = twice
    BY Zenon, <1>5, <1>6
  <2> QED BY Zenon, <1>3, <1>4, <2>1, SlotFacts
<1>7. CASE ~\E r \in Slots : parent[r] = p /\ state[r] = "ZOMBIE"
  <2>1. ExitWakeups(p) = woken
    BY Zenon, <1>5, <1>7
  <2> QED BY Zenon, <1>3, <1>7, <2>1, SlotFacts
<1> QED BY Zenon, <1>6, <1>7

\* init calls exit: panic.
LEMMA InitPanicKeeps ==
  ASSUME IInv, NEW c \in Cpus, NEW at \in {"exit", "die"}, Exec(c, at),
         spc' = Set(spc, c, "panic"),
         UNCHANGED <<procvars, ptlock, tickslock, cpuproc, irq, threadvars>>
  PROVE  IInv'
<1> DEFINE p == cpuproc[c]
<1>1. /\ p \in Slots /\ spc[c] = "proc" /\ irq[c] = "none" /\ ctx[p] = "run" /\ pc[p] = at
      /\ state[p] = "RUNNING"
  BY Zenon, Current DEF Exec
<1>2. UNCHANGED <<state, pid, parent, chan, killed, kstack, myquantum, nextpid, ptlock,
                  tickslock, cpuproc, irq, ctx, pc, child, left>>
  BY Zenon DEF Set, procvars, threadvars
<1>3. spc' = [spc EXCEPT ![c] = "panic"]
  BY Zenon DEF Set, procvars, threadvars
<1>4. spc'[c] = "panic" /\ \A d \in Cpus : d # c => spc'[d] = spc[d]
  BY Zenon, <1>1, <1>2, <1>3 DEF IInv, TypeOK
<1>5. TypeOK' /\ nextpid' # 0 /\ state'[INIT] \in Live
  <2>1. TypeOK'
    BY Zenon, <1>2, <1>3 DEF IInv, TypeOK
  <2>2. nextpid' # 0 /\ state'[INIT] \in Live
    BY Zenon, <1>2 DEF IInv
  <2> QED BY Zenon, <2>1, <2>2
<1>6. ASSUME NEW d \in Cpus PROVE PtLockInv(d)' /\ TicksLockInv(d)' /\ IrqInv(d)'
  <2>1. CASE d = c
    <3>1. PtLockInv(c) /\ TicksLockInv(c) /\ IrqInv(c)
      BY Zenon DEF IInv
    <3> QED BY Zenon, <1>1, <1>2, <1>4, <2>1, <3>1 DEF PtLockInv, TicksLockInv, IrqInv
  <2>2. CASE d # c
    BY Zenon, <1>1, <1>2, <1>4, <2>2, OtherCpus
  <2> QED BY Zenon, <2>1, <2>2
<1>7. ASSUME NEW d \in Cpus PROVE CpuInv(d)'
  <2>1. CASE d = c
    <3>1. CpuInv(c)
      BY Zenon DEF IInv
    <3> QED BY Zenon, <1>1, <1>2, <1>4, <2>1, <3>1 DEF CpuInv
  <2>2. CASE d # c
    BY Zenon, <1>2, <1>4, <2>2, CpusKeep
  <2> QED BY Zenon, <2>1, <2>2
<1>8. ASSUME NEW q \in Slots PROVE CtxInv(q)'
  BY <1>1, <1>2, <1>4, CtxFrame DEF IInv, CtxInv
<1>9. ASSUME NEW q \in Slots PROVE SlotInv(q)'
  BY Zenon, <1>2, SlotFrame DEF IInv
<1>10. ASSUME NEW q \in Slots PROVE ForkInv(q)'
  BY Zenon, <1>2, ForkFrame DEF IInv, ForkInv
<1>11. ASSUME NEW q \in Slots PROVE WaitInv(q)'
  BY Zenon, <1>2, WaitFrame DEF IInv, TypeOK
<1> QED
  BY Zenon, <1>5, <1>6, <1>7, <1>8, <1>9, <1>10, <1>11 DEF IInv

\* exit hands the children to init, wakes whoever waits for one of them or for the
\* process itself, and leaves its stack holding ptable.lock.
LEMMA ExitKeeps ==
  ASSUME IInv, NEW c \in Cpus, Exit(c)
  PROVE  IInv'
<1> DEFINE p == cpuproc[c]
           woken == ExitWakeups(p)
<1> SUFFICES ASSUME p # INIT PROVE IInv'
  BY Zenon, InitPanicKeeps DEF Exit, procvars, threadvars
<1>1. /\ p \in Slots /\ spc[c] = "proc" /\ irq[c] = "none" /\ ctx[p] = "run" /\ pc[p] \in {"exit", "die"}
      /\ state[p] = "RUNNING" /\ p # Nil /\ ptlock = NoCpu
  BY Zenon, Current DEF Exec, Exit, Free
<1>2. /\ ptlock' = c
      /\ UNCHANGED <<pid, chan, killed, kstack, myquantum, nextpid, tickslock, cpuproc,
                           irq, pc, child, left>>
  BY Zenon DEF Exit, Sched, Set, Reparent
<1>3. /\ parent' = [q \in Slots |-> IF parent[q] = p THEN INIT ELSE parent[q]]
      /\ state' = [woken EXCEPT ![p] = "ZOMBIE"]
      /\ spc' = [spc EXCEPT ![c] = "back"] /\ ctx' = [ctx EXCEPT ![p] = "exit"]
  BY Zenon DEF Exit, Sched, Set, Reparent
<1>4. /\ state' \in [Slots -> PState] /\ state'[p] = "ZOMBIE"
      /\ \A q \in Slots : q # p =>
           /\ state'[q] = woken[q] /\ ctx'[q] = ctx[q]
           /\ state'[q] = state[q] \/ (state[q] = "SLEEPING" /\ state'[q] = "RUNNABLE")
      /\ \A q \in Slots : parent'[q] = IF parent[q] = p THEN INIT ELSE parent[q]
      /\ spc'[c] = "back" /\ \A d \in Cpus : d # c => spc'[d] = spc[d]
  <2>1. woken \in [Slots -> PState] /\ "ZOMBIE" \in PState
    BY Zenon, <1>1, ExitWakes DEF PState
  <2>2. /\ state' \in [Slots -> PState] /\ state'[p] = "ZOMBIE"
        /\ \A q \in Slots : q # p => state'[q] = woken[q]
    BY Zenon, <1>1, <1>2, <1>3, <2>1
  <2>3. /\ \A q \in Slots : q # p => ctx'[q] = ctx[q]
        /\ spc'[c] = "back" /\ \A d \in Cpus : d # c => spc'[d] = spc[d]
    BY Zenon, <1>1, <1>2, <1>3 DEF IInv, TypeOK
  <2>4. \A q \in Slots : woken[q] = state[q] \/ (state[q] = "SLEEPING" /\ woken[q] = "RUNNABLE")
    BY Zenon, <1>1, ExitWakes
  <2> QED BY Zenon, <1>2, <1>3, <2>2, <2>3, <2>4
<1> HIDE DEF woken
<1>5. TypeOK' /\ nextpid' # 0 /\ state'[INIT] \in Live
  <2>1. TypeOK'
    <3>1. parent' \in [Slots -> Slots \cup {Nil}]
      BY Zenon, <1>2, <1>3, SlotFacts DEF IInv, TypeOK
    <3>2. ctx' \in [Slots -> {"forkret", "run", "yield", "sleep", "exit"}]
      BY Zenon, <1>2, <1>3 DEF IInv, TypeOK
    <3>3. spc' \in [Cpus -> {"idle", "scan", "proc", "back", "panic"}]
      BY Zenon, <1>2, <1>3 DEF IInv, TypeOK
    <3> QED BY Zenon, <1>2, <1>3, <1>4, <3>1, <3>2, <3>3 DEF IInv, TypeOK
  <2>2. nextpid' # 0 /\ state'[INIT] \in Live
    BY Zenon, <1>2, <1>4, SlotFacts DEF IInv, Live
  <2> QED BY Zenon, <2>1, <2>2
<1>6. ASSUME NEW d \in Cpus PROVE PtLockInv(d)' /\ TicksLockInv(d)' /\ IrqInv(d)'
  <2>1. CASE d = c
    <3>1. PtLockInv(c) /\ TicksLockInv(c) /\ IrqInv(c)
      BY Zenon DEF IInv
    <3> QED BY Zenon, <1>1, <1>2, <1>4, <2>1, <3>1, CpusAssumption DEF PtLockInv, TicksLockInv, IrqInv
  <2>2. CASE d # c
    <3>1. (ptlock' = d <=> ptlock = d) /\ (tickslock' = d <=> tickslock = d)
      BY Zenon, <1>1, <1>2, <1>4, <2>2, CpusAssumption
    <3> QED BY Zenon, <1>1, <1>2, <1>4, <2>2, <3>1, OtherCpus
  <2> QED BY Zenon, <2>1, <2>2
<1>7. ASSUME NEW d \in Cpus PROVE CpuInv(d)'
  <2>1. CASE d = c
    <3>1. CpuInv(c)
      BY Zenon DEF IInv
    <3> QED BY Zenon, <1>1, <1>2, <1>4, <2>1, <3>1 DEF CpuInv
  <2>2. CASE d # c
    <3>1. cpuproc[d] # Nil => cpuproc[d] \in Slots /\ cpuproc[d] # p
      BY Zenon, <2>2, OnCpu
    <3> QED BY ZenonT(60), <1>1, <1>2, <1>4, <2>2, <3>1, CpusAssumption, CpusKeep
  <2> QED BY Zenon, <2>1, <2>2
<1>8. ASSUME NEW q \in Slots PROVE CtxInv(q)'
  <2>1. CtxInv(q)
    BY Zenon DEF IInv
  <2>2. CASE q = p
    BY Zenon, <1>4, <2>2 DEF CtxInv
  <2>3. CASE q # p
    BY ZenonT(60), <1>1, <1>2, <1>4, <2>1, <2>3 DEF CtxInv
  <2> QED BY Zenon, <2>2, <2>3
<1>9. ASSUME NEW q \in Slots PROVE SlotInv(q)'
  <2>1. SlotInv(q)
    BY Zenon DEF IInv
  <2>2. q = p => kstack[p]
    BY Zenon, <1>1, <2>1 DEF SlotInv
  <2> QED BY Zenon, <1>1, <1>2, <1>4, <2>1, <2>2 DEF SlotInv
<1>10. ASSUME NEW q \in Slots PROVE ForkInv(q)'
  <2>1. \A r \in Slots : pc[r] \in Forking =>
          /\ r # p /\ state[r] \in {"RUNNABLE", "RUNNING"} /\ child[r] \in Slots
          /\ parent[child[r]] # p
    BY <1>1, SlotFacts DEF IInv, ForkInv, Forking
  <2>2. \A r \in Slots : pc[r] \in Forking =>
          state'[r] \in {"RUNNABLE", "RUNNING"} /\ parent'[child[r]] = parent[child[r]]
    BY ZenonT(40), <1>4, <2>1
  <2>3. \A r \in Slots : state[r] = "EMBRYO" => state'[r] = "EMBRYO" /\ ctx'[r] = ctx[r]
    BY Zenon, <1>1, <1>4
  <2> QED BY ZenonT(60), <1>2, <2>2, <2>3, ForkFrame DEF IInv
<1>11. ASSUME NEW q \in Slots PROVE WaitInv(q)'
  <2>1. WaitInv(q) /\ WaitInv(p) /\ parent[q] \in Slots \cup {Nil} /\ state[INIT] \in Live
    BY Zenon, <1>1 DEF IInv, TypeOK
  <2>2. /\ parent'[q] # q /\ (q = INIT => parent'[q] = Nil)
        /\ q # INIT /\ state'[q] \notin {"UNUSED", "EMBRYO"} => parent'[q] # Nil
    <3>1. q = INIT => parent[q] # p
      BY Zenon, <1>1, <2>1 DEF WaitInv
    <3>2. q # INIT /\ state'[q] \notin {"UNUSED", "EMBRYO"} => parent[q] # Nil
      BY Zenon, <1>1, <1>4, <2>1 DEF WaitInv
    <3> QED BY <1>4, <2>1, <3>1, <3>2, SlotFacts DEF WaitInv
  <2>3. parent'[q] # Nil => state'[parent'[q]] \in Live
    <3>1. CASE parent[q] = p
      BY ZenonT(60), <1>4, <2>1, <3>1, SlotFacts DEF Live
    <3>2. CASE parent[q] # p
      BY <1>4, <2>1, <3>2 DEF WaitInv, Live
    <3> QED BY Zenon, <3>1, <3>2
  <2>4. ASSUME state'[q] = "SLEEPING", chan'[q] = q
        PROVE  /\ ~killed'[q] /\ \E r \in Slots : parent'[r] = q
               /\ \A r \in Slots : parent'[r] = q => state'[r] # "ZOMBIE"
    <3>1. q # p /\ state[q] = "SLEEPING" /\ chan[q] = q /\ woken[q] = "SLEEPING"
      BY Zenon, <1>2, <1>4, <2>4
    <3>2. ~killed[q] /\ \E r \in Slots : parent[r] = q
      BY Zenon, <2>1, <3>1 DEF WaitInv
    <3>3. ASSUME NEW r \in Slots, parent'[r] = q, state'[r] = "ZOMBIE" PROVE FALSE
      <4>1. CASE r = p
        <5>1. parent[p] # p
          BY Zenon, <2>1 DEF WaitInv
        <5>2. q = parent[p]
          BY Zenon, <1>4, <3>3, <4>1, <5>1
        <5> QED BY ZenonT(60), <1>1, <3>1, <5>2, ExitWakes DEF woken
      <4>2. CASE r # p /\ parent[r] = p
        <5>1. q = INIT /\ state[r] = "ZOMBIE"
          BY Zenon, <1>4, <3>3, <4>2
        <5> QED BY ZenonT(60), <1>1, <3>1, <4>2, <5>1, ExitWakes DEF woken
      <4>3. CASE r # p /\ parent[r] # p
        <5>1. parent[r] = q /\ state[r] = "ZOMBIE"
          BY Zenon, <1>4, <3>3, <4>3
        <5> QED BY Zenon, <2>1, <3>1, <5>1 DEF WaitInv
      <4> QED BY Zenon, <4>1, <4>2, <4>3
    <3> QED BY ZenonT(40), <1>2, <1>4, <3>1, <3>2, <3>3
  <2> QED BY Zenon, <2>2, <2>3, <2>4 DEF WaitInv
<1> QED
  BY Zenon, <1>5, <1>6, <1>7, <1>8, <1>9, <1>10, <1>11 DEF IInv

\* wait frees a zombie child, whose stack no CPU stands on any more: exit left it
\* under the lock that wait holds now.
LEMMA WaitReapKeeps ==
  ASSUME IInv, NEW c \in Cpus, Wait(c),
         \E q \in Slots : parent[q] = cpuproc[c] /\ state[q] = "ZOMBIE"
  PROVE  IInv'
<1> DEFINE p == cpuproc[c]
<1>0. PICK z \in {q \in Slots : parent[q] = p /\ state[q] = "ZOMBIE"} :
        /\ Reap(z) /\ ptlock' = NoCpu /\ pc' = Set(pc, p, "ret") /\ UNCHANGED <<chan, spc, ctx>>
  BY Zenon DEF Wait
<1>1. /\ p \in Slots /\ spc[c] = "proc" /\ irq[c] = "none" /\ ctx[p] = "run"
      /\ pc[p] \in {"wait", "waitloop"} /\ state[p] = "RUNNING" /\ p # Nil /\ ptlock \in {NoCpu, c}
      /\ z \in Slots /\ parent[z] = p /\ state[z] = "ZOMBIE" /\ z # p
  <2>1. pc[p] = "waitloop" => ptlock = c
    BY Zenon DEF IInv, PtLockInv, Wait, Exec
  <2>2. z \in Slots /\ parent[z] = p /\ state[z] = "ZOMBIE"
    BY Zenon, <1>0
  <2> QED BY Zenon, <2>1, <2>2, Current DEF Exec, Wait, Free
<1>2. /\ ptlock' = NoCpu
      /\ UNCHANGED <<chan, myquantum, nextpid, tickslock, cpuproc, spc, irq, ctx, child,
                           left>>
  BY Zenon, <1>0 DEF Wait, Reap, Set
<1>3. /\ kstack' = [kstack EXCEPT ![z] = FALSE] /\ pid' = [pid EXCEPT ![z] = 0]
      /\ parent' = [parent EXCEPT ![z] = Nil] /\ killed' = [killed EXCEPT ![z] = FALSE]
      /\ state' = [state EXCEPT ![z] = "UNUSED"]
      /\ pc' = [pc EXCEPT ![p] = "ret"]
  BY Zenon, <1>0 DEF Wait, Reap, Set
<1>4. /\ pc'[p] = "ret" /\ state'[z] = "UNUSED" /\ parent'[z] = Nil /\ killed'[z] = FALSE
      /\ \A q \in Slots : q # p => pc'[q] = pc[q]
      /\ \A q \in Slots : q # z =>
           /\ state'[q] = state[q] /\ parent'[q] = parent[q] /\ killed'[q] = killed[q]
           /\ pid'[q] = pid[q] /\ kstack'[q] = kstack[q]
  BY ZenonT(60), <1>1, <1>2, <1>3 DEF IInv, TypeOK
<1>5. TypeOK' /\ nextpid' # 0 /\ state'[INIT] \in Live
  <2>1. TypeOK'
    BY Zenon, <1>2, <1>3 DEF IInv, TypeOK, PC, PState
  <2>2. nextpid' # 0 /\ state'[INIT] \in Live
    BY Zenon, <1>1, <1>2, <1>4, SlotFacts DEF IInv, Live
  <2> QED BY Zenon, <2>1, <2>2
<1>6. ASSUME NEW d \in Cpus PROVE PtLockInv(d)' /\ TicksLockInv(d)' /\ IrqInv(d)'
  <2>1. CASE d = c
    <3>1. PtLockInv(c) /\ TicksLockInv(c) /\ IrqInv(c)
      BY Zenon DEF IInv
    <3> QED BY Zenon, <1>1, <1>2, <1>4, <2>1, <3>1, CpusAssumption DEF PtLockInv, TicksLockInv, IrqInv
  <2>2. CASE d # c
    <3>1. (ptlock' = d <=> ptlock = d) /\ (tickslock' = d <=> tickslock = d)
      BY Zenon, <1>1, <1>2, <1>4, <2>2, CpusAssumption
    <3> QED BY Zenon, <1>1, <1>2, <1>4, <2>2, <3>1, OtherCpus
  <2> QED BY Zenon, <2>1, <2>2
<1>7. ASSUME NEW d \in Cpus PROVE CpuInv(d)'
  <2>1. cpuproc[d] # Nil => cpuproc[d] # z
    <3>1. CpuInv(d) /\ PtLockInv(d) /\ (cpuproc[d] # Nil => spc[d] \in {"proc", "back", "panic"})
      BY Zenon, OnCpu DEF IInv
    <3> QED BY Zenon, <1>1, <3>1, CpusAssumption DEF CpuInv, PtLockInv
  <2> QED BY ZenonT(60), <1>2, <1>4, <2>1, CpusKeep, OnCpu
<1>8. ASSUME NEW q \in Slots PROVE CtxInv(q)'
  <2>1. CtxInv(q)
    BY Zenon DEF IInv
  <2> QED BY ZenonT(60), <1>1, <1>2, <1>4, <2>1 DEF CtxInv
<1>9. ASSUME NEW q \in Slots PROVE SlotInv(q)'
  <2>1. SlotInv(q)
    BY Zenon DEF IInv
  <2>2. CASE q = z
    BY Zenon, <1>4, <2>2 DEF SlotInv
  <2>3. CASE q # z
    BY Zenon, <1>4, <2>1, <2>3, SlotFrame
  <2> QED BY Zenon, <2>2, <2>3
<1>10. ASSUME NEW q \in Slots PROVE ForkInv(q)'
  <2>1. \A r \in Slots : pc[r] \in Forking =>
          /\ r # z /\ state[r] \in {"RUNNABLE", "RUNNING"} /\ child[r] \in Slots /\ child[r] # z
    BY Zenon, <1>1 DEF IInv, ForkInv
  <2> QED BY ZenonT(40), <1>1, <1>2, <1>4, <2>1, ForkFrame DEF IInv, Forking
<1>11. ASSUME NEW q \in Slots PROVE WaitInv(q)'
  <2>1. WaitInv(q)
    BY Zenon DEF IInv
  <2>2. CASE q = z
    BY Zenon, <1>1, <1>4, <2>2, SlotFacts DEF WaitInv
  <2>3. CASE q # z
    <3>1. parent[q] # Nil => parent[q] \in Slots /\ parent[q] # z
      BY <1>1, <2>1 DEF IInv, TypeOK, WaitInv, Live
    <3>2. ASSUME state[q] = "SLEEPING", chan[q] = q
          PROVE  /\ \E r \in Slots : parent'[r] = q
                 /\ \A r \in Slots : parent'[r] = q => state'[r] # "ZOMBIE"
      <4>1. PICK r \in Slots : parent[r] = q
        BY Zenon, <2>1, <3>2 DEF WaitInv
      <4>2. r # z
        BY Zenon, <1>1, <3>2, <4>1
      <4>3. ASSUME NEW s \in Slots, parent'[s] = q PROVE state'[s] # "ZOMBIE"
        BY ZenonT(40), <1>4, <2>1, <3>2, <4>3 DEF WaitInv
      <4> QED BY Zenon, <1>4, <4>1, <4>2, <4>3
    <3> QED BY ZenonT(40), <1>2, <1>4, <2>1, <2>3, <3>1, <3>2 DEF WaitInv
  <2> QED BY Zenon, <2>2, <2>3
<1> QED
  BY Zenon, <1>5, <1>6, <1>7, <1>8, <1>9, <1>10, <1>11 DEF IInv

\* wait has no child to wait for, or is killed: it returns.
LEMMA WaitNoneKeeps ==
  ASSUME IInv, NEW c \in Cpus, Wait(c),
         ptlock' = NoCpu, pc' = Set(pc, cpuproc[c], "ret"),
         UNCHANGED <<state, pid, parent, chan, killed, kstack, spc, ctx>>
  PROVE  IInv'
<1> DEFINE p == cpuproc[c]
<1>1. /\ p \in Slots /\ spc[c] = "proc" /\ irq[c] = "none" /\ ctx[p] = "run"
      /\ pc[p] \in {"wait", "waitloop"} /\ state[p] = "RUNNING" /\ p # Nil /\ ptlock \in {NoCpu, c}
  <2>1. pc[p] = "waitloop" => ptlock = c
    BY Zenon DEF IInv, PtLockInv, Wait, Exec
  <2> QED BY Zenon, <2>1, Current DEF Exec, Wait, Free
<1>2. /\ ptlock' = NoCpu
      /\ UNCHANGED <<state, pid, parent, chan, killed, kstack, myquantum, nextpid,
                           tickslock, cpuproc, spc, irq, ctx, child, left>>
  BY Zenon DEF Wait, Set
<1>3. pc' = [pc EXCEPT ![p] = "ret"]
  BY Zenon DEF Wait, Set
<1>4. /\ pc'[p] = "ret" /\ \A q \in Slots : q # p => pc'[q] = pc[q]
  BY <1>1, <1>2, <1>3 DEF IInv, TypeOK
<1>5. TypeOK' /\ nextpid' # 0 /\ state'[INIT] \in Live
  <2>1. TypeOK'
    BY <1>2, <1>3 DEF IInv, TypeOK, PC
  <2>2. nextpid' # 0 /\ state'[INIT] \in Live
    BY Zenon, <1>2 DEF IInv
  <2> QED BY Zenon, <2>1, <2>2
<1>6. ASSUME NEW d \in Cpus PROVE PtLockInv(d)' /\ TicksLockInv(d)' /\ IrqInv(d)'
  <2>1. CASE d = c
    <3>1. PtLockInv(c) /\ TicksLockInv(c) /\ IrqInv(c)
      BY Zenon DEF IInv
    <3> QED BY Zenon, <1>1, <1>2, <1>4, <2>1, <3>1, CpusAssumption DEF PtLockInv, TicksLockInv, IrqInv
  <2>2. CASE d # c
    <3>1. (ptlock' = d <=> ptlock = d) /\ (tickslock' = d <=> tickslock = d)
      BY Zenon, <1>1, <1>2, <1>4, <2>2, CpusAssumption
    <3> QED BY Zenon, <1>1, <1>2, <1>4, <2>2, <3>1, OtherCpus
  <2> QED BY Zenon, <2>1, <2>2
<1>7. ASSUME NEW d \in Cpus PROVE CpuInv(d)'
  BY ZenonT(40), <1>2, CpusKeep
<1>8. ASSUME NEW q \in Slots PROVE CtxInv(q)'
  BY <1>1, <1>2, <1>4, CtxFrame DEF IInv, CtxInv
<1>9. ASSUME NEW q \in Slots PROVE SlotInv(q)'
  BY Zenon, <1>2, SlotFrame DEF IInv
<1>10. ASSUME NEW q \in Slots PROVE ForkInv(q)'
  <2>1. \A r \in Slots : ForkInv(r)
    BY Zenon DEF IInv
  <2>2. \A r \in Slots : pc'[r] \in Forking => pc'[r] = pc[r]
    BY Zenon, <1>1, <1>4 DEF Forking
  <2>3. \A r \in Slots : state[r] = "EMBRYO" => pc'[r] = pc[r]
    BY Zenon, <1>1, <1>4
  <2> QED BY Zenon, <1>2, <2>1, <2>2, <2>3, ForkFrame DEF ForkInv
<1>11. ASSUME NEW q \in Slots PROVE WaitInv(q)'
  BY Zenon, <1>2, WaitFrame DEF IInv, TypeOK
<1> QED
  BY Zenon, <1>5, <1>6, <1>7, <1>8, <1>9, <1>10, <1>11 DEF IInv

\* wait's loop body.
LEMMA WaitKeeps ==
  ASSUME IInv, NEW c \in Cpus, Wait(c)
  PROVE  IInv'
<1> DEFINE p == cpuproc[c]
           kids == {q \in Slots : parent[q] = p}
           zombies == {q \in kids : state[q] = "ZOMBIE"}
<1> SUFFICES ASSUME zombies = {}, kids # {}, ~killed[p],
                    chan' = Set(chan, p, p), state' = Set(state, p, "SLEEPING"),
                    pc' = Set(pc, p, "waitloop"), Sched(c, "sleep"),
                    UNCHANGED <<pid, parent, killed, kstack>>
             PROVE  IInv'
  BY Zenon, WaitReapKeeps, WaitNoneKeeps DEF Wait
<1>1. /\ p \in Slots /\ spc[c] = "proc" /\ irq[c] = "none" /\ ctx[p] = "run"
      /\ pc[p] \in {"wait", "waitloop"} /\ state[p] = "RUNNING" /\ p # Nil /\ ptlock \in {NoCpu, c}
  <2>1. pc[p] = "waitloop" => ptlock = c
    BY Zenon DEF IInv, PtLockInv, Wait, Exec
  <2> QED BY Zenon, <2>1, Current DEF Exec, Wait, Free
<1>2. /\ ptlock' = c
      /\ UNCHANGED <<pid, parent, killed, kstack, myquantum, nextpid, tickslock, cpuproc,
                           irq, child, left>>
  BY Zenon DEF Wait, Set, Sched
<1>3. /\ chan' = [chan EXCEPT ![p] = p] /\ state' = [state EXCEPT ![p] = "SLEEPING"]
      /\ pc' = [pc EXCEPT ![p] = "waitloop"] /\ spc' = [spc EXCEPT ![c] = "back"]
      /\ ctx' = [ctx EXCEPT ![p] = "sleep"]
  BY ZenonT(60) DEF Wait, Set, Sched
<1>4. /\ pc'[p] = "waitloop" /\ state'[p] = "SLEEPING" /\ chan'[p] = p /\ ctx'[p] = "sleep"
      /\ \A q \in Slots : q # p =>
           pc'[q] = pc[q] /\ state'[q] = state[q] /\ chan'[q] = chan[q] /\ ctx'[q] = ctx[q]
      /\ spc'[c] = "back" /\ \A d \in Cpus : d # c => spc'[d] = spc[d]
  BY <1>1, <1>2, <1>3 DEF IInv, TypeOK
<1>5. TypeOK' /\ nextpid' # 0 /\ state'[INIT] \in Live
  <2>1. TypeOK'
    <3>1. p \in 0 .. TICKS
      BY <1>1, NPROCAssumption DEF Slots, TICKS
    <3>2. chan' \in [Slots -> 0 .. TICKS]
      BY Zenon, <1>2, <1>3, <3>1 DEF IInv, TypeOK
    <3> QED BY SMTT(30), <1>2, <1>3, <3>2 DEF IInv, TypeOK, PC, PState
  <2>2. nextpid' # 0 /\ state'[INIT] \in Live
    BY Zenon, <1>1, <1>2, <1>4, SlotFacts DEF IInv, Live
  <2> QED BY ZenonT(40), <2>1, <2>2
<1>6. ASSUME NEW d \in Cpus PROVE PtLockInv(d)' /\ TicksLockInv(d)' /\ IrqInv(d)'
  <2>1. CASE d = c
    <3>1. PtLockInv(c) /\ TicksLockInv(c) /\ IrqInv(c)
      BY Zenon DEF IInv
    <3> QED BY Zenon, <1>1, <1>2, <1>4, <2>1, <3>1, CpusAssumption DEF PtLockInv, TicksLockInv, IrqInv
  <2>2. CASE d # c
    <3>1. (ptlock' = d <=> ptlock = d) /\ (tickslock' = d <=> tickslock = d)
      BY ZenonT(60), <1>1, <1>2, <1>4, <2>2, CpusAssumption
    <3> QED BY Zenon, <1>1, <1>2, <1>4, <2>2, <3>1, OtherCpus
  <2> QED BY Zenon, <2>1, <2>2
<1>7. ASSUME NEW d \in Cpus PROVE CpuInv(d)'
  <2>1. CASE d = c
    <3>1. CpuInv(c)
      BY Zenon DEF IInv
    <3> QED BY Zenon, <1>1, <1>2, <1>4, <2>1, <3>1 DEF CpuInv
  <2>2. CASE d # c
    <3>1. cpuproc[d] # Nil => cpuproc[d] \in Slots /\ cpuproc[d] # p
      BY Zenon, <2>2, OnCpu
    <3> QED BY ZenonT(60), <1>1, <1>2, <1>4, <2>2, <3>1, CpusAssumption, CpusKeep
  <2> QED BY Zenon, <2>1, <2>2
<1>8. ASSUME NEW q \in Slots PROVE CtxInv(q)'
  <2>1. CtxInv(q)
    BY Zenon DEF IInv
  <2>2. CASE q = p
    BY Zenon, <1>4, <2>2 DEF CtxInv
  <2>3. CASE q # p
    BY ZenonT(40), <1>1, <1>2, <1>4, <2>1, <2>3 DEF CtxInv
  <2> QED BY Zenon, <2>2, <2>3
<1>9. ASSUME NEW q \in Slots PROVE SlotInv(q)'
  BY Zenon, <1>1, <1>2, <1>4, SlotFrame DEF IInv, SlotInv
<1>10. ASSUME NEW q \in Slots PROVE ForkInv(q)'
  <2>1. \A r \in Slots : pc[r] \in Forking => r # p /\ state[r] \in {"RUNNABLE", "RUNNING"}
    BY Zenon, <1>1 DEF IInv, ForkInv, Forking
  <2>2. \A r \in Slots : pc'[r] \in Forking => r # p /\ pc[r] \in Forking
    BY Zenon, <1>4 DEF Forking
  <2> QED BY ZenonT(60), <1>1, <1>2, <1>4, <2>1, <2>2, ForkFrame DEF IInv
<1>11. ASSUME NEW q \in Slots PROVE WaitInv(q)'
  <2>1. WaitInv(q) /\ parent[q] \in Slots \cup {Nil}
    BY Zenon DEF IInv, TypeOK
  <2>2. CASE q = p
    <3>1. \A r \in Slots : parent'[r] = p => state'[r] # "ZOMBIE"
      BY <1>2, <1>4
    <3>2. \E r \in Slots : parent'[r] = p
      BY Zenon, <1>2
    <3>3. parent[p] # Nil => state'[parent[p]] \in Live
      BY Zenon, <1>4, <2>1, <2>2 DEF WaitInv, Live
    <3>4. p # INIT => parent[p] # Nil
      BY ZenonT(60), <1>1, <2>1, <2>2 DEF WaitInv
    <3> QED BY Zenon, <1>2, <2>1, <2>2, <3>1, <3>2, <3>3, <3>4 DEF WaitInv
  <2>3. CASE q # p
    BY <1>1, <1>2, <1>4, <2>1, <2>3 DEF WaitInv, Live
  <2> QED BY Zenon, <2>2, <2>3
<1> QED
  BY Zenon, <1>5, <1>6, <1>7, <1>8, <1>9, <1>10, <1>11 DEF IInv

-----------------------------------------------------------------------------
(* kill(), and sys_sleep() with sleep() and its wakeup                     *)

\* kill finds no such process.
LEMMA KillNoneKeeps ==
  ASSUME IInv, NEW c \in Cpus, Kill(c), UNCHANGED <<state, killed>>
  PROVE  IInv'
<1> DEFINE p == cpuproc[c]
<1>1. /\ p \in Slots /\ spc[c] = "proc" /\ irq[c] = "none" /\ ctx[p] = "run" /\ pc[p] = "kill"
      /\ state[p] = "RUNNING"
  BY Zenon, Current DEF Exec, Kill
<1>2. UNCHANGED <<state, pid, parent, chan, killed, kstack, myquantum, nextpid, ptlock,
                  tickslock, cpuproc, spc, irq, ctx, child, left>>
  BY Zenon DEF Kill, Set, cpuvars
<1>3. pc' = [pc EXCEPT ![p] = "ret"]
  BY Zenon DEF Kill, Set, cpuvars
<1>4. /\ pc'[p] = "ret" /\ \A q \in Slots : q # p => pc'[q] = pc[q]
  BY Zenon, <1>1, <1>2, <1>3 DEF IInv, TypeOK
<1>5. TypeOK' /\ nextpid' # 0 /\ state'[INIT] \in Live
  <2>1. TypeOK'
    BY Zenon, <1>2, <1>3 DEF IInv, TypeOK, PC
  <2>2. nextpid' # 0 /\ state'[INIT] \in Live
    BY Zenon, <1>2 DEF IInv
  <2> QED BY Zenon, <2>1, <2>2
<1>6. ASSUME NEW d \in Cpus PROVE PtLockInv(d)' /\ TicksLockInv(d)' /\ IrqInv(d)'
  <2>1. CASE d = c
    <3>1. PtLockInv(c) /\ TicksLockInv(c) /\ IrqInv(c)
      BY Zenon DEF IInv
    <3> QED BY Zenon, <1>1, <1>2, <1>4, <2>1, <3>1 DEF PtLockInv, TicksLockInv, IrqInv
  <2>2. CASE d # c
    BY Zenon, <1>1, <1>2, <1>4, <2>2, OtherCpus
  <2> QED BY Zenon, <2>1, <2>2
<1>7. ASSUME NEW d \in Cpus PROVE CpuInv(d)'
  BY Zenon, <1>2, CpusKeep
<1>8. ASSUME NEW q \in Slots PROVE CtxInv(q)'
  BY ZenonT(40), <1>1, <1>2, <1>4, CtxFrame DEF IInv, CtxInv
<1>9. ASSUME NEW q \in Slots PROVE SlotInv(q)'
  BY Zenon, <1>2, SlotFrame DEF IInv
<1>10. ASSUME NEW q \in Slots PROVE ForkInv(q)'
  BY ZenonT(60), <1>1, <1>2, <1>4, ForkFrame DEF IInv, ForkInv, Forking
<1>11. ASSUME NEW q \in Slots PROVE WaitInv(q)'
  BY Zenon, <1>2, WaitFrame DEF IInv, TypeOK
<1> QED
  BY Zenon, <1>5, <1>6, <1>7, <1>8, <1>9, <1>10, <1>11 DEF IInv
\* kill marks its victim and wakes it if it sleeps.
LEMMA KillKeeps ==
  ASSUME IInv, NEW c \in Cpus, Kill(c)
  PROVE  IInv'
<1> DEFINE p == cpuproc[c]
<1> SUFFICES ASSUME NEW target \in KillPids, NEW v \in Slots, pid[v] = target,
                    killed' = Set(killed, v, TRUE), state' = KillWakes(v)
             PROVE  IInv'
  BY Zenon, KillNoneKeeps DEF Kill
<1>0. v \in Slots /\ target \in Nat /\ (pid[v] = 0 => 0 \in KillPids)
  BY Zenon, BoundsAssumption
<1>1. /\ p \in Slots /\ spc[c] = "proc" /\ irq[c] = "none" /\ ctx[p] = "run" /\ pc[p] = "kill"
      /\ state[p] = "RUNNING" /\ ptlock = NoCpu
  BY Zenon, Current DEF Exec, Kill, Free
<1>2. UNCHANGED <<pid, parent, chan, kstack, myquantum, nextpid, ptlock, tickslock,
                  cpuproc, spc, irq, ctx, child, left>>
  BY Zenon, <1>0, <1>1 DEF Kill, KillWakes, Set, cpuvars, IInv, TypeOK
<1>3. /\ pc' = [pc EXCEPT ![p] = "ret"] /\ killed' = [killed EXCEPT ![v] = TRUE]
      /\ state' = [state EXCEPT ![v] = IF state[v] = "SLEEPING" THEN "RUNNABLE" ELSE state[v]]
  BY Zenon, <1>0, <1>1 DEF Kill, KillWakes, Set, cpuvars, IInv, TypeOK
<1>4. /\ pc'[p] = "ret" /\ \A q \in Slots : q # p => pc'[q] = pc[q]
      /\ state'[v] = IF state[v] = "SLEEPING" THEN "RUNNABLE" ELSE state[v]
      /\ \A q \in Slots : q # v => state'[q] = state[q] /\ killed'[q] = killed[q]
  BY ZenonT(40), <1>1, <1>2, <1>3 DEF IInv, TypeOK
<1>5. TypeOK' /\ nextpid' # 0 /\ state'[INIT] \in Live
  <2>1. TypeOK'
    <3>1. state' \in [Slots -> PState]
      BY ZenonT(40), <1>2, <1>3 DEF IInv, TypeOK, PState
    <3> QED BY Zenon, <1>2, <1>3, <3>1 DEF IInv, TypeOK, PC
  <2>2. nextpid' # 0 /\ state'[INIT] \in Live
    BY Zenon, <1>2, <1>4, SlotFacts DEF IInv, Live
  <2> QED BY Zenon, <2>1, <2>2
<1>6. ASSUME NEW d \in Cpus PROVE PtLockInv(d)' /\ TicksLockInv(d)' /\ IrqInv(d)'
  <2>1. CASE d = c
    <3>1. PtLockInv(c) /\ TicksLockInv(c) /\ IrqInv(c)
      BY Zenon DEF IInv
    <3> QED BY Zenon, <1>1, <1>2, <1>4, <2>1, <3>1 DEF PtLockInv, TicksLockInv, IrqInv
  <2>2. CASE d # c
    BY Zenon, <1>1, <1>2, <1>4, <2>2, OtherCpus
  <2> QED BY Zenon, <2>1, <2>2
<1>7. ASSUME NEW d \in Cpus PROVE CpuInv(d)'
  <2>1. ptlock # d
    BY Zenon, <1>1, CpusAssumption
  <2>2. cpuproc[d] # Nil => cpuproc[d] \in Slots
    BY Zenon, OnCpu
  <2>3. \A q \in Slots : state[q] = "RUNNING" => state'[q] = "RUNNING"
    BY Zenon, <1>4
  <2> QED BY Zenon, <1>2, <2>1, <2>2, <2>3, CpusKeep
<1>8. ASSUME NEW q \in Slots PROVE CtxInv(q)'
  <2>1. CtxInv(q)
    BY Zenon DEF IInv
  <2>2. state'[q] = state[q] \/ (state[q] = "SLEEPING" /\ state'[q] = "RUNNABLE")
    BY Zenon, <1>4
  <2> QED BY Zenon, <1>1, <1>2, <1>4, <2>1, <2>2 DEF CtxInv
<1>9. ASSUME NEW q \in Slots PROVE SlotInv(q)'
  <2>1. SlotInv(q)
    BY Zenon DEF IInv
  <2>2. CASE q = v
    BY Zenon, <1>0, <1>2, <1>4, <2>1, <2>2 DEF SlotInv
  <2>3. CASE q # v
    BY Zenon, <1>2, <1>4, <2>1, <2>3, SlotFrame
  <2> QED BY Zenon, <2>2, <2>3
<1>10. ASSUME NEW q \in Slots PROVE ForkInv(q)'
  <2>1. \A r \in Slots : pc[r] \in Forking => state'[r] \in {"RUNNABLE", "RUNNING"}
    BY Zenon, <1>4 DEF IInv, ForkInv
  <2>2. \A r \in Slots : pc'[r] \in Forking => r # p /\ pc[r] \in Forking
    BY Zenon, <1>4 DEF Forking
  <2> QED BY ZenonT(60), <1>1, <1>2, <1>4, <2>1, <2>2, ForkFrame DEF IInv
<1>11. ASSUME NEW q \in Slots PROVE WaitInv(q)'
  <2>1. \A r \in Slots :
          /\ state'[r] \notin {"UNUSED", "EMBRYO"} => state[r] \notin {"UNUSED", "EMBRYO"}
          /\ state[r] \in Live => state'[r] \in Live
          /\ state'[r] = "SLEEPING" => state[r] = "SLEEPING" /\ killed'[r] = killed[r]
          /\ state'[r] = "ZOMBIE" => state[r] = "ZOMBIE"
    BY Zenon, <1>4 DEF Live
  <2> QED BY Zenon, <1>2, <2>1, WaitFrame DEF IInv, TypeOK
<1> QED
  BY Zenon, <1>5, <1>6, <1>7, <1>8, <1>9, <1>10, <1>11 DEF IInv

\* sys_sleep takes tickslock and reads ticks.
LEMMA SleepStartKeeps ==
  ASSUME IInv, NEW c \in Cpus, SleepStart(c)
  PROVE  IInv'
<1> DEFINE p == cpuproc[c]
<1>1. /\ p \in Slots /\ spc[c] = "proc" /\ irq[c] = "none" /\ ctx[p] = "run" /\ pc[p] = "sleep"
      /\ state[p] = "RUNNING" /\ tickslock = NoCpu
  BY Zenon, Current DEF Exec, SleepStart, Free
<1>2. /\ tickslock' = c
      /\ UNCHANGED <<state, pid, parent, chan, killed, kstack, myquantum, nextpid, ptlock,
                           cpuproc, spc, irq, ctx, child>>
  BY Zenon DEF SleepStart, Set, procvars, cpuvars
<1>3. /\ pc' = [pc EXCEPT ![p] = "check"]
      /\ left' \in [Slots -> 0 .. MaxSleep]
  <2>1. PICK n \in 0 .. MaxSleep : left' = [left EXCEPT ![p] = n]
    BY Zenon DEF SleepStart, Set
  <2>2. left' \in [Slots -> 0 .. MaxSleep]
    BY Zenon, <2>1 DEF IInv, TypeOK
  <2> QED BY Zenon, <2>2 DEF SleepStart, Set, procvars, cpuvars
<1>4. /\ pc'[p] = "check" /\ \A q \in Slots : q # p => pc'[q] = pc[q]
  BY Zenon, <1>1, <1>2, <1>3 DEF IInv, TypeOK
<1>5. TypeOK' /\ nextpid' # 0 /\ state'[INIT] \in Live
  <2>1. TypeOK'
    BY Zenon, <1>2, <1>3 DEF IInv, TypeOK, PC
  <2>2. nextpid' # 0 /\ state'[INIT] \in Live
    BY Zenon, <1>2 DEF IInv
  <2> QED BY Zenon, <2>1, <2>2
<1>6. ASSUME NEW d \in Cpus PROVE PtLockInv(d)' /\ TicksLockInv(d)' /\ IrqInv(d)'
  <2>1. CASE d = c
    <3>1. PtLockInv(c) /\ TicksLockInv(c) /\ IrqInv(c)
      BY Zenon DEF IInv
    <3> QED BY Zenon, <1>1, <1>2, <1>4, <2>1, <3>1, CpusAssumption DEF PtLockInv, TicksLockInv, IrqInv
  <2>2. CASE d # c
    <3>1. (ptlock' = d <=> ptlock = d) /\ (tickslock' = d <=> tickslock = d)
      BY Zenon, <1>1, <1>2, <1>4, <2>2, CpusAssumption
    <3> QED BY Zenon, <1>1, <1>2, <1>4, <2>2, <3>1, OtherCpus
  <2> QED BY Zenon, <2>1, <2>2
<1>7. ASSUME NEW d \in Cpus PROVE CpuInv(d)'
  BY Zenon, <1>2, CpusKeep
<1>8. ASSUME NEW q \in Slots PROVE CtxInv(q)'
  BY ZenonT(40), <1>1, <1>2, <1>4, CtxFrame DEF IInv, CtxInv
<1>9. ASSUME NEW q \in Slots PROVE SlotInv(q)'
  BY Zenon, <1>2, SlotFrame DEF IInv
<1>10. ASSUME NEW q \in Slots PROVE ForkInv(q)'
  BY ZenonT(60), <1>1, <1>2, <1>4, ForkFrame DEF IInv, ForkInv, Forking
<1>11. ASSUME NEW q \in Slots PROVE WaitInv(q)'
  BY Zenon, <1>2, WaitFrame DEF IInv, TypeOK
<1> QED
  BY Zenon, <1>5, <1>6, <1>7, <1>8, <1>9, <1>10, <1>11 DEF IInv

\* sleep takes tickslock back.
LEMMA SleepReacquireKeeps ==
  ASSUME IInv, NEW c \in Cpus, SleepReacquire(c)
  PROVE  IInv'
<1> DEFINE p == cpuproc[c]
<1>1. /\ p \in Slots /\ spc[c] = "proc" /\ irq[c] = "none" /\ ctx[p] = "run" /\ pc[p] = "reacquire"
      /\ state[p] = "RUNNING" /\ tickslock = NoCpu
  BY Zenon, Current DEF Exec, SleepReacquire, Free
<1>2. /\ tickslock' = c
      /\ UNCHANGED <<state, pid, parent, chan, killed, kstack, myquantum, nextpid, ptlock,
                           cpuproc, spc, irq, ctx, child, left>>
  BY Zenon DEF SleepReacquire, Set, procvars, cpuvars
<1>3. pc' = [pc EXCEPT ![p] = "check"]
  BY Zenon DEF SleepReacquire, Set, procvars, cpuvars
<1>4. /\ pc'[p] = "check" /\ \A q \in Slots : q # p => pc'[q] = pc[q]
  BY Zenon, <1>1, <1>2, <1>3 DEF IInv, TypeOK
<1>5. TypeOK' /\ nextpid' # 0 /\ state'[INIT] \in Live
  <2>1. TypeOK'
    BY Zenon, <1>2, <1>3 DEF IInv, TypeOK, PC
  <2>2. nextpid' # 0 /\ state'[INIT] \in Live
    BY Zenon, <1>2 DEF IInv
  <2> QED BY Zenon, <2>1, <2>2
<1>6. ASSUME NEW d \in Cpus PROVE PtLockInv(d)' /\ TicksLockInv(d)' /\ IrqInv(d)'
  <2>1. CASE d = c
    <3>1. PtLockInv(c) /\ TicksLockInv(c) /\ IrqInv(c)
      BY Zenon DEF IInv
    <3> QED BY ZenonT(60), <1>1, <1>2, <1>4, <2>1, <3>1, CpusAssumption DEF PtLockInv, TicksLockInv, IrqInv
  <2>2. CASE d # c
    <3>1. (ptlock' = d <=> ptlock = d) /\ (tickslock' = d <=> tickslock = d)
      BY Zenon, <1>1, <1>2, <1>4, <2>2, CpusAssumption
    <3> QED BY Zenon, <1>1, <1>2, <1>4, <2>2, <3>1, OtherCpus
  <2> QED BY Zenon, <2>1, <2>2
<1>7. ASSUME NEW d \in Cpus PROVE CpuInv(d)'
  BY Zenon, <1>2, CpusKeep
<1>8. ASSUME NEW q \in Slots PROVE CtxInv(q)'
  BY ZenonT(40), <1>1, <1>2, <1>4, CtxFrame DEF IInv, CtxInv
<1>9. ASSUME NEW q \in Slots PROVE SlotInv(q)'
  BY Zenon, <1>2, SlotFrame DEF IInv
<1>10. ASSUME NEW q \in Slots PROVE ForkInv(q)'
  BY ZenonT(60), <1>1, <1>2, <1>4, ForkFrame DEF IInv, ForkInv, Forking
<1>11. ASSUME NEW q \in Slots PROVE WaitInv(q)'
  BY Zenon, <1>2, WaitFrame DEF IInv, TypeOK
<1> QED
  BY Zenon, <1>5, <1>6, <1>7, <1>8, <1>9, <1>10, <1>11 DEF IInv

\* sys_sleep's loop condition: done, or on to sleep with tickslock held.
LEMMA SleepCheckKeeps ==
  ASSUME IInv, NEW c \in Cpus, SleepCheck(c)
  PROVE  IInv'
<1> DEFINE p == cpuproc[c]
           to == IF SleepDone(p) THEN "ret" ELSE "sleeping"
<1>1. /\ p \in Slots /\ spc[c] = "proc" /\ irq[c] = "none" /\ ctx[p] = "run" /\ pc[p] = "check"
      /\ state[p] = "RUNNING" /\ tickslock = c
  <2>1. /\ p \in Slots /\ spc[c] = "proc" /\ irq[c] = "none" /\ ctx[p] = "run" /\ pc[p] = "check"
        /\ state[p] = "RUNNING"
    BY Zenon, Current DEF Exec, SleepCheck
  <2>2. TicksLockInv(c)
    BY Zenon DEF IInv
  <2> QED BY Zenon, <2>1, <2>2 DEF TicksLockInv
<1>2. /\ tickslock' = IF SleepDone(p) THEN NoCpu ELSE tickslock
      /\ UNCHANGED <<state, pid, parent, chan, killed, kstack, myquantum, nextpid, ptlock,
                           cpuproc, spc, irq, ctx, child>>
  BY Zenon DEF SleepCheck, Set, procvars, cpuvars
<1>3. /\ pc' = [pc EXCEPT ![p] = to]
      /\ left' \in [Slots -> 0 .. MaxSleep]
  <2>1. left \in [Slots -> 0 .. MaxSleep] /\ 0 \in 0 .. MaxSleep
    BY BoundsAssumption DEF IInv, TypeOK
  <2>2. left' \in [Slots -> 0 .. MaxSleep]
    BY Zenon, <2>1 DEF SleepCheck, Set
  <2> QED BY Zenon, <2>2 DEF SleepCheck, Set, procvars, cpuvars
<1>4. /\ pc'[p] = to /\ to \in {"ret", "sleeping"} /\ \A q \in Slots : q # p => pc'[q] = pc[q]
      /\ to = "ret" => tickslock' = NoCpu
      /\ to = "sleeping" => tickslock' = c
  BY Zenon, <1>1, <1>2, <1>3 DEF IInv, TypeOK
<1> HIDE DEF to
<1>5. TypeOK' /\ nextpid' # 0 /\ state'[INIT] \in Live
  <2>1. TypeOK'
    BY Zenon, <1>1, <1>2, <1>3, <1>4 DEF IInv, TypeOK, PC
  <2>2. nextpid' # 0 /\ state'[INIT] \in Live
    BY Zenon, <1>2 DEF IInv
  <2> QED BY Zenon, <2>1, <2>2
<1>6. ASSUME NEW d \in Cpus PROVE PtLockInv(d)' /\ TicksLockInv(d)' /\ IrqInv(d)'
  <2>1. CASE d = c
    <3>1. PtLockInv(c) /\ TicksLockInv(c) /\ IrqInv(c)
      BY Zenon DEF IInv
    <3> QED BY Zenon, <1>1, <1>2, <1>4, <2>1, <3>1, CpusAssumption DEF PtLockInv, TicksLockInv, IrqInv
  <2>2. CASE d # c
    <3>1. (ptlock' = d <=> ptlock = d) /\ (tickslock' = d <=> tickslock = d)
      BY Zenon, <1>1, <1>2, <1>4, <2>2, CpusAssumption
    <3> QED BY Zenon, <1>1, <1>2, <1>4, <2>2, <3>1, OtherCpus
  <2> QED BY Zenon, <2>1, <2>2
<1>7. ASSUME NEW d \in Cpus PROVE CpuInv(d)'
  BY Zenon, <1>2, CpusKeep
<1>8. ASSUME NEW q \in Slots PROVE CtxInv(q)'
  BY ZenonT(40), <1>1, <1>2, <1>4, CtxFrame DEF IInv, CtxInv
<1>9. ASSUME NEW q \in Slots PROVE SlotInv(q)'
  BY Zenon, <1>2, SlotFrame DEF IInv
<1>10. ASSUME NEW q \in Slots PROVE ForkInv(q)'
  BY ZenonT(60), <1>1, <1>2, <1>4, ForkFrame DEF IInv, ForkInv, Forking
<1>11. ASSUME NEW q \in Slots PROVE WaitInv(q)'
  BY Zenon, <1>2, WaitFrame DEF IInv, TypeOK
<1> QED
  BY Zenon, <1>5, <1>6, <1>7, <1>8, <1>9, <1>10, <1>11 DEF IInv

\* sleep takes ptable.lock before it gives up tickslock, and leaves its stack.
LEMMA SleepKeeps ==
  ASSUME IInv, NEW c \in Cpus, Sleep(c)
  PROVE  IInv'
<1> DEFINE p == cpuproc[c]
<1>1. /\ p \in Slots /\ spc[c] = "proc" /\ irq[c] = "none" /\ ctx[p] = "run" /\ pc[p] = "sleeping"
      /\ state[p] = "RUNNING" /\ tickslock = c /\ ptlock = NoCpu
  <2>1. /\ p \in Slots /\ spc[c] = "proc" /\ irq[c] = "none" /\ ctx[p] = "run" /\ pc[p] = "sleeping"
        /\ state[p] = "RUNNING"
    BY Zenon, Current DEF Exec, Sleep
  <2>2. TicksLockInv(c)
    BY Zenon DEF IInv
  <2> QED BY Zenon, <2>1, <2>2 DEF TicksLockInv, Sleep, Free
<1>2. /\ ptlock' = c /\ tickslock' = NoCpu
      /\ UNCHANGED <<pid, parent, killed, kstack, myquantum, nextpid, cpuproc, irq, child,
                           left>>
  BY Zenon DEF Sleep, SleepLk, Sched, Set
<1>3. /\ chan' = [chan EXCEPT ![p] = TICKS] /\ state' = [state EXCEPT ![p] = "SLEEPING"]
      /\ pc' = [pc EXCEPT ![p] = "reacquire"] /\ spc' = [spc EXCEPT ![c] = "back"]
      /\ ctx' = [ctx EXCEPT ![p] = "sleep"]
  BY Zenon DEF Sleep, SleepLk, Sched, Set
<1>4. /\ pc'[p] = "reacquire" /\ state'[p] = "SLEEPING" /\ ctx'[p] = "sleep"
      /\ \A q \in Slots : q # p => pc'[q] = pc[q] /\ state'[q] = state[q] /\ ctx'[q] = ctx[q]
      /\ spc'[c] = "back" /\ \A d \in Cpus : d # c => spc'[d] = spc[d]
      /\ chan'[p] = TICKS /\ \A q \in Slots : q # p => chan'[q] = chan[q]
  BY ZenonT(60), <1>1, <1>2, <1>3 DEF IInv, TypeOK
<1>5. TypeOK' /\ nextpid' # 0 /\ state'[INIT] \in Live
  <2>1. TypeOK'
    <3>1. TICKS \in 0 .. TICKS
      BY NPROCAssumption DEF TICKS
    <3>2. chan' \in [Slots -> 0 .. TICKS]
      BY Zenon, <1>2, <1>3, <3>1 DEF IInv, TypeOK
    <3> QED BY Zenon, <1>2, <1>3, <3>2 DEF IInv, TypeOK, PC, PState
  <2>2. nextpid' # 0 /\ state'[INIT] \in Live
    BY Zenon, <1>1, <1>4, <1>2, SlotFacts DEF IInv, Live
  <2> QED BY Zenon, <2>1, <2>2
<1>6. ASSUME NEW d \in Cpus PROVE PtLockInv(d)' /\ TicksLockInv(d)' /\ IrqInv(d)'
  <2>1. CASE d = c
    <3>1. PtLockInv(c) /\ TicksLockInv(c) /\ IrqInv(c)
      BY Zenon DEF IInv
    <3> QED BY Zenon, <1>1, <1>2, <1>4, <2>1, <3>1, CpusAssumption DEF PtLockInv, TicksLockInv, IrqInv
  <2>2. CASE d # c
    <3>1. (ptlock' = d <=> ptlock = d) /\ (tickslock' = d <=> tickslock = d)
      BY Zenon, <1>1, <1>2, <1>4, <2>2, CpusAssumption
    <3> QED BY Zenon, <1>1, <1>2, <1>4, <2>2, <3>1, OtherCpus
  <2> QED BY Zenon, <2>1, <2>2
<1>7. ASSUME NEW d \in Cpus PROVE CpuInv(d)'
  <2>1. CASE d = c
    <3>1. CpuInv(c)
      BY Zenon DEF IInv
    <3> QED BY Zenon, <1>1, <1>2, <1>4, <2>1, <3>1 DEF CpuInv
  <2>2. CASE d # c
    <3>1. cpuproc[d] # Nil => cpuproc[d] \in Slots /\ cpuproc[d] # p
      BY Zenon, <2>2, OnCpu
    <3> QED BY Zenon, <1>1, <1>2, <1>4, <2>2, <3>1, CpusAssumption, CpusKeep
  <2> QED BY Zenon, <2>1, <2>2
<1>8. ASSUME NEW q \in Slots PROVE CtxInv(q)'
  <2>1. CtxInv(q)
    BY Zenon DEF IInv
  <2>2. CASE q = p
    BY Zenon, <1>1, <1>4, <2>2 DEF CtxInv
  <2>3. CASE q # p
    BY ZenonT(60), <1>1, <1>2, <1>4, <2>1, <2>3 DEF CtxInv
  <2> QED BY Zenon, <2>2, <2>3
<1>9. ASSUME NEW q \in Slots PROVE SlotInv(q)'
  BY Zenon, <1>1, <1>2, <1>4, SlotFrame DEF IInv, SlotInv
<1>10. ASSUME NEW q \in Slots PROVE ForkInv(q)'
  <2>1. \A r \in Slots : pc[r] \in Forking => state'[r] \in {"RUNNABLE", "RUNNING"}
    BY ZenonT(60), <1>1, <1>2, <1>4 DEF IInv, ForkInv, Forking
  <2>2. \A r \in Slots : pc'[r] \in Forking => pc'[r] = pc[r]
    BY Zenon, <1>1, <1>2, <1>4 DEF Forking
  <2> QED BY ZenonT(60), <1>1, <1>2, <1>4, <2>1, <2>2, ForkFrame DEF IInv
<1>11. ASSUME NEW q \in Slots PROVE WaitInv(q)'
  <2>1. \A r \in Slots :
          /\ state'[r] \notin {"UNUSED", "EMBRYO"} => state[r] \notin {"UNUSED", "EMBRYO"}
          /\ state[r] \in Live => state'[r] \in Live
          /\ state'[r] = "SLEEPING" /\ chan'[r] = r => state[r] = "SLEEPING" /\ chan[r] = r
          /\ state'[r] = "ZOMBIE" => state[r] = "ZOMBIE"
    BY ZenonT(60), <1>1, <1>2, <1>4, SlotFacts DEF Live
  <2> QED BY Zenon, <1>2, <2>1, WaitFrame DEF IInv, TypeOK
<1> QED
  BY Zenon, <1>5, <1>6, <1>7, <1>8, <1>9, <1>10, <1>11 DEF IInv

\* sleep, back from sched, releases ptable.lock unless it is the caller's lock.
LEMMA SleepResumeKeeps ==
  ASSUME IInv, NEW c \in Cpus, SleepResume(c)
  PROVE  IInv'
<1> DEFINE p == cpuproc[c]
<1>1. /\ p \in Slots /\ spc[c] = "proc" /\ irq[c] = "none" /\ ctx[p] = "sleep"
      /\ state[p] = "RUNNING" /\ ptlock = c
  <2>1. p \in Slots /\ state[p] = "RUNNING" /\ spc[c] = "proc" /\ ctx[p] = "sleep"
    BY Zenon, Current DEF SleepResume
  <2>2. PtLockInv(c) /\ IrqInv(c) /\ CtxInv(p) /\ irq[c] \in {"none", "wakeup", "account", "yield"}
    BY Zenon, <2>1 DEF IInv, TypeOK
  <2> QED BY Zenon, <2>1, <2>2 DEF PtLockInv, IrqInv, CtxInv
<1>2. /\ ptlock' = IF pc[p] = "waitloop" THEN ptlock ELSE NoCpu
      /\ UNCHANGED <<state, pid, parent, killed, kstack, myquantum, nextpid, tickslock,
                           cpuproc, spc, irq, pc, child, left>>
  BY Zenon DEF SleepResume, Set, cpuvars
<1>3. /\ ctx' = [ctx EXCEPT ![p] = "run"] /\ chan' = [chan EXCEPT ![p] = 0]
  BY Zenon DEF SleepResume, Set, cpuvars
<1>4. /\ ctx'[p] = "run" /\ \A q \in Slots : q # p => ctx'[q] = ctx[q] /\ chan'[q] = chan[q]
  BY Zenon, <1>1, <1>2, <1>3 DEF IInv, TypeOK
<1>5. TypeOK' /\ nextpid' # 0 /\ state'[INIT] \in Live
  <2>1. TypeOK'
    <3>1. 0 \in 0 .. TICKS
      BY NPROCAssumption DEF TICKS
    <3>2. chan' \in [Slots -> 0 .. TICKS]
      BY Zenon, <1>2, <1>3, <3>1 DEF IInv, TypeOK
    <3> QED BY Zenon, <1>1, <1>2, <1>3, <3>2 DEF IInv, TypeOK
  <2>2. nextpid' # 0 /\ state'[INIT] \in Live
    BY Zenon, <1>2 DEF IInv
  <2> QED BY Zenon, <2>1, <2>2
<1>6. ASSUME NEW d \in Cpus PROVE PtLockInv(d)' /\ TicksLockInv(d)' /\ IrqInv(d)'
  <2>1. CASE d = c
    <3>1. PtLockInv(c) /\ TicksLockInv(c) /\ IrqInv(c)
      BY Zenon DEF IInv
    <3> QED BY Zenon, <1>1, <1>2, <1>4, <2>1, <3>1, CpusAssumption DEF PtLockInv, TicksLockInv, IrqInv
  <2>2. CASE d # c
    <3>1. (ptlock' = d <=> ptlock = d) /\ (tickslock' = d <=> tickslock = d)
      BY Zenon, <1>1, <1>2, <1>4, <2>2, CpusAssumption
    <3> QED BY Zenon, <1>1, <1>2, <1>4, <2>2, <3>1, OtherCpus
  <2> QED BY Zenon, <2>1, <2>2
<1>7. ASSUME NEW d \in Cpus PROVE CpuInv(d)'
  BY Zenon, <1>2, CpusKeep
<1>8. ASSUME NEW q \in Slots PROVE CtxInv(q)'
  BY ZenonT(40), <1>1, <1>2, <1>4, CtxFrame DEF IInv, CtxInv
<1>9. ASSUME NEW q \in Slots PROVE SlotInv(q)'
  BY Zenon, <1>2, SlotFrame DEF IInv
<1>10. ASSUME NEW q \in Slots PROVE ForkInv(q)'
  BY ZenonT(60), <1>1, <1>2, <1>4, ForkFrame DEF IInv, ForkInv, Forking
<1>11. ASSUME NEW q \in Slots PROVE WaitInv(q)'
  <2>1. \A r \in Slots :
          /\ state'[r] \notin {"UNUSED", "EMBRYO"} => state[r] \notin {"UNUSED", "EMBRYO"}
          /\ state[r] \in Live => state'[r] \in Live
          /\ state'[r] = "SLEEPING" /\ chan'[r] = r => state[r] = "SLEEPING" /\ chan[r] = r
          /\ state'[r] = "ZOMBIE" => state[r] = "ZOMBIE"
    BY Zenon, <1>1, <1>2, <1>4, SlotFacts DEF Live
  <2> QED BY Zenon, <1>2, <2>1, WaitFrame DEF IInv, TypeOK
<1> QED
  BY Zenon, <1>5, <1>6, <1>7, <1>8, <1>9, <1>10, <1>11 DEF IInv

-----------------------------------------------------------------------------
(* The timer interrupt, and the threads that come out of swtch             *)

\* yield, back from sched.
LEMMA YieldResumeKeeps ==
  ASSUME IInv, NEW c \in Cpus, YieldResume(c)
  PROVE  IInv'
<1> DEFINE p == cpuproc[c]
<1>1. /\ p \in Slots /\ spc[c] = "proc" /\ irq[c] = "none" /\ ctx[p] = "yield"
      /\ state[p] = "RUNNING" /\ ptlock = c /\ pc[p] # "waitloop"
  <2>1. p \in Slots /\ state[p] = "RUNNING" /\ spc[c] = "proc" /\ ctx[p] = "yield"
    BY Zenon, Current DEF YieldResume
  <2>2. PtLockInv(c) /\ IrqInv(c) /\ CtxInv(p) /\ irq[c] \in {"none", "wakeup", "account", "yield"}
    BY Zenon, <2>1 DEF IInv, TypeOK
  <2> QED BY Zenon, <2>1, <2>2 DEF PtLockInv, IrqInv, CtxInv
<1>2. /\ ptlock' = NoCpu
      /\ UNCHANGED <<state, pid, parent, chan, killed, kstack, myquantum, nextpid,
                           tickslock, cpuproc, spc, irq, child, left>>
  BY Zenon DEF YieldResume, Set, procvars, cpuvars
<1>3. /\ ctx' = [ctx EXCEPT ![p] = "run"]
      /\ pc' = IF DiesInUser(p) THEN [pc EXCEPT ![p] = "die"] ELSE pc
  BY Zenon DEF YieldResume, Set, procvars, cpuvars
<1>4. /\ ctx'[p] = "run" /\ \A q \in Slots : q # p => ctx'[q] = ctx[q] /\ pc'[q] = pc[q]
      /\ pc'[p] = pc[p] \/ (pc[p] = "user" /\ pc'[p] = "die")
  BY ZenonT(60), <1>1, <1>2, <1>3 DEF IInv, TypeOK, DiesInUser
<1>5. TypeOK' /\ nextpid' # 0 /\ state'[INIT] \in Live
  <2>1. TypeOK'
    BY Zenon, <1>2, <1>3 DEF IInv, TypeOK, PC
  <2>2. nextpid' # 0 /\ state'[INIT] \in Live
    BY Zenon, <1>2 DEF IInv
  <2> QED BY Zenon, <2>1, <2>2
<1>6. ASSUME NEW d \in Cpus PROVE PtLockInv(d)' /\ TicksLockInv(d)' /\ IrqInv(d)'
  <2>1. CASE d = c
    <3>1. PtLockInv(c) /\ TicksLockInv(c) /\ IrqInv(c)
      BY Zenon DEF IInv
    <3> QED BY Zenon, <1>1, <1>2, <1>4, <2>1, <3>1, CpusAssumption DEF PtLockInv, TicksLockInv, IrqInv
  <2>2. CASE d # c
    <3>1. (ptlock' = d <=> ptlock = d) /\ (tickslock' = d <=> tickslock = d)
      BY Zenon, <1>1, <1>2, <1>4, <2>2, CpusAssumption
    <3> QED BY Zenon, <1>1, <1>2, <1>4, <2>2, <3>1, OtherCpus
  <2> QED BY Zenon, <2>1, <2>2
<1>7. ASSUME NEW d \in Cpus PROVE CpuInv(d)'
  BY ZenonT(40), <1>2, CpusKeep
<1>8. ASSUME NEW q \in Slots PROVE CtxInv(q)'
  <2>1. CtxInv(q)
    BY Zenon DEF IInv
  <2>2. CASE q = p
    <3>1. /\ state'[p] = "RUNNING" /\ spc'[c] = "proc" /\ cpuproc'[c] = p
          /\ ctx'[p] = "run"
      BY Zenon, <1>1, <1>2, <1>4
    <3> QED BY Zenon, <2>2, <3>1 DEF CtxInv
  <2>3. CASE q # p
    <3>1. state'[q] = state[q] /\ ctx'[q] = ctx[q] /\ pc'[q] = pc[q] /\ spc' = spc /\ cpuproc' = cpuproc
      BY Zenon, <1>2, <1>4, <2>3
    <3> QED BY Zenon, <2>1, <3>1, CtxFrame
  <2> QED BY Zenon, <2>2, <2>3
<1>9. ASSUME NEW q \in Slots PROVE SlotInv(q)'
  BY Zenon, <1>2, SlotFrame DEF IInv
<1>10. ASSUME NEW q \in Slots PROVE ForkInv(q)'
  <2>1. \A r \in Slots : pc[r] \in Forking => state'[r] \in {"RUNNABLE", "RUNNING"}
    BY Zenon, <1>1, <1>2, <1>4 DEF IInv, ForkInv, Forking
  <2>2. \A r \in Slots : pc'[r] \in Forking => pc'[r] = pc[r]
    BY Zenon, <1>1, <1>2, <1>4 DEF Forking
  <2> QED BY Zenon, <1>1, <1>2, <1>4, <2>1, <2>2, ForkFrame DEF IInv
<1>11. ASSUME NEW q \in Slots PROVE WaitInv(q)'
  BY Zenon, <1>2, WaitFrame DEF IInv, TypeOK
<1> QED
  BY Zenon, <1>5, <1>6, <1>7, <1>8, <1>9, <1>10, <1>11 DEF IInv

\* forkret, the first step of a new process.
LEMMA ForkretKeeps ==
  ASSUME IInv, NEW c \in Cpus, Forkret(c)
  PROVE  IInv'
<1> DEFINE p == cpuproc[c]
<1>1. /\ p \in Slots /\ spc[c] = "proc" /\ irq[c] = "none" /\ ctx[p] = "forkret"
      /\ state[p] = "RUNNING" /\ ptlock = c /\ pc[p] # "waitloop"
  <2>1. p \in Slots /\ state[p] = "RUNNING" /\ spc[c] = "proc" /\ ctx[p] = "forkret"
    BY Zenon, Current DEF Forkret
  <2>2. PtLockInv(c) /\ IrqInv(c) /\ CtxInv(p) /\ irq[c] \in {"none", "wakeup", "account", "yield"}
    BY Zenon, <2>1 DEF IInv, TypeOK
  <2> QED BY Zenon, <2>1, <2>2 DEF PtLockInv, IrqInv, CtxInv
<1>2. /\ ptlock' = NoCpu
      /\ UNCHANGED <<state, pid, parent, chan, killed, kstack, myquantum, nextpid,
                           tickslock, cpuproc, spc, irq, pc, child, left>>
  BY Zenon DEF Forkret, Set, procvars, cpuvars
<1>3. ctx' = [ctx EXCEPT ![p] = "run"]
  BY Zenon DEF Forkret, Set, procvars, cpuvars
<1>4. /\ ctx'[p] = "run" /\ \A q \in Slots : q # p => ctx'[q] = ctx[q]
  BY Zenon, <1>1, <1>2, <1>3 DEF IInv, TypeOK
<1>5. TypeOK' /\ nextpid' # 0 /\ state'[INIT] \in Live
  <2>1. TypeOK'
    BY Zenon, <1>2, <1>3 DEF IInv, TypeOK
  <2>2. nextpid' # 0 /\ state'[INIT] \in Live
    BY Zenon, <1>2 DEF IInv
  <2> QED BY Zenon, <2>1, <2>2
<1>6. ASSUME NEW d \in Cpus PROVE PtLockInv(d)' /\ TicksLockInv(d)' /\ IrqInv(d)'
  <2>1. CASE d = c
    <3>1. PtLockInv(c) /\ TicksLockInv(c) /\ IrqInv(c)
      BY Zenon DEF IInv
    <3> QED BY Zenon, <1>1, <1>2, <1>4, <2>1, <3>1, CpusAssumption DEF PtLockInv, TicksLockInv, IrqInv
  <2>2. CASE d # c
    <3>1. (ptlock' = d <=> ptlock = d) /\ (tickslock' = d <=> tickslock = d)
      BY Zenon, <1>1, <1>2, <1>4, <2>2, CpusAssumption
    <3> QED BY Zenon, <1>1, <1>2, <1>4, <2>2, <3>1, OtherCpus
  <2> QED BY Zenon, <2>1, <2>2
<1>7. ASSUME NEW d \in Cpus PROVE CpuInv(d)'
  BY Zenon, <1>2, CpusKeep
<1>8. ASSUME NEW q \in Slots PROVE CtxInv(q)'
  BY ZenonT(40), <1>1, <1>2, <1>4, CtxFrame DEF IInv, CtxInv
<1>9. ASSUME NEW q \in Slots PROVE SlotInv(q)'
  BY Zenon, <1>2, SlotFrame DEF IInv
<1>10. ASSUME NEW q \in Slots PROVE ForkInv(q)'
  BY ZenonT(60), <1>1, <1>2, <1>4, ForkFrame DEF IInv, ForkInv, Forking
<1>11. ASSUME NEW q \in Slots PROVE WaitInv(q)'
  BY Zenon, <1>2, WaitFrame DEF IInv, TypeOK
<1> QED
  BY Zenon, <1>5, <1>6, <1>7, <1>8, <1>9, <1>10, <1>11 DEF IInv

\* CPU 0's timer advances ticks with tickslock held.
LEMMA TickKeeps ==
  ASSUME IInv, NEW c \in Cpus, Tick(c)
  PROVE  IInv'
<1> DEFINE p == cpuproc[c]
<1>1. /\ spc[c] \in {"idle", "proc"} /\ irq[c] = "none" /\ ptlock # c /\ tickslock # c
      /\ spc[c] = "proc" => /\ p \in Slots /\ ctx[p] = "run"
                            /\ pc[p] \notin {"waitloop", "check", "sleeping", "die"}
  <2>1. PtLockInv(c) /\ TicksLockInv(c) /\ IntrOn(c)
    BY Zenon DEF IInv, Tick
  <2> QED BY Zenon, <2>1, Current DEF PtLockInv, TicksLockInv, IntrOn
<1>2. /\ tickslock' = c
      /\ UNCHANGED <<state, pid, parent, chan, killed, kstack, myquantum, nextpid, ptlock,
                           cpuproc, spc, ctx, pc, child>>
  BY Zenon DEF Tick, Set, procvars
<1>3. /\ irq' = [irq EXCEPT ![c] = "wakeup"] /\ left' \in [Slots -> 0 .. MaxSleep]
  <2>1. left \in [Slots -> 0 .. MaxSleep]
    BY Zenon DEF IInv, TypeOK
  <2>2. left' \in [Slots -> 0 .. MaxSleep]
    BY <2>1, BoundsAssumption DEF Tick
  <2> QED BY Zenon, <2>2 DEF Tick, Set, procvars
<1>4. irq'[c] = "wakeup" /\ (\A d \in Cpus : d # c => irq'[d] = irq[d]) /\ tickslock = NoCpu
  BY ZenonT(60), <1>2, <1>3 DEF IInv, TypeOK, Tick, Free
<1>5. TypeOK' /\ nextpid' # 0 /\ state'[INIT] \in Live
  <2>1. TypeOK'
    BY ZenonT(60), <1>2, <1>3 DEF IInv, TypeOK
  <2>2. nextpid' # 0 /\ state'[INIT] \in Live
    BY Zenon, <1>2 DEF IInv
  <2> QED BY Zenon, <2>1, <2>2
<1>6. ASSUME NEW d \in Cpus PROVE PtLockInv(d)' /\ TicksLockInv(d)' /\ IrqInv(d)'
  <2>1. CASE d = c
    <3>1. PtLockInv(c) /\ TicksLockInv(c) /\ IrqInv(c)
      BY Zenon DEF IInv
    <3> QED BY Zenon, <1>1, <1>2, <1>4, <2>1, <3>1, CpusAssumption DEF PtLockInv, TicksLockInv, IrqInv
  <2>2. CASE d # c
    <3>1. (ptlock' = d <=> ptlock = d) /\ (tickslock' = d <=> tickslock = d)
      BY Zenon, <1>1, <1>2, <1>4, <2>2, CpusAssumption
    <3> QED BY Zenon, <1>1, <1>2, <1>4, <2>2, <3>1, OtherCpus
  <2> QED BY Zenon, <2>1, <2>2
<1>7. ASSUME NEW d \in Cpus PROVE CpuInv(d)'
  BY Zenon, <1>2, CpusKeep
<1>8. ASSUME NEW q \in Slots PROVE CtxInv(q)'
  BY Zenon, <1>1, <1>2, <1>4, CtxFrame DEF IInv, CtxInv
<1>9. ASSUME NEW q \in Slots PROVE SlotInv(q)'
  BY Zenon, <1>2, SlotFrame DEF IInv
<1>10. ASSUME NEW q \in Slots PROVE ForkInv(q)'
  BY ZenonT(60), <1>1, <1>2, <1>4, ForkFrame DEF IInv, ForkInv, Forking
<1>11. ASSUME NEW q \in Slots PROVE WaitInv(q)'
  BY ZenonT(60), <1>2, WaitFrame DEF IInv, TypeOK
<1> QED
  BY Zenon, <1>5, <1>6, <1>7, <1>8, <1>9, <1>10, <1>11 DEF IInv

\* Another CPU's timer.
LEMMA TimerOtherKeeps ==
  ASSUME IInv, NEW c \in Cpus, TimerOther(c)
  PROVE  IInv'
<1> DEFINE p == cpuproc[c]
<1>1. /\ spc[c] \in {"idle", "proc"} /\ irq[c] = "none" /\ ptlock # c /\ tickslock # c
      /\ spc[c] = "proc" => /\ p \in Slots /\ ctx[p] = "run"
                            /\ pc[p] \notin {"waitloop", "check", "sleeping", "die"}
  <2>1. PtLockInv(c) /\ TicksLockInv(c) /\ IntrOn(c)
    BY Zenon DEF IInv, TimerOther
  <2> QED BY Zenon, <2>1, Current DEF PtLockInv, TicksLockInv, IntrOn
<1>2. UNCHANGED <<state, pid, parent, chan, killed, kstack, myquantum, nextpid, ptlock,
                  tickslock, cpuproc, spc, ctx, pc, child, left>>
  BY Zenon DEF TimerOther, Set, procvars, threadvars
<1>3. irq' = [irq EXCEPT ![c] = "account"]
  BY Zenon DEF TimerOther, Set, procvars, threadvars
<1>4. irq'[c] = "account" /\ (\A d \in Cpus : d # c => irq'[d] = irq[d])
  BY Zenon, <1>1, <1>2, <1>3 DEF IInv, TypeOK
<1>5. TypeOK' /\ nextpid' # 0 /\ state'[INIT] \in Live
  <2>1. TypeOK'
    BY Zenon, <1>2, <1>3 DEF IInv, TypeOK
  <2>2. nextpid' # 0 /\ state'[INIT] \in Live
    BY Zenon, <1>2 DEF IInv
  <2> QED BY Zenon, <2>1, <2>2
<1>6. ASSUME NEW d \in Cpus PROVE PtLockInv(d)' /\ TicksLockInv(d)' /\ IrqInv(d)'
  <2>1. CASE d = c
    <3>1. PtLockInv(c) /\ TicksLockInv(c) /\ IrqInv(c)
      BY Zenon DEF IInv
    <3> QED BY Zenon, <1>1, <1>2, <1>4, <2>1, <3>1, CpusAssumption DEF PtLockInv, TicksLockInv, IrqInv
  <2>2. CASE d # c
    <3>1. (ptlock' = d <=> ptlock = d) /\ (tickslock' = d <=> tickslock = d)
      BY Zenon, <1>1, <1>2, <1>4, <2>2, CpusAssumption
    <3> QED BY Zenon, <1>1, <1>2, <1>4, <2>2, <3>1, OtherCpus
  <2> QED BY Zenon, <2>1, <2>2
<1>7. ASSUME NEW d \in Cpus PROVE CpuInv(d)'
  BY Zenon, <1>2, CpusKeep
<1>8. ASSUME NEW q \in Slots PROVE CtxInv(q)'
  BY ZenonT(60), <1>1, <1>2, <1>4, CtxFrame DEF IInv, CtxInv
<1>9. ASSUME NEW q \in Slots PROVE SlotInv(q)'
  BY Zenon, <1>2, SlotFrame DEF IInv
<1>10. ASSUME NEW q \in Slots PROVE ForkInv(q)'
  BY ZenonT(60), <1>1, <1>2, <1>4, ForkFrame DEF IInv, ForkInv, Forking
<1>11. ASSUME NEW q \in Slots PROVE WaitInv(q)'
  BY ZenonT(60), <1>2, WaitFrame DEF IInv, TypeOK
<1> QED
  BY Zenon, <1>5, <1>6, <1>7, <1>8, <1>9, <1>10, <1>11 DEF IInv

\* wakeup(&ticks) makes the sleepers of sys_sleep RUNNABLE.
LEMMA TickWakeupKeeps ==
  ASSUME IInv, NEW c \in Cpus, TickWakeup(c)
  PROVE  IInv'
<1> DEFINE p == cpuproc[c]
<1>1. irq[c] = "wakeup" /\ tickslock = c /\ ptlock = NoCpu
  <2>1. TicksLockInv(c)
    BY Zenon DEF IInv
  <2> QED BY Zenon, <2>1 DEF TicksLockInv, TickWakeup, Free
<1>2. /\ tickslock' = NoCpu
      /\ UNCHANGED <<pid, parent, chan, killed, kstack, myquantum, nextpid, ptlock,
                           cpuproc, spc, ctx, pc, child, left>>
  BY Zenon DEF TickWakeup, Wakeup1, Set, threadvars
<1>3. /\ state' = [q \in Slots |-> IF state[q] = "SLEEPING" /\ chan[q] = TICKS
                                THEN "RUNNABLE" ELSE state[q]] /\ irq' = [irq EXCEPT ![c] = "account"]
  BY Zenon DEF TickWakeup, Wakeup1, Set, threadvars
<1>4. /\ irq'[c] = "account" /\ \A d \in Cpus : d # c => irq'[d] = irq[d]
      /\ \A q \in Slots : state'[q] = state[q] \/ (state[q] = "SLEEPING" /\ state'[q] = "RUNNABLE")
  BY ZenonT(60), <1>1, <1>2, <1>3 DEF IInv, TypeOK
<1>5. TypeOK' /\ nextpid' # 0 /\ state'[INIT] \in Live
  <2>1. TypeOK'
    BY Zenon, <1>2, <1>3 DEF IInv, TypeOK, PState
  <2>2. nextpid' # 0 /\ state'[INIT] \in Live
    BY Zenon, <1>2, <1>4, SlotFacts DEF IInv, Live
  <2> QED BY Zenon, <2>1, <2>2
<1>6. ASSUME NEW d \in Cpus PROVE PtLockInv(d)' /\ TicksLockInv(d)' /\ IrqInv(d)'
  <2>1. CASE d = c
    <3>1. PtLockInv(c) /\ TicksLockInv(c) /\ IrqInv(c)
      BY Zenon DEF IInv
    <3> QED BY ZenonT(60), <1>1, <1>2, <1>4, <2>1, <3>1, CpusAssumption DEF PtLockInv, TicksLockInv, IrqInv
  <2>2. CASE d # c
    <3>1. (ptlock' = d <=> ptlock = d) /\ (tickslock' = d <=> tickslock = d)
      BY Zenon, <1>1, <1>2, <1>4, <2>2, CpusAssumption
    <3> QED BY ZenonT(60), <1>1, <1>2, <1>4, <2>2, <3>1, OtherCpus
  <2> QED BY Zenon, <2>1, <2>2
<1>7. ASSUME NEW d \in Cpus PROVE CpuInv(d)'
  <2>1. cpuproc[d] # Nil => cpuproc[d] \in Slots
    BY Zenon, OnCpu
  <2> QED BY Zenon, <1>1, <1>2, <1>4, <2>1, CpusAssumption, CpusKeep
<1>8. ASSUME NEW q \in Slots PROVE CtxInv(q)'
  <2>1. CtxInv(q)
    BY Zenon DEF IInv
  <2> QED BY Zenon, <1>2, <1>4, <2>1 DEF CtxInv
<1>9. ASSUME NEW q \in Slots PROVE SlotInv(q)'
  <2>1. SlotInv(q)
    BY Zenon DEF IInv
  <2> QED BY Zenon, <1>2, <1>4, <2>1 DEF SlotInv
<1>10. ASSUME NEW q \in Slots PROVE ForkInv(q)'
  <2>1. \A r \in Slots : pc[r] \in Forking => state'[r] \in {"RUNNABLE", "RUNNING"}
    BY Zenon, <1>4 DEF IInv, ForkInv
  <2> QED BY Zenon, <1>2, <1>4, <2>1, ForkFrame DEF IInv
<1>11. ASSUME NEW q \in Slots PROVE WaitInv(q)'
  <2>1. \A r \in Slots :
          /\ state'[r] \notin {"UNUSED", "EMBRYO"} => state[r] \notin {"UNUSED", "EMBRYO"}
          /\ state[r] \in Live => state'[r] \in Live
          /\ state'[r] = "SLEEPING" /\ chan'[r] = r => state[r] = "SLEEPING" /\ chan[r] = r
          /\ state'[r] = "ZOMBIE" => state[r] = "ZOMBIE"
    BY Zenon, <1>1, <1>2, <1>4, SlotFacts DEF Live
  <2> QED BY Zenon, <1>2, <2>1, WaitFrame DEF IInv, TypeOK
<1> QED
  BY Zenon, <1>5, <1>6, <1>7, <1>8, <1>9, <1>10, <1>11 DEF IInv

\* A timer interrupt of the scheduler loop charges nobody.
LEMMA AccountIdleKeeps ==
  ASSUME IInv, NEW c \in Cpus, TimerAccount(c), cpuproc[c] = Nil
  PROVE  IInv'
<1>1. irq[c] = "account" /\ spc[c] = "idle"
  <2>1. CpuInv(c) /\ IrqInv(c)
    BY Zenon DEF IInv
  <2> QED BY Zenon, <2>1 DEF CpuInv, IrqInv, TimerAccount
<1>2. UNCHANGED <<state, pid, parent, chan, killed, kstack, myquantum, nextpid, ptlock,
                  tickslock, cpuproc, spc, ctx, pc, child, left>>
  BY Zenon DEF TimerAccount, Set
<1>3. irq' = [irq EXCEPT ![c] = "none"]
  BY Zenon DEF TimerAccount, Set
<1>4. irq'[c] = "none" /\ (\A d \in Cpus : d # c => irq'[d] = irq[d])
  BY ZenonT(60), <1>1, <1>2, <1>3 DEF IInv, TypeOK
<1>5. TypeOK' /\ nextpid' # 0 /\ state'[INIT] \in Live
  <2>1. TypeOK'
    BY Zenon, <1>2, <1>3 DEF IInv, TypeOK
  <2>2. nextpid' # 0 /\ state'[INIT] \in Live
    BY Zenon, <1>2 DEF IInv
  <2> QED BY Zenon, <2>1, <2>2
<1>6. ASSUME NEW d \in Cpus PROVE PtLockInv(d)' /\ TicksLockInv(d)' /\ IrqInv(d)'
  <2>1. CASE d = c
    <3>1. PtLockInv(c) /\ TicksLockInv(c) /\ IrqInv(c)
      BY Zenon DEF IInv
    <3> QED BY ZenonT(60), <1>1, <1>2, <1>4, <2>1, <3>1, CpusAssumption DEF PtLockInv, TicksLockInv, IrqInv
  <2>2. CASE d # c
    <3>1. (ptlock' = d <=> ptlock = d) /\ (tickslock' = d <=> tickslock = d)
      BY Zenon, <1>1, <1>2, <1>4, <2>2, CpusAssumption
    <3> QED BY Zenon, <1>1, <1>2, <1>4, <2>2, <3>1, OtherCpus
  <2> QED BY Zenon, <2>1, <2>2
<1>7. ASSUME NEW d \in Cpus PROVE CpuInv(d)'
  BY Zenon, <1>2, CpusKeep
<1>8. ASSUME NEW q \in Slots PROVE CtxInv(q)'
  BY Zenon, <1>1, <1>2, <1>4, CtxFrame DEF IInv, CtxInv
<1>9. ASSUME NEW q \in Slots PROVE SlotInv(q)'
  BY Zenon, <1>2, SlotFrame DEF IInv
<1>10. ASSUME NEW q \in Slots PROVE ForkInv(q)'
  BY ZenonT(60), <1>1, <1>2, <1>4, ForkFrame DEF IInv, ForkInv, Forking
<1>11. ASSUME NEW q \in Slots PROVE WaitInv(q)'
  BY Zenon, <1>2, WaitFrame DEF IInv, TypeOK
<1> QED
  BY Zenon, <1>5, <1>6, <1>7, <1>8, <1>9, <1>10, <1>11 DEF IInv

\* A timer interrupt charges the running process: it yields when its quantum is
\* spent, and dies when it is killed.
LEMMA TimerAccountKeeps ==
  ASSUME IInv, NEW c \in Cpus, TimerAccount(c)
  PROVE  IInv'
<1> DEFINE p == cpuproc[c]
           to == IF ~DiesInUser(p) /\ QuantumSpent(myquantum'[p]) THEN "yield" ELSE "none"
<1> SUFFICES ASSUME p # Nil PROVE IInv'
  BY Zenon, AccountIdleKeeps
<1>1. /\ p \in Slots /\ spc[c] = "proc" /\ irq[c] = "account" /\ ctx[p] = "run" /\ state[p] = "RUNNING"
      /\ pc[p] \notin {"waitloop", "check", "sleeping", "die"} /\ myquantum[p] < QUANTA
  <2>1. CpuInv(c) /\ IrqInv(c) /\ irq[c] = "account"
    BY Zenon DEF IInv, TimerAccount
  <2>2. spc[c] = "proc"
    BY Zenon, <2>1 DEF CpuInv, IrqInv
  <2> QED BY Zenon, <2>1, <2>2, Current DEF IrqInv
<1>2. UNCHANGED <<state, pid, parent, chan, killed, kstack, nextpid, ptlock, tickslock,
                  cpuproc, spc, ctx, child, left>>
  BY Zenon DEF TimerAccount, Set
<1>3. /\ myquantum' = [myquantum EXCEPT ![p] = myquantum[p] + 1]
      /\ pc' = IF DiesInUser(p) THEN [pc EXCEPT ![p] = "die"] ELSE pc
      /\ irq' = [irq EXCEPT ![c] = to]
  <2>1. p # Nil /\ state[p] = "RUNNING"
    BY Zenon, <1>1
  <2> QED BY Zenon, <2>1 DEF TimerAccount, Set
<1>4. /\ \A d \in Cpus : d # c => irq'[d] = irq[d]
      /\ \A q \in Slots : q # p => pc'[q] = pc[q] /\ myquantum'[q] = myquantum[q]
      /\ pc'[p] = pc[p] \/ (pc[p] = "user" /\ pc'[p] = "die")
      /\ irq'[c] = to /\ to \in {"yield", "none"} /\ (to = "yield" => pc'[p] = pc[p])
      /\ myquantum'[p] \in 1 .. QUANTA
      /\ myquantum'[p] < QUANTA \/ to = "yield" \/ pc'[p] = "die"
  <2>1. /\ \A d \in Cpus : d # c => irq'[d] = irq[d]
        /\ irq'[c] = to /\ to \in {"yield", "none"}
    BY Zenon, <1>2, <1>3 DEF IInv, TypeOK
  <2>2. /\ \A q \in Slots : q # p => pc'[q] = pc[q] /\ myquantum'[q] = myquantum[q]
        /\ pc'[p] = pc[p] \/ (pc[p] = "user" /\ pc'[p] = "die")
        /\ DiesInUser(p) => pc'[p] = "die"
        /\ ~DiesInUser(p) => pc'[p] = pc[p]
    BY ZenonT(60), <1>1, <1>2, <1>3 DEF IInv, TypeOK, DiesInUser
  <2>3. myquantum'[p] = myquantum[p] + 1 /\ myquantum[p] \in 0 .. QUANTA
    BY Zenon, <1>1, <1>2, <1>3 DEF IInv, TypeOK
  <2>4. myquantum'[p] \in 1 .. QUANTA /\ (myquantum'[p] # QUANTA => myquantum'[p] < QUANTA)
    BY <1>1, <2>3, BoundsAssumption
  <2>5. /\ to = "yield" => pc'[p] = pc[p]
        /\ myquantum'[p] # QUANTA \/ to = "yield" \/ pc'[p] = "die"
    BY Zenon, <2>2 DEF QuantumSpent
  <2> QED BY Zenon, <2>1, <2>2, <2>4, <2>5
<1> HIDE DEF to
<1>5. TypeOK' /\ nextpid' # 0 /\ state'[INIT] \in Live
  <2>1. TypeOK'
    <3>1. myquantum' \in [Slots -> 0 .. QUANTA]
      BY SMTT(30), <1>1, <1>2, <1>3, <1>4, BoundsAssumption DEF IInv, TypeOK
    <3>2. irq' \in [Cpus -> {"none", "wakeup", "account", "yield"}]
      BY Zenon, <1>2, <1>3, <1>4 DEF IInv, TypeOK
    <3> QED BY ZenonT(60), <1>2, <1>3, <3>1, <3>2 DEF IInv, TypeOK, PC
  <2>2. nextpid' # 0 /\ state'[INIT] \in Live
    BY Zenon, <1>2 DEF IInv
  <2> QED BY Zenon, <2>1, <2>2
<1>6. ASSUME NEW d \in Cpus PROVE PtLockInv(d)' /\ TicksLockInv(d)' /\ IrqInv(d)'
  <2>1. CASE d = c
    <3>1. PtLockInv(c) /\ TicksLockInv(c) /\ UNCHANGED <<spc, cpuproc, ctx, ptlock, tickslock>>
      BY Zenon, <1>2 DEF IInv
    <3> QED BY Zenon, <1>1, <1>4, <2>1, <3>1 DEF PtLockInv, TicksLockInv, IrqInv
  <2>2. CASE d # c
    <3>1. (ptlock' = d <=> ptlock = d) /\ (tickslock' = d <=> tickslock = d)
      BY Zenon, <1>1, <1>2, <1>4, <2>2, CpusAssumption
    <3> QED BY Zenon, <1>1, <1>2, <1>4, <2>2, <3>1, OtherCpus
  <2> QED BY Zenon, <2>1, <2>2
<1>7. ASSUME NEW d \in Cpus PROVE CpuInv(d)'
  BY Zenon, <1>2, CpusKeep
<1>8. ASSUME NEW q \in Slots PROVE CtxInv(q)'
  <2>1. CtxInv(q) /\ UNCHANGED <<state, ctx, spc, cpuproc>>
    BY Zenon, <1>2 DEF IInv
  <2> QED BY Zenon, <1>1, <1>4, <2>1 DEF CtxInv
<1>9. ASSUME NEW q \in Slots PROVE SlotInv(q)'
  BY Zenon, <1>2, SlotFrame DEF IInv
<1>10. ASSUME NEW q \in Slots PROVE ForkInv(q)'
  <2>1. \A r \in Slots : pc[r] \in Forking => state'[r] \in {"RUNNABLE", "RUNNING"}
    BY Zenon, <1>1, <1>2, <1>4 DEF IInv, ForkInv, Forking
  <2>2. \A r \in Slots : pc'[r] \in Forking => pc'[r] = pc[r]
    BY Zenon, <1>1, <1>2, <1>4 DEF Forking
  <2> QED BY Zenon, <1>1, <1>2, <1>4, <2>1, <2>2, ForkFrame DEF IInv
<1>11. ASSUME NEW q \in Slots PROVE WaitInv(q)'
  BY ZenonT(60), <1>2, WaitFrame DEF IInv, TypeOK
<1> QED
  BY Zenon, <1>5, <1>6, <1>7, <1>8, <1>9, <1>10, <1>11 DEF IInv

\* yield gives up the CPU at a place where the process holds no lock.
LEMMA YieldKeeps ==
  ASSUME IInv, NEW c \in Cpus, Yield(c)
  PROVE  IInv'
<1> DEFINE p == cpuproc[c]
<1>1. /\ p \in Slots /\ spc[c] = "proc" /\ irq[c] = "yield" /\ ctx[p] = "run" /\ state[p] = "RUNNING"
      /\ pc[p] \notin {"waitloop", "check", "sleeping", "die"} /\ ptlock = NoCpu /\ tickslock # c
  <2>1. IrqInv(c) /\ TicksLockInv(c) /\ irq[c] = "yield" /\ ptlock = NoCpu
    BY Zenon DEF IInv, Yield, Free
  <2>2. spc[c] = "proc"
    BY Zenon, <2>1 DEF IrqInv
  <2> QED BY Zenon, <2>1, <2>2, Current DEF IrqInv, TicksLockInv
<1>2. /\ ptlock' = c
      /\ UNCHANGED <<pid, parent, chan, killed, kstack, myquantum, nextpid, tickslock,
                           cpuproc, pc, child, left>>
  BY Zenon DEF Yield, Sched, Set
<1>3. /\ state' = [state EXCEPT ![p] = "RUNNABLE"] /\ irq' = [irq EXCEPT ![c] = "none"]
      /\ spc' = [spc EXCEPT ![c] = "back"] /\ ctx' = [ctx EXCEPT ![p] = "yield"]
  BY Zenon DEF Yield, Sched, Set
<1>4. /\ state'[p] = "RUNNABLE" /\ ctx'[p] = "yield"
      /\ \A q \in Slots : q # p => state'[q] = state[q] /\ ctx'[q] = ctx[q]
      /\ spc'[c] = "back" /\ \A d \in Cpus : d # c => spc'[d] = spc[d]
      /\ irq'[c] = "none" /\ \A d \in Cpus : d # c => irq'[d] = irq[d]
  BY ZenonT(60), <1>1, <1>2, <1>3 DEF IInv, TypeOK
<1>5. TypeOK' /\ nextpid' # 0 /\ state'[INIT] \in Live
  <2>1. TypeOK'
    BY Zenon, <1>2, <1>3 DEF IInv, TypeOK, PState
  <2>2. nextpid' # 0 /\ state'[INIT] \in Live
    BY Zenon, <1>1, <1>4, <1>2, SlotFacts DEF IInv, Live
  <2> QED BY Zenon, <2>1, <2>2
<1>6. ASSUME NEW d \in Cpus PROVE PtLockInv(d)' /\ TicksLockInv(d)' /\ IrqInv(d)'
  <2>1. CASE d = c
    <3>1. PtLockInv(c) /\ TicksLockInv(c) /\ IrqInv(c)
      BY Zenon DEF IInv
    <3> QED BY Zenon, <1>1, <1>2, <1>4, <2>1, <3>1, CpusAssumption DEF PtLockInv, TicksLockInv, IrqInv
  <2>2. CASE d # c
    <3>1. (ptlock' = d <=> ptlock = d) /\ (tickslock' = d <=> tickslock = d)
      BY ZenonT(60), <1>1, <1>2, <1>4, <2>2, CpusAssumption
    <3> QED BY Zenon, <1>1, <1>2, <1>4, <2>2, <3>1, OtherCpus
  <2> QED BY Zenon, <2>1, <2>2
<1>7. ASSUME NEW d \in Cpus PROVE CpuInv(d)'
  <2>1. CASE d = c
    <3>1. CpuInv(c)
      BY Zenon DEF IInv
    <3> QED BY ZenonT(60), <1>1, <1>2, <1>4, <2>1, <3>1 DEF CpuInv
  <2>2. CASE d # c
    <3>1. cpuproc[d] # Nil => cpuproc[d] \in Slots /\ cpuproc[d] # p
      BY Zenon, <2>2, OnCpu
    <3> QED BY ZenonT(60), <1>1, <1>2, <1>4, <2>2, <3>1, CpusAssumption, CpusKeep
  <2> QED BY Zenon, <2>1, <2>2
<1>8. ASSUME NEW q \in Slots PROVE CtxInv(q)'
  <2>1. CtxInv(q)
    BY Zenon DEF IInv
  <2>2. CASE q = p
    BY Zenon, <1>1, <1>2, <1>4, <2>2 DEF CtxInv
  <2>3. CASE q # p
    BY Zenon, <1>1, <1>2, <1>4, <2>1, <2>3 DEF CtxInv
  <2> QED BY Zenon, <2>2, <2>3
<1>9. ASSUME NEW q \in Slots PROVE SlotInv(q)'
  BY Zenon, <1>1, <1>2, <1>4, SlotFrame DEF IInv, SlotInv
<1>10. ASSUME NEW q \in Slots PROVE ForkInv(q)'
  <2>1. \A r \in Slots : pc[r] \in Forking => state'[r] \in {"RUNNABLE", "RUNNING"}
    BY ZenonT(60), <1>1, <1>2, <1>4 DEF IInv, ForkInv, Forking
  <2>2. \A r \in Slots : pc'[r] \in Forking => pc'[r] = pc[r]
    BY Zenon, <1>1, <1>2, <1>4 DEF Forking
  <2> QED BY Zenon, <1>1, <1>2, <1>4, <2>1, <2>2, ForkFrame DEF IInv
<1>11. ASSUME NEW q \in Slots PROVE WaitInv(q)'
  <2>1. \A r \in Slots :
          /\ state'[r] \notin {"UNUSED", "EMBRYO"} => state[r] \notin {"UNUSED", "EMBRYO"}
          /\ state[r] \in Live => state'[r] \in Live
          /\ state'[r] = "SLEEPING" /\ chan'[r] = r => state[r] = "SLEEPING" /\ chan[r] = r
          /\ state'[r] = "ZOMBIE" => state[r] = "ZOMBIE"
    BY ZenonT(60), <1>1, <1>2, <1>4, SlotFacts DEF Live
  <2> QED BY Zenon, <1>2, <2>1, WaitFrame DEF IInv, TypeOK
<1> QED
  BY Zenon, <1>5, <1>6, <1>7, <1>8, <1>9, <1>10, <1>11 DEF IInv

-----------------------------------------------------------------------------
(* scheduler()                                                             *)

\* The scheduler loop takes ptable.lock.
LEMMA SchedAcquireKeeps ==
  ASSUME IInv, NEW c \in Cpus, SchedAcquire(c)
  PROVE  IInv'
<1>1. spc[c] = "idle" /\ irq[c] = "none" /\ ptlock = NoCpu /\ tickslock # c
  <2>1. /\ spc[c] = "idle" /\ PtLockInv(c) /\ IrqInv(c) /\ TicksLockInv(c)
        /\ irq[c] \in {"none", "wakeup", "account", "yield"}
    BY Zenon DEF IInv, TypeOK, SchedAcquire
  <2> QED BY Zenon, <2>1 DEF PtLockInv, IrqInv, TicksLockInv, SchedAcquire, Free
<1>2. /\ ptlock' = c
      /\ UNCHANGED <<state, pid, parent, chan, killed, kstack, myquantum, nextpid,
                           tickslock, cpuproc, irq, ctx, pc, child, left>>
  BY Zenon DEF SchedAcquire, Set, procvars, threadvars
<1>3. spc' = [spc EXCEPT ![c] = "scan"]
  BY Zenon DEF SchedAcquire, Set, procvars, threadvars
<1>4. spc'[c] = "scan" /\ (\A d \in Cpus : d # c => spc'[d] = spc[d])
  BY Zenon, <1>1, <1>2, <1>3 DEF IInv, TypeOK
<1>5. TypeOK' /\ nextpid' # 0 /\ state'[INIT] \in Live
  <2>1. TypeOK'
    BY ZenonT(60), <1>2, <1>3 DEF IInv, TypeOK
  <2>2. nextpid' # 0 /\ state'[INIT] \in Live
    BY Zenon, <1>2 DEF IInv
  <2> QED BY Zenon, <2>1, <2>2
<1>6. ASSUME NEW d \in Cpus PROVE PtLockInv(d)' /\ TicksLockInv(d)' /\ IrqInv(d)'
  <2>1. CASE d = c
    <3>1. PtLockInv(c) /\ TicksLockInv(c) /\ IrqInv(c)
      BY Zenon DEF IInv
    <3> QED BY Zenon, <1>1, <1>2, <1>4, <2>1, <3>1, CpusAssumption DEF PtLockInv, TicksLockInv, IrqInv
  <2>2. CASE d # c
    <3>1. (ptlock' = d <=> ptlock = d) /\ (tickslock' = d <=> tickslock = d)
      BY Zenon, <1>1, <1>2, <1>4, <2>2, CpusAssumption
    <3> QED BY Zenon, <1>1, <1>2, <1>4, <2>2, <3>1, OtherCpus
  <2> QED BY Zenon, <2>1, <2>2
<1>7. ASSUME NEW d \in Cpus PROVE CpuInv(d)'
  <2>1. CASE d = c
    <3>1. CpuInv(c)
      BY Zenon DEF IInv
    <3> QED BY Zenon, <1>1, <1>2, <1>4, <2>1, <3>1 DEF CpuInv
  <2>2. CASE d # c
    BY Zenon, <1>2, <1>4, <2>2, CpusKeep
  <2> QED BY Zenon, <2>1, <2>2
<1>8. ASSUME NEW q \in Slots PROVE CtxInv(q)'
  <2>1. \A d \in Cpus : spc[d] \in {"proc", "panic"} /\ cpuproc[d] = q =>
          spc'[d] \in {"proc", "panic"} /\ cpuproc'[d] = q
    BY ZenonT(60), <1>1, <1>2, <1>4
  <2> QED BY Zenon, <1>2, <1>4, <2>1, CtxFrame DEF IInv
<1>9. ASSUME NEW q \in Slots PROVE SlotInv(q)'
  BY Zenon, <1>2, SlotFrame DEF IInv
<1>10. ASSUME NEW q \in Slots PROVE ForkInv(q)'
  BY ZenonT(60), <1>1, <1>2, <1>4, ForkFrame DEF IInv, ForkInv, Forking
<1>11. ASSUME NEW q \in Slots PROVE WaitInv(q)'
  BY ZenonT(60), <1>2, WaitFrame DEF IInv, TypeOK
<1> QED
  BY Zenon, <1>5, <1>6, <1>7, <1>8, <1>9, <1>10, <1>11 DEF IInv

\* The scheduler loop releases ptable.lock.
LEMMA SchedReleaseKeeps ==
  ASSUME IInv, NEW c \in Cpus, SchedRelease(c)
  PROVE  IInv'
<1>1. spc[c] = "scan" /\ irq[c] = "none" /\ ptlock = c /\ tickslock # c
  <2>1. /\ spc[c] = "scan" /\ PtLockInv(c) /\ IrqInv(c) /\ TicksLockInv(c)
        /\ irq[c] \in {"none", "wakeup", "account", "yield"}
    BY Zenon DEF IInv, TypeOK, SchedRelease
  <2> QED BY Zenon, <2>1 DEF PtLockInv, IrqInv, TicksLockInv, SchedRelease, Free
<1>2. /\ ptlock' = NoCpu
      /\ UNCHANGED <<state, pid, parent, chan, killed, kstack, myquantum, nextpid,
                           tickslock, cpuproc, irq, ctx, pc, child, left>>
  BY Zenon DEF SchedRelease, Set, procvars, threadvars
<1>3. spc' = [spc EXCEPT ![c] = "idle"]
  BY Zenon DEF SchedRelease, Set, procvars, threadvars
<1>4. spc'[c] = "idle" /\ (\A d \in Cpus : d # c => spc'[d] = spc[d])
  BY ZenonT(60), <1>1, <1>2, <1>3 DEF IInv, TypeOK
<1>5. TypeOK' /\ nextpid' # 0 /\ state'[INIT] \in Live
  <2>1. TypeOK'
    BY Zenon, <1>2, <1>3 DEF IInv, TypeOK
  <2>2. nextpid' # 0 /\ state'[INIT] \in Live
    BY Zenon, <1>2 DEF IInv
  <2> QED BY Zenon, <2>1, <2>2
<1>6. ASSUME NEW d \in Cpus PROVE PtLockInv(d)' /\ TicksLockInv(d)' /\ IrqInv(d)'
  <2>1. CASE d = c
    <3>1. PtLockInv(c) /\ TicksLockInv(c) /\ IrqInv(c)
      BY Zenon DEF IInv
    <3> QED BY Zenon, <1>1, <1>2, <1>4, <2>1, <3>1, CpusAssumption DEF PtLockInv, TicksLockInv, IrqInv
  <2>2. CASE d # c
    <3>1. (ptlock' = d <=> ptlock = d) /\ (tickslock' = d <=> tickslock = d)
      BY ZenonT(60), <1>1, <1>2, <1>4, <2>2, CpusAssumption
    <3> QED BY Zenon, <1>1, <1>2, <1>4, <2>2, <3>1, OtherCpus
  <2> QED BY Zenon, <2>1, <2>2
<1>7. ASSUME NEW d \in Cpus PROVE CpuInv(d)'
  <2>1. CASE d = c
    <3>1. CpuInv(c)
      BY Zenon DEF IInv
    <3> QED BY Zenon, <1>1, <1>2, <1>4, <2>1, <3>1 DEF CpuInv
  <2>2. CASE d # c
    BY Zenon, <1>2, <1>4, <2>2, CpusKeep
  <2> QED BY Zenon, <2>1, <2>2
<1>8. ASSUME NEW q \in Slots PROVE CtxInv(q)'
  <2>1. \A d \in Cpus : spc[d] \in {"proc", "panic"} /\ cpuproc[d] = q =>
          spc'[d] \in {"proc", "panic"} /\ cpuproc'[d] = q
    BY Zenon, <1>1, <1>2, <1>4
  <2> QED BY Zenon, <1>2, <1>4, <2>1, CtxFrame DEF IInv
<1>9. ASSUME NEW q \in Slots PROVE SlotInv(q)'
  BY Zenon, <1>2, SlotFrame DEF IInv
<1>10. ASSUME NEW q \in Slots PROVE ForkInv(q)'
  BY Zenon, <1>1, <1>2, <1>4, ForkFrame DEF IInv, ForkInv, Forking
<1>11. ASSUME NEW q \in Slots PROVE WaitInv(q)'
  BY ZenonT(60), <1>2, WaitFrame DEF IInv, TypeOK
<1> QED
  BY Zenon, <1>5, <1>6, <1>7, <1>8, <1>9, <1>10, <1>11 DEF IInv

\* The scheduler loop is back from swtch, and forgets the process.
LEMMA SchedBackKeeps ==
  ASSUME IInv, NEW c \in Cpus, SchedBack(c)
  PROVE  IInv'
<1>1. spc[c] = "back" /\ irq[c] = "none" /\ ptlock = c /\ tickslock # c
  <2>1. /\ spc[c] = "back" /\ PtLockInv(c) /\ IrqInv(c) /\ TicksLockInv(c)
        /\ irq[c] \in {"none", "wakeup", "account", "yield"}
    BY Zenon DEF IInv, TypeOK, SchedBack
  <2> QED BY Zenon, <2>1 DEF PtLockInv, IrqInv, TicksLockInv, SchedBack, Free
<1>2. UNCHANGED <<state, pid, parent, chan, killed, kstack, myquantum, nextpid, ptlock,
                  tickslock, irq, ctx, pc, child, left>>
  BY Zenon DEF SchedBack, Set, procvars, threadvars
<1>3. /\ cpuproc' = [cpuproc EXCEPT ![c] = Nil] /\ spc' = [spc EXCEPT ![c] = "scan"]
  BY Zenon DEF SchedBack, Set, procvars, threadvars
<1>4. /\ spc'[c] = "scan" /\ cpuproc'[c] = Nil
      /\ \A d \in Cpus : d # c => spc'[d] = spc[d] /\ cpuproc'[d] = cpuproc[d]
  BY ZenonT(60), <1>1, <1>2, <1>3 DEF IInv, TypeOK
<1>5. TypeOK' /\ nextpid' # 0 /\ state'[INIT] \in Live
  <2>1. TypeOK'
    BY ZenonT(60), <1>2, <1>3 DEF IInv, TypeOK
  <2>2. nextpid' # 0 /\ state'[INIT] \in Live
    BY Zenon, <1>2 DEF IInv
  <2> QED BY Zenon, <2>1, <2>2
<1>6. ASSUME NEW d \in Cpus PROVE PtLockInv(d)' /\ TicksLockInv(d)' /\ IrqInv(d)'
  <2>1. CASE d = c
    <3>1. PtLockInv(c) /\ TicksLockInv(c) /\ IrqInv(c)
      BY Zenon DEF IInv
    <3> QED BY ZenonT(60), <1>1, <1>2, <1>4, <2>1, <3>1, CpusAssumption DEF PtLockInv, TicksLockInv, IrqInv
  <2>2. CASE d # c
    <3>1. (ptlock' = d <=> ptlock = d) /\ (tickslock' = d <=> tickslock = d)
      BY Zenon, <1>1, <1>2, <1>4, <2>2, CpusAssumption
    <3> QED BY Zenon, <1>1, <1>2, <1>4, <2>2, <3>1, OtherCpus
  <2> QED BY Zenon, <2>1, <2>2
<1>7. ASSUME NEW d \in Cpus PROVE CpuInv(d)'
  <2>1. CpuInv(d)
    BY Zenon DEF IInv
  <2>2. CASE d = c
    BY Zenon, <1>4, <2>2 DEF CpuInv
  <2>3. CASE d # c
    BY Zenon, <1>2, <1>4, <2>1, <2>3 DEF CpuInv
  <2> QED BY Zenon, <2>2, <2>3
<1>8. ASSUME NEW q \in Slots PROVE CtxInv(q)'
  <2>1. \A d \in Cpus : spc[d] \in {"proc", "panic"} /\ cpuproc[d] = q =>
          spc'[d] \in {"proc", "panic"} /\ cpuproc'[d] = q
    BY Zenon, <1>1, <1>2, <1>4
  <2> QED BY Zenon, <1>2, <1>4, <2>1, CtxFrame DEF IInv
<1>9. ASSUME NEW q \in Slots PROVE SlotInv(q)'
  BY Zenon, <1>2, SlotFrame DEF IInv
<1>10. ASSUME NEW q \in Slots PROVE ForkInv(q)'
  BY ZenonT(60), <1>1, <1>2, <1>4, ForkFrame DEF IInv, ForkInv, Forking
<1>11. ASSUME NEW q \in Slots PROVE WaitInv(q)'
  BY Zenon, <1>2, WaitFrame DEF IInv, TypeOK
<1> QED
  BY Zenon, <1>5, <1>6, <1>7, <1>8, <1>9, <1>10, <1>11 DEF IInv

\* swtch to a RUNNABLE process, which no CPU stands on: ptable.lock is held.
LEMMA DispatchKeeps ==
  ASSUME IInv, NEW c \in Cpus, NEW p \in Slots, Dispatch(c, p)
  PROVE  IInv'
<1>1. /\ spc[c] = "scan" /\ irq[c] = "none" /\ ptlock = c /\ tickslock # c
      /\ state[p] = "RUNNABLE" /\ ctx[p] # "run" /\ pc[p] \notin {"check", "sleeping"} /\ kstack[p]
      /\ \A e \in Cpus : cpuproc[e] # p
  <2>1. /\ spc[c] = "scan" /\ PtLockInv(c) /\ IrqInv(c) /\ TicksLockInv(c)
        /\ irq[c] \in {"none", "wakeup", "account", "yield"}
    BY Zenon DEF IInv, TypeOK, Dispatch
  <2>2. ptlock = c /\ irq[c] = "none" /\ tickslock # c
    BY Zenon, <2>1 DEF PtLockInv, IrqInv, TicksLockInv
  <2>3. state[p] = "RUNNABLE" /\ CtxInv(p) /\ SlotInv(p)
    BY Zenon DEF IInv, Dispatch
  <2>4. ASSUME NEW e \in Cpus, cpuproc[e] = p PROVE FALSE
    <3>1. CpuInv(e) /\ PtLockInv(e) /\ spc[e] \in {"proc", "back", "panic"}
      BY Zenon, <2>4, OnCpu, SlotFacts DEF IInv
    <3> QED BY Zenon, <2>1, <2>2, <2>3, <2>4, <3>1 DEF CpuInv, PtLockInv
  <2> QED BY Zenon, <2>1, <2>2, <2>3, <2>4 DEF CtxInv, SlotInv
<1>2. UNCHANGED <<pid, parent, chan, killed, kstack, nextpid, ptlock, tickslock, irq,
                  ctx, pc, child, left>>
  BY Zenon DEF Dispatch, Set, threadvars
<1>3. /\ cpuproc' = [cpuproc EXCEPT ![c] = p] /\ spc' = [spc EXCEPT ![c] = "proc"]
      /\ myquantum' = [myquantum EXCEPT ![p] = 0] /\ state' = [state EXCEPT ![p] = "RUNNING"]
  BY Zenon DEF Dispatch, Set, threadvars
<1>4. /\ spc'[c] = "proc" /\ cpuproc'[c] = p
      /\ \A d \in Cpus : d # c => spc'[d] = spc[d] /\ cpuproc'[d] = cpuproc[d]
      /\ state'[p] = "RUNNING" /\ myquantum'[p] = 0
      /\ \A q \in Slots : q # p => state'[q] = state[q] /\ myquantum'[q] = myquantum[q]
  BY ZenonT(60), <1>1, <1>2, <1>3 DEF IInv, TypeOK
<1>5. TypeOK' /\ nextpid' # 0 /\ state'[INIT] \in Live
  <2>1. TypeOK'
    BY SMTT(30), <1>2, <1>3, BoundsAssumption DEF IInv, TypeOK, PState
  <2>2. nextpid' # 0 /\ state'[INIT] \in Live
    BY Zenon, <1>2, <1>4, SlotFacts DEF IInv, Live
  <2> QED BY ZenonT(60), <2>1, <2>2
<1>6. ASSUME NEW d \in Cpus PROVE PtLockInv(d)' /\ TicksLockInv(d)' /\ IrqInv(d)'
  <2>1. CASE d = c
    <3>1. 0 < QUANTA /\ UNCHANGED <<irq, ctx, pc, ptlock, tickslock>>
      BY <1>2, BoundsAssumption
    <3> QED BY ZenonT(60), <1>1, <1>4, <2>1, <3>1 DEF PtLockInv, TicksLockInv, IrqInv
  <2>2. CASE d # c
    <3>1. (ptlock' = d <=> ptlock = d) /\ (tickslock' = d <=> tickslock = d)
      BY Zenon, <1>1, <1>2, <1>4, <2>2, CpusAssumption
    <3> QED BY Zenon, <1>1, <1>2, <1>4, <2>2, <3>1, OtherCpus
  <2> QED BY Zenon, <2>1, <2>2
<1>7. ASSUME NEW d \in Cpus PROVE CpuInv(d)'
  <2>1. CpuInv(d) /\ (cpuproc[d] # Nil => cpuproc[d] \in Slots)
    BY Zenon, OnCpu DEF IInv
  <2>2. CASE d = c
    BY ZenonT(60), <1>1, <1>4, <2>2, SlotFacts DEF CpuInv
  <2>3. CASE d # c
    <3>1. cpuproc'[d] = cpuproc[d] /\ spc'[d] = spc[d] /\ cpuproc[d] # p
      BY Zenon, <1>1, <1>4, <2>3
    <3>2. cpuproc[d] # Nil => state'[cpuproc[d]] = state[cpuproc[d]]
      BY Zenon, <1>4, <2>1, <3>1
    <3>3. \A e \in Cpus : cpuproc'[d] = cpuproc'[e] /\ cpuproc'[d] # Nil => d = e
      BY Zenon, <1>4, <2>1, <2>3, <3>1 DEF CpuInv
    <3> QED BY Zenon, <2>1, <3>1, <3>2, <3>3 DEF CpuInv
  <2> QED BY Zenon, <2>2, <2>3
<1>8. ASSUME NEW q \in Slots PROVE CtxInv(q)'
  <2>1. CtxInv(q)
    BY Zenon DEF IInv
  <2>2. CASE q = p
    BY Zenon, <1>1, <1>2, <1>4, <2>1, <2>2 DEF CtxInv
  <2>3. CASE q # p
    <3>1. \A d \in Cpus : spc[d] \in {"proc", "panic"} /\ cpuproc[d] = q =>
            spc'[d] \in {"proc", "panic"} /\ cpuproc'[d] = q
      BY Zenon, <1>1, <1>4
    <3> QED BY ZenonT(60), <1>2, <1>4, <2>1, <2>3, <3>1, CtxFrame
  <2> QED BY Zenon, <2>2, <2>3
<1>9. ASSUME NEW q \in Slots PROVE SlotInv(q)'
  BY ZenonT(60), <1>1, <1>2, <1>4, SlotFrame DEF IInv, SlotInv
<1>10. ASSUME NEW q \in Slots PROVE ForkInv(q)'
  <2>1. \A r \in Slots : pc[r] \in Forking => state'[r] \in {"RUNNABLE", "RUNNING"}
    BY ZenonT(60), <1>1, <1>2, <1>4 DEF IInv, ForkInv, Forking
  <2>2. \A r \in Slots : pc'[r] \in Forking => pc'[r] = pc[r]
    BY Zenon, <1>1, <1>2, <1>4 DEF Forking
  <2> QED BY Zenon, <1>1, <1>2, <1>4, <2>1, <2>2, ForkFrame DEF IInv
<1>11. ASSUME NEW q \in Slots PROVE WaitInv(q)'
  <2>1. \A r \in Slots :
          /\ state'[r] \notin {"UNUSED", "EMBRYO"} => state[r] \notin {"UNUSED", "EMBRYO"}
          /\ state[r] \in Live => state'[r] \in Live
          /\ state'[r] = "SLEEPING" /\ chan'[r] = r => state[r] = "SLEEPING" /\ chan[r] = r
          /\ state'[r] = "ZOMBIE" => state[r] = "ZOMBIE"
    BY Zenon, <1>1, <1>2, <1>4, SlotFacts DEF Live
  <2> QED BY Zenon, <1>2, <2>1, WaitFrame DEF IInv, TypeOK
<1> QED
  BY ZenonT(60), <1>5, <1>6, <1>7, <1>8, <1>9, <1>10, <1>11 DEF IInv

-----------------------------------------------------------------------------
\* userinit's state: one RUNNABLE process, no CPU on it, no lock taken.
LEMMA InitIInv == Init => IInv
<1> SUFFICES ASSUME Init PROVE IInv
  OBVIOUS
<1>1. TypeOK
  BY SMTT(30), NPROCAssumption, CpusAssumption, BoundsAssumption
  DEF Init, TypeOK, PState, PC, Nil, INIT, TICKS
<1>2. nextpid # 0 /\ state[INIT] \in Live
  BY SlotFacts DEF Init, Live
<1>3. ASSUME NEW c \in Cpus PROVE PtLockInv(c) /\ TicksLockInv(c) /\ CpuInv(c) /\ IrqInv(c)
  BY Zenon, CpusAssumption DEF Init, PtLockInv, TicksLockInv, CpuInv, IrqInv
<1>4. ASSUME NEW p \in Slots PROVE CtxInv(p) /\ SlotInv(p) /\ ForkInv(p) /\ WaitInv(p)
  <2>1. CtxInv(p)
    BY Zenon DEF Init, CtxInv
  <2>2. SlotInv(p)
    BY Zenon DEF Init, SlotInv
  <2>3. ForkInv(p)
    BY Zenon DEF Init, ForkInv, Forking
  <2>4. WaitInv(p)
    BY Zenon, SlotFacts DEF Init, WaitInv
  <2> QED BY Zenon, <2>1, <2>2, <2>3, <2>4
<1> QED BY Zenon, <1>1, <1>2, <1>3, <1>4 DEF IInv

\* Every step of every CPU keeps IInv.
LEMMA NextIInv == IInv /\ [Next]_vars => IInv'
<1> SUFFICES ASSUME IInv, [Next]_vars PROVE IInv'
  OBVIOUS
<1>1. CASE UNCHANGED vars
  <2> USE <1>1 DEF vars, procvars, cpuvars, threadvars
  <2>1. TypeOK' /\ nextpid' # 0 /\ state'[INIT] \in Live
    BY Zenon DEF IInv, TypeOK
  <2>2. ASSUME NEW c \in Cpus PROVE PtLockInv(c)' /\ TicksLockInv(c)'
    BY Zenon DEF IInv, PtLockInv, TicksLockInv
  <2>3. ASSUME NEW c \in Cpus PROVE CpuInv(c)' /\ IrqInv(c)'
    BY ZenonT(60) DEF IInv, CpuInv, IrqInv
  <2>4. ASSUME NEW p \in Slots PROVE CtxInv(p)' /\ SlotInv(p)'
    BY ZenonT(60) DEF IInv, CtxInv, SlotInv
  <2>5. ASSUME NEW p \in Slots PROVE ForkInv(p)'
    BY Zenon, ForkFrame DEF IInv, ForkInv
  <2>6. ASSUME NEW p \in Slots PROVE WaitInv(p)'
    BY Zenon, WaitFrame DEF IInv, TypeOK
  <2> QED BY ZenonT(60), <2>1, <2>2, <2>3, <2>4, <2>5, <2>6 DEF IInv
<1>2. ASSUME NEW c \in Cpus, InKernel(c) PROVE IInv'
  BY Zenon, <1>2, SyscallReturnKeeps, ForkAllocKeeps, ForkKstackKeeps, ForkCopyKeeps,
     ForkRunnableKeeps, ExitKeeps, WaitKeeps, KillKeeps, SleepStartKeeps, SleepCheckKeeps,
     SleepKeeps, SleepReacquireKeeps DEF InKernel
<1>3. ASSUME NEW c \in Cpus, Resume(c) \/ Handler(c) \/ Loop(c) \/ User(c) PROVE IInv'
  BY Zenon, <1>3, SleepResumeKeeps, YieldResumeKeeps, ForkretKeeps, TickWakeupKeeps,
     TimerAccountKeeps, YieldKeeps, SchedAcquireKeeps, SchedBackKeeps, FaultKeeps, SyscallKeeps
  DEF Resume, Handler, Loop, User
<1>4. ASSUME NEW c \in Cpus, Timer(c) \/ SchedRelease(c) \/ \E p \in Slots : Dispatch(c, p)
      PROVE  IInv'
  BY Zenon, <1>4, TickKeeps, TimerOtherKeeps, SchedReleaseKeeps, DispatchKeeps DEF Timer
<1>5. ASSUME NEW c \in Cpus, Panic(c) PROVE IInv'
  BY Zenon, <1>1, <1>5 DEF Panic
<1> QED BY Zenon, <1>1, <1>2, <1>3, <1>4, <1>5 DEF Next

\* The table, the CPUs and the locks agree at every moment.
THEOREM Invariance == Spec => []IInv
BY InitIInv, NextIInv, PTL DEF Spec

\* No two CPUs are ever on one process's stack, a process is RUNNING exactly while a CPU
\* executes it, and ptable.lock alone is held across swtch.
THEOREM OneCpu == Spec => []RunningOnOneCpu
<1>1. ASSUME IInv PROVE RunningOnOneCpu
  <2>1. TypeOK
    BY Zenon, <1>1 DEF IInv
  <2>2. SchedHoldsOnlyPtable
    BY Zenon, <1>1 DEF IInv, PtLockInv, TicksLockInv, IrqInv, SchedHoldsOnlyPtable
  <2>3. ASSUME NEW p \in Slots
        PROVE  state[p] = "RUNNING" <=>
                 \E c \in Cpus : spc[c] \in {"proc", "panic"} /\ cpuproc[c] = p
    <3>1. CtxInv(p)
      BY Zenon, <1>1 DEF IInv
    <3>2. \A c \in Cpus : spc[c] \in {"proc", "panic"} => state[cpuproc[c]] = "RUNNING"
      BY Zenon, <1>1, Current
    <3> QED BY Zenon, <3>1, <3>2 DEF CtxInv
  <2>4. \A c, d \in Cpus : cpuproc[c] = cpuproc[d] /\ cpuproc[c] # Nil => c = d
    BY Zenon, <1>1, OnCpu
  <2> QED BY Zenon, <2>1, <2>2, <2>3, <2>4 DEF RunningOnOneCpu
<1> QED BY <1>1, Invariance, PTL

\* wait never frees the kernel stack that an exiting process still stands on.
THEOREM StackSafe == Spec => []NoStackFreedInUse
<1>1. ASSUME IInv PROVE NoStackFreedInUse
  <2> SUFFICES ASSUME NEW c \in Cpus, cpuproc[c] # Nil PROVE kstack[cpuproc[c]]
    BY Zenon DEF NoStackFreedInUse
  <2>1. cpuproc[c] \in Slots /\ state[cpuproc[c]] \notin {"UNUSED", "EMBRYO"}
    BY Zenon, <1>1, OnCpu
  <2> QED BY Zenon, <1>1, <2>1 DEF IInv, SlotInv
<1> QED BY <1>1, Invariance, PTL

\* No exit is missed by a process asleep in wait, and every child has somebody alive
\* to wait for it.
THEOREM ExitSeen == Spec => []NoMissedExit
<1>1. ASSUME IInv PROVE NoMissedExit
  BY Zenon, <1>1 DEF IInv, WaitInv, NoMissedExit, ReaperExists, Live
<1> QED BY <1>1, Invariance, PTL

\* A free slot is marked killed only if a failed fork left its pid there, or by kill(0).
THEOREM BornUnmarked == Spec => []FreeSlotsUnmarked
<1>1. ASSUME IInv PROVE FreeSlotsUnmarked
  BY Zenon, <1>1 DEF IInv, SlotInv, FreeSlotsUnmarked
<1> QED BY <1>1, Invariance, PTL

=============================================================================
