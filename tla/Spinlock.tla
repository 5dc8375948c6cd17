------------------------------ MODULE Spinlock ------------------------------
(***************************************************************************)
(* spinlock.c: acquire, release, holding, pushcli and popcli, at the       *)
(* granularity of the memory accesses and flag changes other CPUs and      *)
(* interrupt handlers can see.  Every CPU runs arbitrary kernel code that  *)
(* takes locks in increasing order and releases what it took; an interrupt *)
(* may arrive whenever the CPU's FL_IF flag is set, and its handler is such*)
(* code again.  Interrupt gates clear FL_IF, so handlers do not nest.      *)
(***************************************************************************)
EXTENDS Naturals, FiniteSets

CONSTANTS
  Cpus,     \* the processors
  Locks,    \* the spinlocks
  Rank,     \* the order in which kernel code nests the locks
  NoCpu     \* the null value of lk->cpu

ASSUME CpusAssumption == NoCpu \notin Cpus
ASSUME LocksAssumption == IsFiniteSet(Locks)
ASSUME RankAssumption == Rank \in [Locks -> Nat]

VARIABLES
  locked,   \* lk->locked
  lkcpu,    \* lk->cpu
  fl_if,    \* FL_IF of each CPU's eflags
  ncli,     \* cpu->ncli
  intena,   \* cpu->intena
  pc,       \* where each CPU is inside acquire/release ("run": in neither)
  arg,      \* the lock the running acquire/release works on
  eflags,   \* pushcli's local copy of FL_IF
  held,     \* the locks whose acquire has won and whose release has not cleared
  started,  \* the CPU has reached scheduler()'s sti
  frame     \* what an interrupt handler suspended, empty outside a handler

vars == <<locked, lkcpu, fl_if, ncli, intena, pc, arg, eflags, held, started, frame>>

PC == {"run", "pushcli", "nest", "holding", "xchg", "own", "unlock", "popcli", "panic"}
Frame == [pc : PC, arg : Locks, eflags : BOOLEAN, held : SUBSET Locks]

InIrq(c) == frame[c] # {}
\* The locks taken at the current level: a handler does not know what the
\* code it interrupted holds.
Mine(c) == held[c] \ UNION {f.held : f \in frame[c]}

\* holding(): the lock is taken, and by this CPU.
Holding(c, l) == locked[l] /\ lkcpu[l] = c

\* initlock(), before the CPUs enter the scheduler.
Init ==
  /\ locked = [l \in Locks |-> FALSE]
  /\ lkcpu = [l \in Locks |-> NoCpu]
  /\ fl_if = [c \in Cpus |-> FALSE]
  /\ ncli = [c \in Cpus |-> 0]
  /\ intena = [c \in Cpus |-> FALSE]
  /\ pc = [c \in Cpus |-> "run"]
  /\ arg \in [Cpus -> Locks]
  /\ eflags = [c \in Cpus |-> FALSE]
  /\ held = [c \in Cpus |-> {}]
  /\ started = [c \in Cpus |-> FALSE]
  /\ frame = [c \in Cpus |-> {}]

Goto(c, at) == pc' = [pc EXCEPT ![c] = at]

-----------------------------------------------------------------------------
\* acquire -> pushcli: eflags = readeflags().
Acquire(c, l) ==
  /\ pc[c] = "run"
  /\ \A h \in Mine(c) : Rank[h] < Rank[l]
  /\ arg' = [arg EXCEPT ![c] = l]
  /\ eflags' = [eflags EXCEPT ![c] = fl_if[c]]
  /\ Goto(c, "pushcli")
  /\ UNCHANGED <<locked, lkcpu, fl_if, ncli, intena, held, started, frame>>

\* pushcli: cli().
ClearIf_NoCli(c) == fl_if
ClearIf(c) == [fl_if EXCEPT ![c] = FALSE]
Pushcli(c) ==
  /\ pc[c] = "pushcli"
  /\ fl_if' = ClearIf(c)
  /\ Goto(c, "nest")
  /\ UNCHANGED <<locked, lkcpu, ncli, intena, arg, eflags, held, started, frame>>

\* pushcli: remember FL_IF at the outermost level, and count the level.
OuterIntena_AnyLevel(c) == eflags[c]
OuterIntena(c) == IF ncli[c] = 0 THEN eflags[c] ELSE intena[c]
PushcliNest(c) ==
  /\ pc[c] = "nest"
  /\ intena' = [intena EXCEPT ![c] = OuterIntena(c)]
  /\ ncli' = [ncli EXCEPT ![c] = @ + 1]
  /\ Goto(c, "holding")
  /\ UNCHANGED <<locked, lkcpu, fl_if, arg, eflags, held, started, frame>>

\* acquire: panic if this CPU holds the lock already.
AcquireCheck(c) ==
  /\ pc[c] = "holding"
  /\ Goto(c, IF Holding(c, arg[c]) THEN "panic" ELSE "xchg")
  /\ UNCHANGED <<locked, lkcpu, fl_if, ncli, intena, arg, eflags, held, started, frame>>

\* acquire: the xchg that finds the lock free (one that does not only spins).
XchgWins_Always(l) == TRUE
XchgWins(l) == ~locked[l]
Xchg(c) ==
  /\ pc[c] = "xchg"
  /\ XchgWins(arg[c])
  /\ locked' = [locked EXCEPT ![arg[c]] = TRUE]
  /\ held' = [held EXCEPT ![c] = @ \cup {arg[c]}]
  /\ Goto(c, "own")
  /\ UNCHANGED <<lkcpu, fl_if, ncli, intena, arg, eflags, started, frame>>

\* acquire: lk->cpu = cpu.
Own(c) ==
  /\ pc[c] = "own"
  /\ lkcpu' = [lkcpu EXCEPT ![arg[c]] = c]
  /\ Goto(c, "run")
  /\ UNCHANGED <<locked, fl_if, ncli, intena, arg, eflags, held, started, frame>>

\* release: panic unless held; lk->cpu = 0.
Release(c, l) ==
  /\ pc[c] = "run"
  /\ l \in Mine(c)
  /\ arg' = [arg EXCEPT ![c] = l]
  /\ lkcpu' = IF Holding(c, l) THEN [lkcpu EXCEPT ![l] = NoCpu] ELSE lkcpu
  /\ Goto(c, IF Holding(c, l) THEN "unlock" ELSE "panic")
  /\ UNCHANGED <<locked, fl_if, ncli, intena, eflags, held, started, frame>>

\* release: movl $0, lk->locked.
Unlock(c) ==
  /\ pc[c] = "unlock"
  /\ locked' = [locked EXCEPT ![arg[c]] = FALSE]
  /\ held' = [held EXCEPT ![c] = @ \ {arg[c]}]
  /\ Goto(c, "popcli")
  /\ UNCHANGED <<lkcpu, fl_if, ncli, intena, arg, eflags, started, frame>>

\* popcli: its two panics, the count, and sti() at the outermost level.
StiOnPop_AnyLevel(c) == intena[c]
StiOnPop(c) == ncli[c] = 1 /\ intena[c]
Popcli(c) ==
  /\ pc[c] = "popcli"
  /\ IF fl_if[c] \/ ncli[c] = 0
     THEN Goto(c, "panic") /\ UNCHANGED <<ncli, fl_if>>
     ELSE /\ ncli' = [ncli EXCEPT ![c] = @ - 1]
          /\ fl_if' = [fl_if EXCEPT ![c] = StiOnPop(c)]
          /\ Goto(c, "run")
  /\ UNCHANGED <<locked, lkcpu, intena, arg, eflags, held, started, frame>>

\* scheduler()'s sti, which first lets the CPU be interrupted.
Sti(c) ==
  /\ pc[c] = "run" /\ ~InIrq(c) /\ ncli[c] = 0
  /\ fl_if' = [fl_if EXCEPT ![c] = TRUE]
  /\ started' = [started EXCEPT ![c] = TRUE]
  /\ UNCHANGED <<locked, lkcpu, ncli, intena, pc, arg, eflags, held, frame>>

\* An interrupt gate: FL_IF is saved and cleared, and the handler runs.
Interrupt(c) ==
  /\ fl_if[c] /\ pc[c] # "panic" /\ ~InIrq(c)
  /\ frame' = [frame EXCEPT ![c] = {[pc |-> pc[c], arg |-> arg[c],
                                      eflags |-> eflags[c], held |-> held[c]]}]
  /\ fl_if' = [fl_if EXCEPT ![c] = FALSE]
  /\ Goto(c, "run")
  /\ UNCHANGED <<locked, lkcpu, ncli, intena, arg, eflags, held, started>>

\* The handler has released its locks; iret resumes the interrupted code.
Iret(c) ==
  /\ pc[c] = "run" /\ Mine(c) = {}
  /\ \E f \in frame[c] :
       /\ pc' = [pc EXCEPT ![c] = f.pc]
       /\ arg' = [arg EXCEPT ![c] = f.arg]
       /\ eflags' = [eflags EXCEPT ![c] = f.eflags]
  /\ fl_if' = [fl_if EXCEPT ![c] = TRUE]
  /\ frame' = [frame EXCEPT ![c] = {}]
  /\ UNCHANGED <<locked, lkcpu, ncli, intena, held, started>>

\* The steps inside acquire and release.
Inside(c) ==
  \/ Pushcli(c) \/ PushcliNest(c) \/ AcquireCheck(c) \/ Xchg(c) \/ Own(c)
  \/ Unlock(c) \/ Popcli(c)

Next == \E c \in Cpus :
  \/ \E l \in Locks : Acquire(c, l) \/ Release(c, l)
  \/ Inside(c)
  \/ Sti(c) \/ Interrupt(c) \/ Iret(c)

Spec == Init /\ [][Next]_vars

\* A CPU inside acquire or release keeps executing.  Critical sections are
\* finite: code that holds a lock nests and drops other locks only so often
\* before it releases it, hence the strong fairness of each release.  Nothing is
\* assumed of which of several spinning CPUs wins the xchg, nor of interrupts.
FairSpec ==
  /\ Spec
  /\ \A c \in Cpus : WF_vars(Inside(c)) /\ \A l \in Locks : SF_vars(Release(c, l))

-----------------------------------------------------------------------------
\* Values of the state, and pushcli nesting no deeper than there are locks.
TypeOK ==
  /\ locked \in [Locks -> BOOLEAN]
  /\ lkcpu \in [Locks -> Cpus \cup {NoCpu}]
  /\ fl_if \in [Cpus -> BOOLEAN]
  /\ ncli \in [Cpus -> 0 .. Cardinality(Locks)]
  /\ intena \in [Cpus -> BOOLEAN]
  /\ pc \in [Cpus -> PC]
  /\ arg \in [Cpus -> Locks]
  /\ eflags \in [Cpus -> BOOLEAN]
  /\ held \in [Cpus -> SUBSET Locks]
  /\ started \in [Cpus -> BOOLEAN]
  /\ frame \in [Cpus -> SUBSET Frame]

\* At most one CPU is between the xchg of its acquire and the movl of its
\* release on a lock.
MutualExclusion ==
  \A c, d \in Cpus : held[c] \cap held[d] # {} => c = d

\* A CPU that holds a lock cannot be interrupted, so no handler ever spins on a
\* lock that the code under it holds ("disable interrupts to avoid deadlock").
NoInterruptWhileHolding ==
  \A c \in Cpus : held[c] # {} => ~fl_if[c] /\ Mine(c) = held[c]

\* Balanced acquires and releases leave FL_IF as they found it: on in threads
\* of a started CPU, off in handlers ("if interrupts are off, then pushcli,
\* popcli leaves them off").
InterruptsRestored ==
  \A c \in Cpus : pc[c] = "run" /\ held[c] = {} => fl_if[c] = (started[c] /\ ~InIrq(c))

\* None of panic("acquire"), panic("release"), panic("popcli - interruptible")
\* and panic("popcli") is reached by code that releases what it acquired.
NoPanic == \A c \in Cpus : pc[c] # "panic"

\* Whenever some CPU spins on a lock, some CPU goes on to acquire that lock:
\* spinning never wedges the machine.
SpinEnds ==
  \A l \in Locks :
    (\E c \in Cpus : pc[c] = "xchg" /\ arg[c] = l) ~> (\E c \in Cpus : pc[c] = "own" /\ arg[c] = l)
=============================================================================
