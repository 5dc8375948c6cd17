--------------------------- MODULE SpinlockProofs ---------------------------
(***************************************************************************)
(* The invariants of Spinlock for any processors, any finite set of locks  *)
(* and any nesting order.  IInv ties the per-CPU bookkeeping of pushcli and*)
(* popcli (ncli, intena, FL_IF) and the fields of the locks to the locks a *)
(* CPU really holds, at every point inside acquire and release.            *)
(***************************************************************************)
EXTENDS Spinlock, TLAPS, FiniteSetTheorems

\* FL_IF as it is outside every critical section.
Open(c) == started[c] /\ ~InIrq(c)

\* The steps of acquire and release at which the lock is not, or no longer, held.
Before == {"pushcli", "nest", "holding", "xchg"}

\* The levels of pushcli that no held lock accounts for.
Extra(at) == IF at \in {"holding", "xchg", "popcli"} THEN 1 ELSE 0

Types ==
  /\ locked \in [Locks -> BOOLEAN]
  /\ lkcpu \in [Locks -> Cpus \cup {NoCpu}]
  /\ fl_if \in [Cpus -> BOOLEAN]
  /\ ncli \in [Cpus -> Nat]
  /\ intena \in [Cpus -> BOOLEAN]
  /\ pc \in [Cpus -> PC]
  /\ arg \in [Cpus -> Locks]
  /\ eflags \in [Cpus -> BOOLEAN]
  /\ held \in [Cpus -> SUBSET Locks]
  /\ started \in [Cpus -> BOOLEAN]
  /\ frame \in [Cpus -> SUBSET Frame]

\* Only a CPU that holds nothing is interrupted, before the cli of its pushcli.
FrameInv(c) == \A f \in frame[c] :
  /\ started[c] /\ ~fl_if[c] /\ f.held = {}
  /\ f.pc \in {"run", "pushcli"} /\ (f.pc = "pushcli" => f.eflags)

\* ncli counts the locks held; inside it interrupts are off and intena remembers
\* how they were.
CliInv(c) ==
  /\ ncli[c] = Cardinality(held[c]) + Extra(pc[c])
  /\ ncli[c] # 0 => ~fl_if[c] /\ intena[c] = Open(c)
  /\ ncli[c] = 0 /\ pc[c] # "nest" => fl_if[c] = Open(c)
  /\ pc[c] = "nest" => ~fl_if[c] /\ (ncli[c] = 0 => eflags[c] = Open(c))
  /\ pc[c] = "pushcli" => eflags[c] = fl_if[c]

\* The lock being worked on, and the one that is not yet or no longer held.
ArgInv(c) ==
  /\ pc[c] # "panic"
  /\ pc[c] \in Before => \A h \in held[c] : Rank[h] < Rank[arg[c]]
  /\ pc[c] = "popcli" => arg[c] \notin held[c]
  /\ pc[c] \in {"own", "unlock"} => arg[c] \in held[c]
  /\ pc[c] = "unlock" => lkcpu[arg[c]] # c

\* lk->locked and lk->cpu say who holds the lock.
LockInv ==
  /\ \A c \in Cpus : \A l \in held[c] :
       /\ locked[l]
       /\ \A d \in Cpus : l \in held[d] => d = c
       /\ lkcpu[l] = c \/ (pc[c] \in {"own", "unlock"} /\ arg[c] = l)
  /\ \A c \in Cpus : \A l \in Locks : lkcpu[l] = c => l \in held[c]

IInv ==
  /\ Types
  /\ \A c \in Cpus : FrameInv(c) /\ CliInv(c) /\ ArgInv(c)
  /\ LockInv

-----------------------------------------------------------------------------
\* A handler's own locks are all the locks of its CPU.
LEMMA MineIsHeld ==
  ASSUME IInv, NEW c \in Cpus
  PROVE  Mine(c) = held[c]
BY DEF IInv, FrameInv, Mine

\* Taking and dropping a lock count one, and no CPU holds more than all locks.
LEMMA HeldCard ==
  ASSUME NEW H \in SUBSET Locks
  PROVE  /\ Cardinality(H) \in Nat
         /\ Cardinality(H) <= Cardinality(Locks)
         /\ Cardinality(H) = 0 <=> H = {}
         /\ \A l \in Locks : l \notin H =>
              /\ Cardinality(H \cup {l}) = Cardinality(H) + 1
              /\ Cardinality(H) + 1 <= Cardinality(Locks)
         /\ \A l \in H : Cardinality(H \ {l}) = Cardinality(H) - 1
<1>1. IsFiniteSet(H) /\ Cardinality(H) <= Cardinality(Locks)
  BY LocksAssumption, FS_Subset
<1>2. \A l \in Locks : l \notin H => Cardinality(H \cup {l}) = Cardinality(H) + 1
  BY <1>1, FS_AddElement
<1>3. \A l \in Locks : Cardinality(H \cup {l}) <= Cardinality(Locks)
  <2> TAKE l \in Locks
  <2> H \cup {l} \in SUBSET Locks
    OBVIOUS
  <2> QED
    BY LocksAssumption, FS_Subset
<1>4. \A l \in H : Cardinality(H \ {l}) = Cardinality(H) - 1
  BY <1>1, FS_RemoveElement
<1> QED
  BY <1>1, <1>2, <1>3, <1>4, FS_CardinalityType, FS_EmptySet

\* initlock and the start of the CPUs establish the invariant.
LEMMA InitIInv == Init => IInv
<1> SUFFICES ASSUME Init PROVE IInv
  OBVIOUS
<1>1. Types
  BY DEF Init, Types, PC
<1>2. \A c \in Cpus : FrameInv(c) /\ ArgInv(c)
  BY DEF Init, FrameInv, ArgInv, Before
<1>3. ASSUME NEW c \in Cpus PROVE CliInv(c)
  <2>1. ncli[c] = 0 /\ pc[c] = "run" /\ ~fl_if[c] /\ ~started[c] /\ held[c] = {} /\ fl_if[c] \in BOOLEAN
    BY DEF Init
  <2>2. Extra(pc[c]) = 0 /\ Cardinality(held[c]) = 0
    BY <2>1, FS_EmptySet DEF Extra
  <2> QED
    BY <2>1, <2>2 DEF CliInv, Open
<1>4. LockInv
  BY CpusAssumption DEF Init, LockInv
<1> QED
  BY <1>1, <1>2, <1>3, <1>4 DEF IInv

\* acquire's entry: the lock ranks above everything held.
LEMMA AcquireKeeps ==
  ASSUME IInv, NEW c \in Cpus, NEW l \in Locks, Acquire(c, l)
  PROVE  IInv'
<1>m. Mine(c) = held[c]
  BY MineIsHeld
<1>1. Types'
  BY DEF IInv, Types, Acquire, Goto, PC
<1>2. ASSUME NEW d \in Cpus PROVE FrameInv(d)'
  BY DEF IInv, FrameInv, Acquire
<1>3. ASSUME NEW d \in Cpus PROVE CliInv(d)'
  BY DEF IInv, Types, CliInv, Extra, Open, InIrq, Acquire, Goto
<1>4. ASSUME NEW d \in Cpus PROVE ArgInv(d)'
  BY <1>m DEF IInv, Types, ArgInv, Acquire, Goto
<1>5. LockInv'
  BY DEF IInv, LockInv, Acquire, Goto
<1> QED
  BY <1>1, <1>2, <1>3, <1>4, <1>5 DEF IInv

\* release's entry: the lock is held, so holding() is true and lk->cpu is cleared.
LEMMA ReleaseKeeps ==
  ASSUME IInv, NEW c \in Cpus, NEW l \in Locks, Release(c, l)
  PROVE  IInv'
<1>m. Mine(c) = held[c]
  BY MineIsHeld
<1>1. Types'
  BY DEF IInv, Types, Release, Goto, PC
<1>2. ASSUME NEW d \in Cpus PROVE FrameInv(d)'
  BY DEF IInv, FrameInv, Release
<1>3. ASSUME NEW d \in Cpus PROVE CliInv(d)'
  BY DEF IInv, CliInv, Extra, Open, InIrq, Release, Goto
<1>4. ASSUME NEW d \in Cpus PROVE ArgInv(d)'
  <2>1. Holding(c, l)
    BY <1>m DEF IInv, LockInv, Holding, Release
  <2>2. /\ pc' = [pc EXCEPT ![c] = "unlock"] /\ arg' = [arg EXCEPT ![c] = l]
        /\ lkcpu' = [lkcpu EXCEPT ![l] = NoCpu] /\ held' = held /\ l \in held[c]
    BY <1>m, <2>1 DEF Release, Goto
  <2>3. CASE d # c
    BY <2>2, <2>3, CpusAssumption DEF IInv, ArgInv
  <2>4. CASE d = c
    BY <2>2, CpusAssumption DEF IInv, Types, ArgInv, Before
  <2> QED
    BY <2>3, <2>4
<1>5. LockInv'
  BY <1>m, CpusAssumption DEF IInv, Types, LockInv, Release, Goto
<1> QED
  BY <1>1, <1>2, <1>3, <1>4, <1>5 DEF IInv

\* pushcli's cli, with eflags read before it.
LEMMA PushcliKeeps ==
  ASSUME IInv, NEW c \in Cpus, Pushcli(c)
  PROVE  IInv'
<1>1. Types'
  BY DEF IInv, Types, Pushcli, Goto, ClearIf, PC
<1>2. ASSUME NEW d \in Cpus PROVE FrameInv(d)'
  BY DEF IInv, FrameInv, Pushcli, ClearIf
<1>3. ASSUME NEW d \in Cpus PROVE CliInv(d)'
  <2>1. CASE d # c
    BY SMTT(30), <2>1 DEF IInv, CliInv, Open, InIrq, Pushcli, Goto, ClearIf
  <2>2. CASE d = c
    <3>1. pc[c] = "pushcli" /\ pc'[c] = "nest" /\ ~fl_if'[c] /\ eflags'[c] = eflags[c]
      BY DEF IInv, Types, Pushcli, Goto, ClearIf
    <3>2. ncli'[c] = ncli[c] /\ held'[c] = held[c] /\ intena'[c] = intena[c] /\ Open(c)' = Open(c)
      BY DEF Pushcli, Open, InIrq
    <3>3. ncli[c] = 0 => eflags[c] = Open(c)
      BY <3>1 DEF IInv, CliInv
    <3> QED
      BY <2>2, <3>1, <3>2, <3>3 DEF IInv, CliInv, Extra
  <2> QED
    BY <2>1, <2>2
<1>4. ASSUME NEW d \in Cpus PROVE ArgInv(d)'
  BY DEF IInv, ArgInv, Before, Pushcli, Goto
<1>5. LockInv'
  BY DEF IInv, LockInv, Pushcli, Goto
<1> QED
  BY <1>1, <1>2, <1>3, <1>4, <1>5, SMTT(30) DEF IInv

\* pushcli's count: intena is saved at the outermost level only.
LEMMA PushcliNestKeeps ==
  ASSUME IInv, NEW c \in Cpus, PushcliNest(c)
  PROVE  IInv'
<1>1. Types'
  BY DEF IInv, Types, PushcliNest, Goto, OuterIntena, PC
<1>2. ASSUME NEW d \in Cpus PROVE FrameInv(d)'
  BY DEF IInv, FrameInv, PushcliNest
<1>3. ASSUME NEW d \in Cpus PROVE CliInv(d)'
  BY HeldCard DEF IInv, Types, CliInv, Extra, Open, InIrq, PushcliNest, Goto, OuterIntena
<1>4. ASSUME NEW d \in Cpus PROVE ArgInv(d)'
  BY DEF IInv, ArgInv, Before, PushcliNest, Goto
<1>5. LockInv'
  BY DEF IInv, LockInv, PushcliNest, Goto
<1> QED
  BY <1>1, <1>2, <1>3, <1>4, <1>5 DEF IInv

\* acquire's holding() test finds the lock not held by this CPU.
LEMMA AcquireCheckKeeps ==
  ASSUME IInv, NEW c \in Cpus, AcquireCheck(c)
  PROVE  IInv'
<1>1. Types'
  BY DEF IInv, Types, AcquireCheck, Goto, PC
<1>2. ASSUME NEW d \in Cpus PROVE FrameInv(d)'
  BY SMTT(30) DEF IInv, FrameInv, AcquireCheck
<1>3. ASSUME NEW d \in Cpus PROVE CliInv(d)'
  <2>1. CASE d # c
    BY <2>1 DEF IInv, CliInv, Open, InIrq, AcquireCheck, Goto
  <2>2. CASE d = c
    <3>1. Holding(c, arg[c]) = FALSE
      BY RankAssumption DEF IInv, Types, ArgInv, LockInv, Before, Holding, AcquireCheck
    <3>2. pc'[c] = "xchg" /\ pc[c] = "holding"
      BY <3>1 DEF IInv, Types, AcquireCheck, Goto
    <3> QED
      BY <2>2, <3>2 DEF IInv, CliInv, Extra, Open, InIrq, AcquireCheck
  <2> QED
    BY <2>1, <2>2
<1>4. ASSUME NEW d \in Cpus PROVE ArgInv(d)'
  BY SMTT(30), RankAssumption DEF IInv, Types, ArgInv, LockInv, Before, AcquireCheck, Goto, Holding
<1>5. LockInv'
  BY DEF IInv, LockInv, AcquireCheck, Goto
<1> QED
  BY <1>1, <1>2, <1>3, <1>4, <1>5 DEF IInv

\* The winning xchg: the lock was nobody's.
LEMMA XchgKeeps ==
  ASSUME IInv, NEW c \in Cpus, Xchg(c)
  PROVE  IInv'
<1>h. \A d \in Cpus : held[d] \in SUBSET Locks
  BY DEF IInv, Types
<1>1. Types'
  BY DEF IInv, Types, Xchg, Goto, PC
<1>2. ASSUME NEW d \in Cpus PROVE FrameInv(d)'
  BY SMTT(30) DEF IInv, FrameInv, Xchg
<1>3. ASSUME NEW d \in Cpus PROVE CliInv(d)'
  <2>1. CASE d # c
    BY SMTT(30), <2>1 DEF IInv, CliInv, Open, InIrq, Xchg, Goto
  <2>2. CASE d = c
    <3>1. arg[c] \in Locks /\ arg[c] \notin held[c] /\ held'[c] = held[c] \cup {arg[c]}
      <4>1. \A h \in held[c] : Rank[h] < Rank[arg[c]]
        BY DEF IInv, ArgInv, Before, Xchg
      <4>2. arg[c] \in Locks /\ Rank[arg[c]] \in Nat
        BY RankAssumption DEF IInv, Types
      <4> QED
        BY <4>1, <4>2 DEF IInv, Types, Xchg
    <3>2. Cardinality(held'[c]) = Cardinality(held[c]) + 1 /\ Cardinality(held[c]) \in Nat
      BY <1>h, <3>1, HeldCard
    <3>3. pc[c] = "xchg" /\ pc'[c] = "own"
      BY DEF IInv, Types, Xchg, Goto
    <3> QED
      BY <2>2, <3>2, <3>3 DEF IInv, CliInv, Extra, Open, InIrq, Xchg
  <2> QED
    BY <2>1, <2>2
<1>4. ASSUME NEW d \in Cpus PROVE ArgInv(d)'
  BY DEF IInv, Types, ArgInv, Before, Xchg, Goto
<1>5. LockInv'
  BY DEF IInv, Types, LockInv, Xchg, Goto, XchgWins
<1> QED
  BY <1>1, <1>2, <1>3, <1>4, <1>5 DEF IInv

\* lk->cpu = cpu, the end of acquire.
LEMMA OwnKeeps ==
  ASSUME IInv, NEW c \in Cpus, Own(c)
  PROVE  IInv'
<1>1. Types'
  BY DEF IInv, Types, Own, Goto, PC
<1>2. ASSUME NEW d \in Cpus PROVE FrameInv(d)'
  BY SMTT(30) DEF IInv, FrameInv, Own
<1>3. ASSUME NEW d \in Cpus PROVE CliInv(d)'
  BY SMTT(30) DEF IInv, CliInv, Extra, Open, InIrq, Own, Goto
<1>4. ASSUME NEW d \in Cpus PROVE ArgInv(d)'
  BY DEF IInv, ArgInv, Before, Own, Goto
<1>5. LockInv'
  BY SMTT(30) DEF IInv, Types, ArgInv, LockInv, Own, Goto
<1> QED
  BY <1>1, <1>2, <1>3, <1>4, <1>5 DEF IInv

\* The movl that clears lk->locked, with lk->cpu cleared before.
LEMMA UnlockKeeps ==
  ASSUME IInv, NEW c \in Cpus, Unlock(c)
  PROVE  IInv'
<1>h. \A d \in Cpus : held[d] \in SUBSET Locks
  BY DEF IInv, Types
<1>1. Types'
  BY DEF IInv, Types, Unlock, Goto, PC
<1>2. ASSUME NEW d \in Cpus PROVE FrameInv(d)'
  BY SMTT(30) DEF IInv, FrameInv, Unlock
<1>3. ASSUME NEW d \in Cpus PROVE CliInv(d)'
  <2>1. CASE d # c
    BY SMTT(30), <2>1 DEF IInv, CliInv, Open, InIrq, Unlock, Goto
  <2>2. CASE d = c
    <3>1. arg[c] \in held[c] /\ held'[c] = held[c] \ {arg[c]}
      BY DEF IInv, Types, ArgInv, Unlock
    <3>2. Cardinality(held'[c]) = Cardinality(held[c]) - 1 /\ Cardinality(held[c]) \in Nat
      BY <1>h, <3>1, HeldCard
    <3>3. pc[c] = "unlock" /\ pc'[c] = "popcli"
      BY DEF IInv, Types, Unlock, Goto
    <3> QED
      BY <2>2, <3>2, <3>3, SMTT(30) DEF IInv, CliInv, Extra, Open, InIrq, Unlock
  <2> QED
    BY <2>1, <2>2
<1>4. ASSUME NEW d \in Cpus PROVE ArgInv(d)'
  BY SMTT(30) DEF IInv, Types, ArgInv, Before, Unlock, Goto
<1>5. LockInv'
  <2>1. arg[c] \in held[c] /\ pc[c] = "unlock" /\ lkcpu' = lkcpu
    BY DEF IInv, ArgInv, Unlock
  <2>2. held'[c] = held[c] \ {arg[c]} /\ \A d \in Cpus \ {c} : held'[d] = held[d] /\ pc'[d] = pc[d]
    BY DEF IInv, Types, Unlock, Goto
  <2>3. \A l \in Locks \ {arg[c]} : locked'[l] = locked[l]
    BY DEF IInv, Types, Unlock
  <2>4. lkcpu[arg[c]] # c
    BY <2>1, SMTT(30) DEF IInv, ArgInv
  <2> QED
    BY <2>1, <2>2, <2>4, SMTT(30) DEF IInv, LockInv, Unlock
<1> QED
  BY <1>1, <1>2, <1>3, <1>4, <1>5 DEF IInv

\* popcli: neither panic, and sti only at the outermost level.
LEMMA PopcliKeeps ==
  ASSUME IInv, NEW c \in Cpus, Popcli(c)
  PROVE  IInv'
<1>h. \A d \in Cpus : held[d] \in SUBSET Locks
  BY DEF IInv, Types
<1>p. pc[c] = "popcli" /\ Cardinality(held[c]) \in Nat /\ ncli[c] = Cardinality(held[c]) + 1 /\ ~fl_if[c]
  BY <1>h, HeldCard DEF IInv, CliInv, Extra, Popcli
<1>q. /\ ncli' = [ncli EXCEPT ![c] = ncli[c] - 1]
      /\ fl_if' = [fl_if EXCEPT ![c] = StiOnPop(c)]
      /\ pc' = [pc EXCEPT ![c] = "run"]
      /\ UNCHANGED <<locked, lkcpu, intena, arg, eflags, held, started, frame>>
  BY <1>p DEF Popcli, Goto
<1>r. StiOnPop(c) = (ncli[c] = 1 /\ Open(c)) /\ ncli'[c] = Cardinality(held[c]) /\ ncli'[c] \in Nat
  BY <1>p, <1>q DEF IInv, Types, CliInv, StiOnPop
<1>1. Types'
  BY <1>p, <1>q, SMTT(30) DEF IInv, Types, PC, StiOnPop
<1>2. ASSUME NEW d \in Cpus PROVE FrameInv(d)'
  <2>1. CASE d # c
    BY <2>1, <1>q, SMTT(30) DEF IInv, Types, FrameInv
  <2>2. CASE d = c
    BY <2>2, <1>q, <1>r, SMTT(30) DEF IInv, Types, FrameInv, Open, InIrq
  <2> QED
    BY <2>1, <2>2
<1>3. ASSUME NEW d \in Cpus PROVE CliInv(d)'
  <2>1. CASE d # c
    BY <2>1, <1>q, SMTT(30) DEF IInv, Types, CliInv, Extra, Open, InIrq
  <2>2. CASE d = c
    <3>1. pc'[c] = "run" /\ Extra(pc'[c]) = 0 /\ held'[c] = held[c] /\ fl_if'[c] = StiOnPop(c)
      BY <1>q DEF IInv, Types, Extra
    <3>2. Open(c)' = Open(c) /\ intena'[c] = intena[c]
      BY <1>q DEF Open, InIrq
    <3>3. ncli[c] # 0
      BY <1>p
    <3>4. intena[c] = Open(c)
      BY <3>3, SMTT(30) DEF IInv, CliInv
    <3> QED
      BY <2>2, <3>1, <3>2, <3>4, <1>p, <1>q, <1>r, SMTT(30) DEF IInv, Types, CliInv, Extra
  <2> QED
    BY <2>1, <2>2
<1>4. ASSUME NEW d \in Cpus PROVE ArgInv(d)'
  BY SMTT(30), <1>p, <1>q DEF IInv, Types, ArgInv, Before
<1>5. LockInv'
  BY <1>p, <1>q, SMTT(30) DEF IInv, Types, LockInv
<1> QED
  BY <1>1, <1>2, <1>3, <1>4, <1>5 DEF IInv

\* scheduler()'s sti, with nothing held.
LEMMA StiKeeps ==
  ASSUME IInv, NEW c \in Cpus, Sti(c)
  PROVE  IInv'
<1>1. Types'
  BY SMTT(30) DEF IInv, Types, Sti
<1>2. ASSUME NEW d \in Cpus PROVE FrameInv(d)'
  BY SMTT(30) DEF IInv, Types, FrameInv, Sti, InIrq
<1>3. ASSUME NEW d \in Cpus PROVE CliInv(d)'
  <2>1. CASE d # c
    BY <2>1, SMTT(30) DEF IInv, CliInv, Open, InIrq, Sti
  <2>2. CASE d = c
    <3>1. pc[c] = "run" /\ pc'[c] = "run" /\ ncli'[c] = 0 /\ held'[c] = held[c] /\ ncli'[c] = ncli[c]
      BY DEF Sti
    <3>2. fl_if'[c] = TRUE /\ Open(c)' = TRUE
      BY DEF IInv, Types, Sti, Open, InIrq
    <3> QED
      BY <2>2, <3>1, <3>2, ZenonT(30) DEF IInv, CliInv, Extra
  <2> QED
    BY <2>1, <2>2
<1>4. ASSUME NEW d \in Cpus PROVE ArgInv(d)'
  BY DEF IInv, ArgInv, Sti
<1>5. LockInv'
  BY SMTT(30) DEF IInv, LockInv, Sti
<1> QED
  BY <1>1, <1>2, <1>3, <1>4, <1>5 DEF IInv

\* An interrupt finds a CPU that holds nothing and has not done its cli.
LEMMA InterruptKeeps ==
  ASSUME IInv, NEW c \in Cpus, Interrupt(c)
  PROVE  IInv'
<1>h. \A d \in Cpus : held[d] \in SUBSET Locks
  BY DEF IInv, Types
<1>p. fl_if[c] /\ ncli[c] = 0 /\ held[c] = {} /\ pc[c] \in {"run", "pushcli"}
  <2>1. ncli[c] = 0 /\ pc[c] # "nest" /\ pc[c] # "panic"
    BY DEF IInv, CliInv, ArgInv, Interrupt
  <2>2. Cardinality(held[c]) \in Nat /\ (Cardinality(held[c]) = 0 <=> held[c] = {})
    BY SMTT(30), <1>h, HeldCard
  <2>3. pc[c] \notin {"holding", "xchg", "popcli"} /\ Cardinality(held[c]) = 0
    BY <2>1, <2>2 DEF IInv, CliInv, Extra
  <2> QED
    BY <2>1, <2>2, <2>3, SMTT(30) DEF IInv, Types, PC, ArgInv, Interrupt
<1>q. started[c] /\ ~InIrq(c)
  BY <1>p, ZenonT(30) DEF IInv, CliInv, Open
<1>1. Types'
  BY SMTT(30) DEF IInv, Types, Interrupt, Goto, PC, Frame
<1>2. ASSUME NEW d \in Cpus PROVE FrameInv(d)'
  <2>1. CASE d # c
    BY SMTT(30), <2>1 DEF IInv, Types, FrameInv, Interrupt
  <2>2. CASE d = c
    <3>1. frame'[c] = {[pc |-> pc[c], arg |-> arg[c], eflags |-> eflags[c], held |-> held[c]]}
      BY DEF IInv, Types, Interrupt
    <3>2. pc[c] = "pushcli" => eflags[c]
      BY <1>p, SMTT(30) DEF IInv, CliInv
    <3>3. started'[c] /\ ~fl_if'[c]
      BY <1>q, SMTT(30) DEF IInv, Types, Interrupt
    <3> QED
      BY <2>2, <3>1, <3>2, <3>3, <1>p, SMTT(30) DEF FrameInv
  <2> QED
    BY <2>1, <2>2
<1>3. ASSUME NEW d \in Cpus PROVE CliInv(d)'
  <2>1. CASE d # c
    BY <2>1, SMTT(30) DEF IInv, Types, CliInv, Extra, Open, InIrq, Interrupt, Goto
  <2>2. CASE d = c
    <3>1. ncli'[c] = 0 /\ pc'[c] = "run" /\ ~fl_if'[c] /\ fl_if'[c] \in BOOLEAN /\ InIrq(c)'
      BY <1>p, ZenonT(30) DEF IInv, Types, InIrq, Interrupt, Goto
    <3>2. held'[c] = {} /\ Cardinality(held'[c]) = 0
      BY <1>p, FS_EmptySet, ZenonT(30) DEF Interrupt
    <3> QED
      BY <2>2, <3>1, <3>2, SMTT(30) DEF CliInv, Extra, Open
  <2> QED
    BY <2>1, <2>2
<1>4. ASSUME NEW d \in Cpus PROVE ArgInv(d)'
  BY SMTT(30) DEF IInv, Types, ArgInv, Before, Interrupt, Goto
<1>5. LockInv'
  BY SMTT(30), <1>p DEF IInv, Types, LockInv, Interrupt, Goto
<1> QED
  BY <1>1, <1>2, <1>3, <1>4, <1>5 DEF IInv

\* The handler's return restores what it interrupted.
LEMMA IretKeeps ==
  ASSUME IInv, NEW c \in Cpus, Iret(c)
  PROVE  IInv'
<1>m. Mine(c) = held[c]
  BY SMTT(30), MineIsHeld
<1>1. Types'
  BY SMTT(30) DEF IInv, Types, Iret, PC, Frame
<1>2. ASSUME NEW d \in Cpus PROVE FrameInv(d)'
  BY SMTT(30) DEF IInv, Types, FrameInv, Iret, InIrq
<1>3. ASSUME NEW d \in Cpus PROVE CliInv(d)'
  <2>1. CASE d # c
    BY <2>1, SMTT(30) DEF IInv, Types, CliInv, Extra, Open, InIrq, Iret
  <2>2. CASE d = c
    <3>1. PICK f \in frame[c] : pc'[c] = f.pc /\ eflags'[c] = f.eflags
      BY SMTT(30) DEF IInv, Types, Iret
    <3>2. held[c] = {} /\ pc[c] = "run" /\ held' = held /\ ncli' = ncli
      BY <1>m, SMTT(30) DEF Iret
    <3>8. Cardinality(held[c]) = 0 /\ Cardinality(held'[c]) = 0 /\ Extra(pc[c]) = 0
      BY <3>2, FS_EmptySet, SMTT(30) DEF Extra
    <3>5. ncli'[c] = 0
      BY <3>2, <3>8, SMTT(30) DEF IInv, CliInv
    <3>3. fl_if'[c] = TRUE /\ started'[c] = TRUE /\ ~InIrq(c)'
      BY <3>1 DEF IInv, Types, FrameInv, InIrq, Iret
    <3>4. f.pc \in {"run", "pushcli"} /\ (f.pc = "pushcli" => f.eflags) /\ f.eflags \in BOOLEAN
      BY DEF IInv, Types, Frame, FrameInv
    <3>7. pc'[c] = "pushcli" => eflags'[c] = TRUE
      BY <3>1, <3>4, SMTT(30)
    <3> QED
      <4>1. (ncli[c] = Cardinality(held[c]) + Extra(pc[c]))'
        BY <3>1, <3>4, <3>5, <3>8, SMTT(30) DEF Extra
      <4>2. Open(c)' = TRUE
        BY <3>3 DEF Open
      <4>3. (pc[c] # "nest")'
        BY SMTT(30), <3>1, <3>4
      <4> QED
        BY <2>2, <3>3, <3>5, <3>7, <4>1, <4>2, <4>3, ZenonT(30) DEF CliInv
  <2> QED
    BY <2>1, <2>2
<1>4. ASSUME NEW d \in Cpus PROVE ArgInv(d)'
  BY <1>m, SMTT(30) DEF IInv, Types, FrameInv, ArgInv, Before, Iret
<1>5. LockInv'
  BY <1>m DEF IInv, Types, LockInv, Iret
<1> QED
  BY <1>1, <1>2, <1>3, <1>4, <1>5 DEF IInv

\* One step per action.
LEMMA NextKeeps == IInv /\ [Next]_vars => IInv'
<1> SUFFICES ASSUME IInv, [Next]_vars PROVE IInv'
  OBVIOUS
<1>1. CASE UNCHANGED vars
  <2>1. Types' /\ LockInv'
    BY <1>1, SMTT(30) DEF IInv, Types, LockInv, vars
  <2>2. ASSUME NEW c \in Cpus PROVE FrameInv(c)' /\ CliInv(c)' /\ ArgInv(c)'
    BY <1>1, ZenonT(30) DEF IInv, FrameInv, CliInv, ArgInv, Open, InIrq, vars
  <2> QED
    BY <2>1, <2>2, SMTT(30) DEF IInv
<1>2. ASSUME NEW c \in Cpus, NEW l \in Locks, Acquire(c, l) \/ Release(c, l) PROVE IInv'
  BY <1>2, AcquireKeeps, ReleaseKeeps
<1>3. ASSUME NEW c \in Cpus, Inside(c) PROVE IInv'
  BY <1>3, PushcliKeeps, PushcliNestKeeps, AcquireCheckKeeps, XchgKeeps, OwnKeeps, UnlockKeeps,
     PopcliKeeps, SMTT(30) DEF Inside
<1>4. ASSUME NEW c \in Cpus, Sti(c) \/ Interrupt(c) \/ Iret(c) PROVE IInv'
  BY <1>4, StiKeeps, InterruptKeeps, IretKeeps
<1> QED
  BY <1>1, <1>2, <1>3, <1>4 DEF Next

\* acquire and release keep ncli, intena, FL_IF, lk->locked and lk->cpu consistent
\* with the locks really held, at every instruction boundary.
THEOREM Invariance == Spec => []IInv
<1>1. Init => IInv
  BY InitIInv
<1>2. IInv /\ [Next]_vars => IInv'
  BY NextKeeps
<1> QED
  BY <1>1, <1>2, PTL DEF Spec

\* The state keeps its types, and pushcli never nests deeper than there are locks.
THEOREM TypeCorrect == Spec => []TypeOK
<1>1. IInv => TypeOK
  <2> SUFFICES ASSUME IInv PROVE TypeOK
    OBVIOUS
  <2>1. ASSUME NEW c \in Cpus PROVE ncli[c] \in 0 .. Cardinality(Locks)
    <3>1. held[c] \in SUBSET Locks /\ arg[c] \in Locks /\ ncli[c] \in Nat
      BY DEF IInv, Types
    <3>2. Extra(pc[c]) = 1 => arg[c] \notin held[c]
      BY <3>1, RankAssumption DEF IInv, ArgInv, Before, Extra
    <3>3. Extra(pc[c]) = 1 \/ Extra(pc[c]) = 0
      BY DEF Extra
    <3>4. ncli[c] = Cardinality(held[c]) + Extra(pc[c])
      BY DEF IInv, CliInv
    <3>5. Cardinality(held[c]) + Extra(pc[c]) <= Cardinality(Locks)
      <4>1. CASE Extra(pc[c]) = 1
        BY <3>1, <3>2, <4>1, HeldCard, ZenonT(30)
      <4>2. CASE Extra(pc[c]) = 0
        <5> /\ Cardinality(held[c]) \in Nat /\ Cardinality(held[c]) <= Cardinality(Locks)
          BY <3>1, HeldCard
        <5> QED
          BY <4>2
      <4> QED
        BY <3>3, <4>1, <4>2
    <3>6. Cardinality(Locks) \in Nat
      BY SMTT(30), LocksAssumption, FS_CardinalityType
    <3> QED
      BY <3>1, <3>4, <3>5, <3>6
  <2> QED
    BY <2>1 DEF IInv, Types, TypeOK
<1> QED
  BY <1>1, Invariance, PTL

\* The xchg of acquire admits one CPU until the movl of its release.
THEOREM Exclusion == Spec => []MutualExclusion
<1>1. IInv => MutualExclusion
  BY SMTT(30) DEF IInv, Types, LockInv, MutualExclusion
<1> QED
  BY <1>1, Invariance, PTL

\* No handler runs on a CPU that holds a lock.
THEOREM HoldersUninterrupted == Spec => []NoInterruptWhileHolding
<1>1. IInv => NoInterruptWhileHolding
  <2> SUFFICES ASSUME IInv, NEW c \in Cpus, held[c] # {}
               PROVE  ~fl_if[c] /\ Mine(c) = held[c]
    BY DEF NoInterruptWhileHolding
  <2>1. held[c] \in SUBSET Locks
    BY DEF IInv, Types
  <2>2. Cardinality(held[c]) \in Nat \ {0}
    BY <2>1, HeldCard, SMTT(30)
  <2>3. ncli[c] # 0
    BY <2>2, SMTT(30) DEF IInv, CliInv, Extra
  <2> QED
    BY <2>3, MineIsHeld, SMTT(30) DEF IInv, CliInv
<1> QED
  BY <1>1, Invariance, PTL

\* pushcli and popcli, however nested and interrupted, leave FL_IF as it was.
THEOREM Restored == Spec => []InterruptsRestored
<1>1. IInv => InterruptsRestored
  <2> SUFFICES ASSUME IInv, NEW c \in Cpus, pc[c] = "run", held[c] = {}
               PROVE  fl_if[c] = (started[c] /\ ~InIrq(c))
    BY DEF InterruptsRestored
  <2>1. Cardinality(held[c]) = 0 /\ Extra(pc[c]) = 0
    BY SMTT(30), FS_EmptySet DEF Extra
  <2>2. ncli[c] = 0
    BY SMTT(30), <2>1 DEF IInv, CliInv
  <2> QED
    BY <2>2, SMTT(30) DEF IInv, CliInv, Open
<1> QED
  BY <1>1, Invariance, PTL

\* The four panics of spinlock.c are unreachable.
THEOREM PanicFree == Spec => []NoPanic
<1>1. IInv => NoPanic
  BY DEF IInv, ArgInv, NoPanic
<1> QED
  BY <1>1, Invariance, PTL
=============================================================================
