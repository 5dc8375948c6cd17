--------------------------- MODULE SchedulerProofs ---------------------------
(***************************************************************************)
(* The policies of scheduler() keep their order for any number of slots,   *)
(* CPUs and ticks: round robin passes a waiting process over at most once  *)
(* per CPU, the FIFO queues are served by time stamp, the levels of        *)
(* strategy 4 in order, and on one CPU no process is charged a tick that   *)
(* it did not live through.                                                *)
(***************************************************************************)
EXTENDS SchedulerHistory, FiniteSetTheorems, TLAPS

\* What a quantum may grow to before the process has to yield.
QMax == IF strategy = 1 THEN QUANTA ELSE 1

\* Each CPU: who holds ptable.lock, whose process it is, and where an interrupt can be.
CpuInv ==
  /\ \A c \in Cpus :
       /\ spc[c] \in {"scan", "back"} <=> ptlock = c
       /\ cpuproc[c] # Nil <=> spc[c] \in {"proc", "back"}
       /\ spc[c] \in {"scan", "back"} => irq[c] = "none"
       /\ irq[c] = "yield" => spc[c] = "proc"
       /\ irq[c] = "wakeup" => c = Cpu0
       /\ strategy = 1 /\ spc[c] \in {"proc", "back"} => pos[c] > 1
       /\ spc[c] # "idle" => c \in Builds[strategy].cpus
       /\ spc[c] = "proc" => /\ state[cpuproc[c]] = "RUNNING"
                             /\ irq[c] # "yield" => myquantum[cpuproc[c]] < QMax
  /\ \A c, d \in Cpus : spc[c] = "proc" /\ spc[d] = "proc" /\ cpuproc[c] = cpuproc[d] => c = d

\* A child that is being forked belongs to one process, which is alive.
NpInv ==
  /\ \A p \in Slots : np[p] # Nil =>
       state[np[p]] = "EMBRYO" /\ state[p] \in {"RUNNABLE", "RUNNING"}
  /\ \A p, q \in Slots : np[p] # Nil /\ np[p] = np[q] => p = q

\* The tick that is counted but not yet charged to the process it interrupted.
Pending(p) == IF cpuproc[Cpu0] = p /\ irq[Cpu0] \in {"wakeup", "account"} THEN 1 ELSE 0

\* On one CPU, each tick is charged at most once.
ChargeInv ==
  OneTimer => \A p \in Slots :
    /\ ctime[p] <= ticks /\ rtime[p] + Pending(p) <= ticks
    /\ state[p] # "UNUSED" /\ "exec" \notin Builds[strategy].ops
         => ctime[p] + rtime[p] + Pending(p) <= ticks

BInv == TypeOK /\ CpuInv /\ NpInv /\ ChargeInv

\* The CPUs whose pass may still come to q before it comes to p.
Could(p, q) == {c \in Cpus :
  IF q > p THEN spc[c] # "idle" /\ p < pos[c] /\ pos[c] <= q
           ELSE spc[c] = "idle" \/ pos[c] <= q \/ pos[c] > p}

\* A waiting process has been passed over by q at most once by each CPU that cannot do
\* so any more.
BypassInv ==
  strategy = 1 => \A p, q \in Slots :
    IF state[p] = "RUNNABLE" /\ p # q
    THEN bypass[p][q] + Cardinality(Could(p, q)) <= Cardinality(Cpus)
    ELSE bypass[p][q] = 0

\* The stamp of a waiting process is the tick at which it began to wait, and what it was
\* charged it was charged before.
ReadyInv ==
  \A p \in Slots : state[p] = "RUNNABLE" =>
    ready[p] = priority[p] /\ (OneTimer => rtime[p] <= ready[p])

HTypeOK == ready \in [Slots -> Tick0] /\ bypass \in [Slots -> [Slots -> Nat]]

IInv == BInv /\ HTypeOK /\ BypassInv /\ ReadyInv

\* What a step may change of a process that waits: its stamp and its charge only while
\* it begins to wait.
Effects ==
  /\ strategy' = strategy
  /\ \A p \in Slots : state'[p] = "RUNNABLE" =>
       /\ rtime'[p] = rtime[p]
       /\ priority'[p] = IF state[p] = "RUNNABLE" THEN priority[p] ELSE ticks

\* A step that dispatches nobody, and lets no CPU come to anybody sooner.
Quiet ==
  /\ \A q \in Slots : ~Starts(q)
  /\ strategy = 1 => \A p, q \in Slots : Waits(p) => Could(p, q)' \subseteq Could(p, q)

-----------------------------------------------------------------------------
(* Arithmetic of uint, and least elements                                  *)

\* A uint value is below its modulus.
LEMMA ModRange == ASSUME NEW a \in Int, NEW m \in Nat \ {0} PROVE a % m \in 0 .. m - 1
  OBVIOUS

\* uint arithmetic is exact where nothing wraps.
LEMMA ModSmall == ASSUME NEW m \in Nat \ {0}, NEW a \in 0 .. m - 1 PROVE a % m = a
  OBVIOUS

\* A share of the run time is no more than the run time.
LEMMA DivBelow == ASSUME NEW a \in Nat, NEW b \in Nat \ {0} PROVE a \div b \in Nat /\ a \div b <= a
  OBVIOUS

\* The slots are positive numbers; Nil is none of them.
LEMMA SlotFacts == Slots \subseteq Nat /\ Nil \notin Slots /\ 1 \in Slots /\ \A p \in Slots : p \in 1 .. NPROC
  BY NPROCAssumption DEF Slots, Nil

\* A loop over the table that keeps the best so far finds one.
LEMMA MinExists ==
  ASSUME NEW T, T \subseteq Nat, T # {}
  PROVE  \E n \in T : \A m \in T : n <= m
<1> DEFINE F == {1 .. n : n \in T}
           R == StrictSubsetOrdering(Nat)
<1>1. IsWellFoundedOn(R, FiniteSubsetsOf(Nat))
  BY Zenon, FS_StrictSubsetOrderingWellFounded
<1>2. \A n \in T : 1 .. n \in SUBSET Nat /\ IsFiniteSet(1 .. n)
  BY FS_Interval
<1>3. F \subseteq FiniteSubsetsOf(Nat)
  BY Zenon, <1>2 DEF FiniteSubsetsOf
<1>4. F # {}
  OBVIOUS
<1>5. PICK I \in F : \A J \in F : ~(<<J, I>> \in R)
  <2> HIDE DEF F, R
  <2> QED BY Zenon, <1>1, <1>3, <1>4, WFMin
<1>6. PICK n \in T : I = 1 .. n
  BY Zenon, <1>5
<1>7. ASSUME NEW m \in T, m < n PROVE FALSE
  <2>1. 1 .. m \in F
    OBVIOUS
  <2>2. (1 .. m) \subseteq (1 .. n) /\ 1 .. m # 1 .. n
    <3>1. m \in Nat /\ n \in Nat
      OBVIOUS
    <3>2. n \in 1 .. n /\ n \notin 1 .. m
      BY <3>1, <1>7
    <3>3. (1 .. m) \subseteq (1 .. n)
      BY <3>1, <1>7
    <3> QED BY Zenon, <3>2, <3>3
  <2>3. <<1 .. m, 1 .. n>> \in R
    BY Zenon, <2>2, <1>2 DEF StrictSubsetOrdering
  <2> QED BY Zenon, <2>1, <2>3, <1>5, <1>6
<1>8. \A m \in T : n <= m
  BY <1>7
<1> QED BY Zenon, <1>8

\* A pass finds somebody as long as somebody is ahead of it.
LEMMA NextExists ==
  ASSUME NEW c \in Cpus, pos[c] \in Nat, NEW S, S \subseteq Slots, NEW q \in S, pos[c] <= q
  PROVE  NextInPass(c, S) # {}
<1> DEFINE T == {p \in S : p >= pos[c]}
<1>1. T \subseteq Nat /\ q \in T
  BY Zenon, SlotFacts
<1>2. PICK n \in T : \A m \in T : n <= m
  <2> HIDE DEF T
  <2> QED BY Zenon, <1>1, MinExists
<1>3. n \in NextInPass(c, S)
  BY Zenon, <1>2 DEF NextInPass
<1> QED BY Zenon, <1>3

\* A scan for the least key finds somebody if one key is below its bound.
LEMMA LeastExists ==
  ASSUME NEW S, S \subseteq Slots, NEW key \in [Slots -> Nat], NEW bound \in Nat,
         NEW q \in S, key[q] < bound
  PROVE  Least(S, key, bound) # {}
<1> DEFINE K == {key[p] : p \in S}
<1>1. K \subseteq Nat /\ key[q] \in K
  OBVIOUS
<1>2. PICK k \in K : \A m \in K : k <= m
  <2> HIDE DEF K
  <2> QED BY Zenon, <1>1, MinExists
<1> DEFINE T == {p \in S : key[p] = k}
<1>3. T \subseteq Nat /\ T # {}
  BY Zenon, <1>2, SlotFacts
<1>4. PICK n \in T : \A m \in T : n <= m
  <2> HIDE DEF T
  <2> QED BY Zenon, <1>3, MinExists
<1>5. n \in S /\ key[n] = k /\ k \in Nat /\ key[q] \in Nat /\ k <= key[q]
  BY Zenon, <1>1, <1>2, <1>4
<1>6. key[n] < bound
  BY <1>5
<1>7. ASSUME NEW m \in S PROVE key[n] < key[m] \/ (key[n] = key[m] /\ n <= m)
  <2>1. k <= key[m] /\ key[m] \in Nat
    BY Zenon, <1>2
  <2>2. CASE key[m] = k
    BY Zenon, <2>2, <1>4, <1>5
  <2>3. CASE key[m] # k
    BY <2>1, <2>3, <1>5
  <2> QED BY Zenon, <2>2, <2>3
<1>8. n \in Least(S, key, bound)
  BY Zenon, <1>5, <1>6, <1>7 DEF Least
<1> QED BY Zenon, <1>8

-----------------------------------------------------------------------------
(* What all steps rely on                                                  *)

\* What a build is made of.
LEMMA BuildFacts ==
  ASSUME strategy \in Strategies
  PROVE  /\ strategy \in 1 .. 4 /\ TickMod \in Nat \ {0} /\ Builds[strategy].ticks \in Nat
         /\ Builds[strategy].cpus \subseteq Cpus
         /\ 0 \in Tick0 /\ Tick0 \subseteq Nat
         /\ QMax \in Nat \ {0}
<1>1. Builds[strategy] \in [cpus : SUBSET Cpus, ops : SUBSET Ops, mod : Nat \ {0}, ticks : Nat]
  BY Zenon, BuildsAssumption
<1>2. TickMod \in Nat \ {0} /\ Builds[strategy].ticks \in Nat /\ Builds[strategy].cpus \subseteq Cpus
  BY Zenon, <1>1 DEF TickMod
<1>3. 0 \in Tick0 /\ Tick0 \subseteq Nat
  BY <1>2 DEF Tick0
<1>4. QMax \in Nat \ {0}
  BY QuantumAssumption DEF QMax
<1> QED BY Zenon, <1>2, <1>3, <1>4, BuildsAssumption

\* The build does not change.
LEMMA SameBuild ==
  ASSUME strategy' = strategy
  PROVE  OneTimer' = OneTimer /\ Tick0' = Tick0 /\ QMax' = QMax /\ TickMod' = TickMod
  BY Zenon DEF OneTimer, Tick0, QMax, TickMod

\* The processes that the CPUs execute are RUNNING, and different.
LEMMA ExecFacts ==
  ASSUME BInv, NEW c \in Cpus, spc[c] = "proc"
  PROVE  cpuproc[c] \in Slots /\ state[cpuproc[c]] = "RUNNING" /\ ptlock # c
  BY DEF BInv, TypeOK, CpuInv

\* The passes of the CPUs are where they were.
LEMMA CouldSame ==
  ASSUME pos' = pos, \A c \in Cpus : (spc'[c] = "idle") <=> (spc[c] = "idle")
  PROVE  \A p, q \in Slots : Could(p, q)' = Could(p, q)
  BY ZenonT(60) DEF Could

-----------------------------------------------------------------------------
(* The scheduler's loop                                                    *)

\* scheduler() takes ptable.lock and reads ticks: its pass is at the first slot.
LEMMA SchedAcquireInv ==
  ASSUME BInv, NEW c \in Cpus, SchedAcquire(c) PROVE BInv' /\ Effects /\ Quiet
<1>1. /\ spc[c] = "idle" /\ irq[c] = "none" /\ ptlock = NoCpu /\ c \in Builds[strategy].cpus
      /\ strategy \in Strategies /\ spc \in [Cpus -> {"idle", "scan", "proc", "back"}]
      /\ tmp \in [Cpus -> Tick0] /\ pos \in [Cpus -> 1 .. NPROC + 1] /\ ticks \in Tick0
  BY Zenon DEF SchedAcquire, Free, BInv, TypeOK
<1>2. /\ ptlock' = c /\ tmp' = [tmp EXCEPT ![c] = ticks] /\ pos' = [pos EXCEPT ![c] = 1]
      /\ spc' = [spc EXCEPT ![c] = "scan"]
      /\ UNCHANGED <<strategy, ticks, state, priority, ctime, rtime, queuelevel, myquantum,
                     onticks, np, cpuproc, irq>>
  BY Zenon DEF SchedAcquire, Set, stamps
<1>3. /\ spc' \in [Cpus -> {"idle", "scan", "proc", "back"}] /\ spc'[c] = "scan"
      /\ tmp' \in [Cpus -> Tick0] /\ pos' \in [Cpus -> 1 .. NPROC + 1] /\ pos'[c] = 1
      /\ \A d \in Cpus : d # c => spc'[d] = spc[d] /\ pos'[d] = pos[d]
  BY SMTT(30), <1>1, <1>2, NPROCAssumption
<1>4. OneTimer' = OneTimer /\ Tick0' = Tick0 /\ QMax' = QMax
  BY Zenon, <1>2, SameBuild
<1>5. TypeOK'
  BY ZenonT(60), <1>2, <1>3, <1>4 DEF BInv, TypeOK
<1>6. CpuInv'
  BY <1>1, <1>2, <1>3, <1>4, CpusAssumption DEF BInv, CpuInv
<1>7. NpInv'
  BY Zenon, <1>2 DEF BInv, NpInv
<1>8. ChargeInv'
  BY Zenon, <1>2, <1>4 DEF BInv, ChargeInv, Pending
<1>9. Effects
  BY Zenon, <1>2 DEF Effects
<1>10. Quiet
  <2>1. \A q \in Slots : ~Starts(q)
    BY Zenon, <1>2 DEF Starts
  <2>2. \A p, q \in Slots : Could(p, q)' \subseteq Could(p, q)
    <3> SUFFICES ASSUME NEW p \in Slots, NEW q \in Slots, NEW d \in Cpus, d \in Could(p, q)'
                 PROVE  d \in Could(p, q)
      BY Zenon DEF Could
    <3>1. CASE d = c
      <4>1. ~(p < 1) /\ p \in Nat /\ q \in Nat
        BY SlotFacts
      <4>2. ~(q > p)
        BY Zenon, <3>1, <4>1, <1>3 DEF Could
      <4> QED BY Zenon, <3>1, <4>2, <1>1 DEF Could
    <3>2. CASE d # c
      BY Zenon, <3>2, <1>3 DEF Could
    <3> QED BY Zenon, <3>1, <3>2
  <2> QED BY Zenon, <2>1, <2>2 DEF Quiet
<1> QED BY Zenon, <1>5, <1>6, <1>7, <1>8, <1>9, <1>10 DEF BInv

\* What scheduler() chooses is RUNNABLE, and the least of its queue.
LEMMA ChoiceIs ==
  ASSUME NEW c \in Cpus, NEW p \in Choice(c), strategy \in 1 .. 4
  PROVE  /\ p \in Slots /\ state[p] = "RUNNABLE"
         /\ strategy = 1 => p \in NextInPass(c, Runnable)
         /\ strategy = 2 => p \in Oldest(c, Runnable)
         /\ strategy = 3 => p \in LeastServed(c, Runnable)
         /\ strategy = 4 => p \in MultiLevel(c)
<1>1. strategy = 1 \/ strategy = 2 \/ strategy = 3 \/ strategy = 4
  OBVIOUS
<1>2. NextInPass(c, Runnable) \subseteq Runnable /\ NextInPass(c, Level(1)) \subseteq Runnable
  BY Zenon DEF NextInPass, Level
<1>3. \A S, key, bound : Least(S, key, bound) \subseteq S
  BY Zenon DEF Least
<1>4. /\ Oldest(c, Runnable) \subseteq Runnable /\ Oldest(c, Level(2)) \subseteq Runnable
      /\ LeastServed(c, Runnable) \subseteq Runnable /\ LeastServed(c, Level(3)) \subseteq Runnable
  BY Zenon, <1>3 DEF Oldest, LeastServed, Level
<1>5. MultiLevel(c) \subseteq Runnable
  BY Zenon, <1>2, <1>4 DEF MultiLevel
<1>6. \A q \in Runnable : q \in Slots /\ state[q] = "RUNNABLE"
  BY Zenon DEF Runnable
<1>7. CASE strategy = 1
  BY <1>7, <1>2, <1>6 DEF Choice
<1>8. CASE strategy = 2
  BY <1>8, <1>4, <1>6 DEF Choice
<1>9. CASE strategy = 3
  BY <1>9, <1>4, <1>6 DEF Choice
<1>10. CASE strategy = 4
  BY <1>10, <1>5, <1>6 DEF Choice
<1> QED BY Zenon, <1>1, <1>7, <1>8, <1>9, <1>10

\* The process chosen runs: it is nobody's else.
LEMMA DispatchInv ==
  ASSUME BInv, NEW c \in Cpus, NEW p \in Slots, Dispatch(c, p)
  PROVE  /\ BInv' /\ Effects
         /\ \A q \in Slots : Starts(q) <=> q = p
<1>1. /\ spc[c] = "scan" /\ p \in Choice(c) /\ strategy \in Strategies /\ strategy \in 1 .. 4
      /\ spc \in [Cpus -> {"idle", "scan", "proc", "back"}] /\ pos \in [Cpus -> 1 .. NPROC + 1]
      /\ cpuproc \in [Cpus -> Slots \cup {Nil}] /\ priority \in [Slots -> Tick0]
      /\ ticks \in Tick0 /\ onticks \in [Slots -> BOOLEAN]
      /\ myquantum \in [Slots -> 0 .. QMax]
  BY Zenon, BuildFacts DEF Dispatch, BInv, TypeOK, QMax
<1>2. state[p] = "RUNNABLE" /\ p \in 1 .. NPROC
  BY Zenon, <1>1, ChoiceIs, SlotFacts
<1>3. ptlock = c /\ irq[c] = "none" /\ \A d \in Cpus : d # c => spc[d] \notin {"scan", "back"}
  BY Zenon, <1>1 DEF BInv, CpuInv
<1>4. state \in [Slots -> {"UNUSED", "EMBRYO", "SLEEPING", "RUNNABLE", "RUNNING", "ZOMBIE"}]
  BY Zenon DEF BInv, TypeOK
<1>5. /\ cpuproc' = [cpuproc EXCEPT ![c] = p] /\ myquantum' = [myquantum EXCEPT ![p] = 0]
      /\ priority' = IF InPass(p) THEN priority ELSE [priority EXCEPT ![p] = ticks]
      /\ pos' = IF InPass(p) THEN [pos EXCEPT ![c] = p + 1] ELSE pos
      /\ state' = [state EXCEPT ![p] = "RUNNING"] /\ onticks' = [onticks EXCEPT ![p] = FALSE]
      /\ spc' = [spc EXCEPT ![c] = "proc"] /\ ptlock' = NoCpu
      /\ UNCHANGED <<strategy, ticks, ctime, rtime, queuelevel, np, irq, tmp>>
  BY Zenon DEF Dispatch, Set
<1>6. /\ cpuproc' \in [Cpus -> Slots \cup {Nil}] /\ cpuproc'[c] = p
      /\ spc' \in [Cpus -> {"idle", "scan", "proc", "back"}] /\ spc'[c] = "proc"
      /\ \A d \in Cpus : d # c => cpuproc'[d] = cpuproc[d] /\ spc'[d] = spc[d]
  BY Zenon, <1>1, <1>5
<1>7. /\ state' \in [Slots -> {"UNUSED", "EMBRYO", "SLEEPING", "RUNNABLE", "RUNNING", "ZOMBIE"}]
      /\ state'[p] = "RUNNING" /\ \A q \in Slots : q # p => state'[q] = state[q]
      /\ onticks' \in [Slots -> BOOLEAN]
  BY Zenon, <1>1, <1>4, <1>5
<1>8. /\ myquantum' \in [Slots -> 0 .. QMax] /\ myquantum'[p] = 0
      /\ \A q \in Slots : q # p => myquantum'[q] = myquantum[q]
  BY <1>1, <1>5, BuildFacts
<1>9. priority' \in [Slots -> Tick0] /\ \A q \in Slots : q # p => priority'[q] = priority[q]
  BY Zenon, <1>1, <1>5
<1>10. /\ pos' \in [Cpus -> 1 .. NPROC + 1] /\ (strategy = 1 => pos'[c] > 1)
       /\ \A d \in Cpus : d # c => pos'[d] = pos[d]
  <2>1. p + 1 \in 1 .. NPROC + 1 /\ p + 1 > 1
    BY <1>2, NPROCAssumption
  <2>2. CASE InPass(p)
    BY Zenon, <2>1, <2>2, <1>1, <1>5
  <2>3. CASE ~InPass(p)
    BY Zenon, <2>3, <1>1, <1>5 DEF InPass
  <2> QED BY Zenon, <2>2, <2>3
<1>11. OneTimer' = OneTimer /\ Tick0' = Tick0 /\ QMax' = QMax
  BY Zenon, <1>5, SameBuild
<1>12. TypeOK'
  BY ZenonT(60), <1>5, <1>6, <1>7, <1>8, <1>9, <1>10, <1>11, CpusAssumption DEF BInv, TypeOK, QMax
<1>13. CpuInv'
  <2>1. \A d \in Cpus : d # c /\ spc[d] = "proc" =>
          cpuproc[d] # p /\ cpuproc[d] \in Slots /\ state[cpuproc[d]] = "RUNNING"
    BY Zenon, <1>2, ExecFacts
  <2>2. c \in Builds[strategy].cpus
    BY ZenonT(60), <1>1 DEF BInv, CpuInv
  <2>3. ASSUME NEW d \in Cpus, d # c
        PROVE  /\ (spc'[d] \in {"scan", "back"} <=> ptlock' = d)
               /\ (cpuproc'[d] # Nil <=> spc'[d] \in {"proc", "back"})
               /\ (spc'[d] \in {"scan", "back"} => irq'[d] = "none")
               /\ (irq'[d] = "yield" => spc'[d] = "proc") /\ (irq'[d] = "wakeup" => d = Cpu0)
               /\ (strategy' = 1 /\ spc'[d] \in {"proc", "back"} => pos'[d] > 1)
               /\ (spc'[d] # "idle" => d \in Builds[strategy'].cpus)
               /\ (spc'[d] = "proc" => /\ state'[cpuproc'[d]] = "RUNNING"
                                       /\ (irq'[d] # "yield" => myquantum'[cpuproc'[d]] < QMax'))
    BY SMTT(30), <2>1, <2>3, <1>3, <1>5, <1>6, <1>7, <1>8, <1>10, <1>11, CpusAssumption DEF BInv, CpuInv
  <2>4. 0 < QMax
    BY <1>1, BuildFacts
  <2>5. \A d, e \in Cpus : spc'[d] = "proc" /\ spc'[e] = "proc" /\ cpuproc'[d] = cpuproc'[e] => d = e
    BY SMTT(30), <2>1, <1>6 DEF BInv, CpuInv
  <2> QED BY SMTT(30), <2>2, <2>3, <2>4, <2>5, <1>3, <1>5, <1>6, <1>7, <1>8, <1>10, <1>11, SlotFacts,
             CpusAssumption DEF CpuInv
<1>14. NpInv'
  BY SMTT(30), <1>2, <1>5, <1>7 DEF BInv, NpInv, TypeOK
<1>15. ChargeInv'
  <2>1. \A q \in Slots : Pending(q)' = Pending(q) \/ Pending(q)' = 0
    BY <1>3, <1>5, <1>6 DEF Pending
  <2>2. \A q \in Slots : Pending(q) \in Nat /\ Pending(q)' \in Nat /\ Pending(q)' <= Pending(q)
    BY <2>1 DEF Pending
  <2>3. ticks \in Nat /\ \A q \in Slots : rtime[q] \in Nat /\ ctime[q] \in Nat
    BY Zenon, BuildFacts DEF BInv, TypeOK
  <2>4. \A q \in Slots : state'[q] # "UNUSED" => state[q] # "UNUSED"
    BY Zenon, <1>2, <1>7
  <2> HIDE DEF Pending
  <2> QED BY SMTT(30), <2>2, <2>3, <2>4, <1>5, <1>11 DEF BInv, ChargeInv
<1>16. Effects
  BY Zenon, <1>5, <1>7, <1>9 DEF Effects
<1>17. \A q \in Slots : Starts(q) <=> q = p
  BY ZenonT(60), <1>2, <1>7 DEF Starts
<1> QED BY Zenon, <1>12, <1>13, <1>14, <1>15, <1>16, <1>17 DEF BInv

\* Back from swtch: a round-robin pass goes on, any other is over.
LEMMA SchedBackInv ==
  ASSUME BInv, NEW c \in Cpus, SchedBack(c) PROVE BInv' /\ Effects /\ Quiet
<1>1. /\ spc[c] = "back" /\ strategy \in Strategies
      /\ spc \in [Cpus -> {"idle", "scan", "proc", "back"}] /\ cpuproc \in [Cpus -> Slots \cup {Nil}]
  BY Zenon DEF SchedBack, BInv, TypeOK
<1>2. /\ cpuproc' = [cpuproc EXCEPT ![c] = Nil]
      /\ spc' = [spc EXCEPT ![c] = IF pos[c] > 1 THEN "scan" ELSE "idle"]
      /\ ptlock' = IF pos[c] > 1 THEN c ELSE NoCpu
      /\ UNCHANGED <<strategy, ticks, state, priority, ctime, rtime, queuelevel, myquantum,
                     onticks, np, irq, tmp, pos>>
  BY Zenon DEF SchedBack, Set, stamps
<1>3. /\ spc' \in [Cpus -> {"idle", "scan", "proc", "back"}] /\ cpuproc' \in [Cpus -> Slots \cup {Nil}]
      /\ cpuproc'[c] = Nil /\ spc'[c] = IF pos[c] > 1 THEN "scan" ELSE "idle"
      /\ \A d \in Cpus : d # c => spc'[d] = spc[d] /\ cpuproc'[d] = cpuproc[d]
  BY Zenon, <1>1, <1>2
<1>4. /\ ptlock = c /\ irq[c] = "none" /\ c \in Builds[strategy].cpus
      /\ \A d \in Cpus : d # c => spc[d] \notin {"scan", "back"}
      /\ strategy = 1 => pos[c] > 1
  BY <1>1 DEF BInv, CpuInv
<1>5. OneTimer' = OneTimer /\ Tick0' = Tick0 /\ QMax' = QMax
  BY Zenon, <1>2, SameBuild
<1>6. TypeOK'
  BY ZenonT(60), <1>2, <1>3, <1>5, CpusAssumption DEF BInv, TypeOK
<1>7. CpuInv'
  BY <1>2, <1>3, <1>4, <1>5, CpusAssumption DEF BInv, CpuInv
<1>8. NpInv'
  BY Zenon, <1>2 DEF BInv, NpInv
<1>9. ChargeInv'
  <2>1. \A q \in Slots : Pending(q)' = Pending(q)
    BY <1>2, <1>3, <1>4 DEF Pending
  <2> HIDE DEF Pending
  <2> QED BY Zenon, <2>1, <1>2, <1>5 DEF BInv, ChargeInv
<1>10. Effects
  BY Zenon, <1>2 DEF Effects
<1>11. Quiet
  <2>1. \A q \in Slots : ~Starts(q)
    BY Zenon, <1>2 DEF Starts
  <2>2. strategy = 1 => \A d \in Cpus : (spc'[d] = "idle") <=> (spc[d] = "idle")
    BY Zenon, <1>1, <1>3, <1>4
  <2>3. strategy = 1 => \A p, q \in Slots : Could(p, q)' = Could(p, q)
    BY Zenon, <2>2, <1>2, CouldSame
  <2> QED BY Zenon, <2>1, <2>3 DEF Quiet
<1> QED BY Zenon, <1>6, <1>7, <1>8, <1>9, <1>10, <1>11 DEF BInv

\* A pass that finds nobody ends: whoever waits is behind it.
LEMMA SchedReleaseInv ==
  ASSUME BInv, NEW c \in Cpus, SchedRelease(c) PROVE BInv' /\ Effects /\ Quiet
<1>1. /\ spc[c] = "scan" /\ Choice(c) = {} /\ strategy \in Strategies
      /\ spc \in [Cpus -> {"idle", "scan", "proc", "back"}] /\ pos \in [Cpus -> 1 .. NPROC + 1]
  BY Zenon DEF SchedRelease, BInv, TypeOK
<1>2. /\ spc' = [spc EXCEPT ![c] = "idle"] /\ ptlock' = NoCpu
      /\ UNCHANGED <<strategy, ticks, state, priority, ctime, rtime, queuelevel, myquantum,
                     onticks, np, cpuproc, irq, tmp, pos>>
  BY Zenon DEF SchedRelease, Set, stamps
<1>3. /\ spc' \in [Cpus -> {"idle", "scan", "proc", "back"}] /\ spc'[c] = "idle"
      /\ \A d \in Cpus : d # c => spc'[d] = spc[d]
  BY Zenon, <1>1, <1>2
<1>4. /\ ptlock = c /\ \A d \in Cpus : d # c => spc[d] \notin {"scan", "back"}
      /\ irq[c] = "none" /\ cpuproc[c] = Nil
  BY Zenon, <1>1 DEF BInv, CpuInv
<1>5. OneTimer' = OneTimer /\ Tick0' = Tick0 /\ QMax' = QMax
  BY Zenon, <1>2, SameBuild
<1>6. TypeOK'
  BY ZenonT(60), <1>2, <1>3, <1>5, CpusAssumption DEF BInv, TypeOK
<1>7. CpuInv'
  BY <1>2, <1>3, <1>4, <1>5, CpusAssumption DEF BInv, CpuInv
<1>8. NpInv'
  BY Zenon, <1>2 DEF BInv, NpInv
<1>9. ChargeInv'
  BY Zenon, <1>2, <1>5 DEF BInv, ChargeInv, Pending
<1>10. Effects
  BY Zenon, <1>2 DEF Effects
<1>11. Quiet
  <2>1. \A q \in Slots : ~Starts(q)
    BY Zenon, <1>2 DEF Starts
  <2>2. ASSUME strategy = 1, NEW p \in Slots, NEW q \in Slots, Waits(p), NEW d \in Could(p, q)'
        PROVE  d \in Could(p, q)
    <3>1. d \in Cpus
      BY Zenon, <2>2 DEF Could
    <3>2. CASE d # c
      BY Zenon, <3>1, <3>2, <2>2, <1>2, <1>3 DEF Could
    <3>3. CASE d = c
      <4>1. NextInPass(c, Runnable) = {}
        BY <2>2, <1>1 DEF Choice
      <4>2. p \in Runnable /\ Runnable \subseteq Slots
        BY Zenon, <2>2 DEF Waits, Runnable
      <4>3. pos[c] \in Nat /\ p \in Nat
        BY <1>1, NPROCAssumption, SlotFacts
      <4>4. ~(pos[c] <= p)
        BY Zenon, <4>1, <4>2, <4>3, NextExists
      <4>5. pos[c] > p
        BY <4>3, <4>4
      <4>6. ~(q > p)
        BY Zenon, <2>2, <3>3, <1>3 DEF Could
      <4> QED BY Zenon, <4>5, <4>6, <3>3 DEF Could
    <3> QED BY Zenon, <3>2, <3>3
  <2> QED BY Zenon, <2>1, <2>2 DEF Quiet
<1> QED BY Zenon, <1>6, <1>7, <1>8, <1>9, <1>10, <1>11 DEF BInv

-----------------------------------------------------------------------------
(* What processes do                                                       *)

\* A step that leaves the CPUs alone, and the processes they execute RUNNING.
LEMMA CpuFrame ==
  ASSUME BInv, UNCHANGED <<strategy, ptlock, cpuproc, spc, irq, pos>>,
         \A c \in Cpus : spc[c] = "proc" =>
           state'[cpuproc[c]] = "RUNNING" /\ myquantum'[cpuproc[c]] = myquantum[cpuproc[c]]
  PROVE  CpuInv' /\ \A p, q \in Slots : Could(p, q)' \subseteq Could(p, q)
<1>1. QMax' = QMax
  BY Zenon, SameBuild
<1>2. CpuInv'
  BY ZenonT(60), <1>1 DEF BInv, CpuInv
<1>3. \A p, q \in Slots : Could(p, q)' = Could(p, q)
  BY Zenon, CouldSame
<1> QED BY Zenon, <1>2, <1>3

\* A step that charges nobody and restarts no age.
LEMMA ChargeFrame ==
  ASSUME BInv, UNCHANGED <<strategy, ticks, ctime, rtime, cpuproc, irq>>,
         \A p \in Slots : state'[p] # "UNUSED" => state[p] # "UNUSED"
  PROVE  ChargeInv'
<1>1. OneTimer' = OneTimer /\ \A p \in Slots : Pending(p)' = Pending(p)
  BY Zenon, SameBuild DEF Pending
<1> HIDE DEF Pending
<1> QED BY Zenon, <1>1 DEF BInv, ChargeInv

\* allocproc: the new slot is nobody's.
LEMMA ForkAllocInv ==
  ASSUME BInv, NEW c \in Cpus, ForkAlloc(c) PROVE BInv' /\ Effects /\ Quiet
<1>1. /\ Exec(c) /\ np[cpuproc[c]] = Nil /\ ptlock = NoCpu /\ strategy \in Strategies
      /\ state \in [Slots -> {"UNUSED", "EMBRYO", "SLEEPING", "RUNNABLE", "RUNNING", "ZOMBIE"}]
      /\ ctime \in [Slots -> Tick0] /\ rtime \in [Slots -> Tick0] /\ priority \in [Slots -> Tick0]
      /\ queuelevel \in [Slots -> 1 .. 3] /\ myquantum \in [Slots -> 0 .. QMax]
      /\ np \in [Slots -> Slots \cup {Nil}] /\ ticks \in Tick0
  BY Zenon DEF ForkAlloc, Free, BInv, TypeOK, QMax
<1> DEFINE cur == cpuproc[c]
<1>2. cur \in Slots /\ state[cur] = "RUNNING"
  BY Zenon, <1>1, ExecFacts DEF Exec
<1>3. PICK q \in Slots :
        /\ state[q] = "UNUSED" /\ state' = [state EXCEPT ![q] = "EMBRYO"]
        /\ ctime' = [ctime EXCEPT ![q] = ticks] /\ rtime' = [rtime EXCEPT ![q] = 0]
        /\ myquantum' = [myquantum EXCEPT ![q] = 0] /\ queuelevel' = [queuelevel EXCEPT ![q] = 3]
        /\ priority' = [priority EXCEPT ![q] = ticks] /\ np' = [np EXCEPT ![cur] = q]
  BY Zenon DEF ForkAlloc, Set, First
<1>4. UNCHANGED <<strategy, ticks, onticks, ptlock, cpuproc, spc, irq, tmp, pos>>
  BY Zenon DEF ForkAlloc, cpuvars
<1> HIDE DEF cur
<1>5. /\ state' \in [Slots -> {"UNUSED", "EMBRYO", "SLEEPING", "RUNNABLE", "RUNNING", "ZOMBIE"}]
      /\ state'[q] = "EMBRYO" /\ \A p \in Slots : p # q => state'[p] = state[p]
      /\ myquantum' \in [Slots -> 0 .. QMax] /\ queuelevel' \in [Slots -> 1 .. 3]
      /\ \A p \in Slots : p # q => myquantum'[p] = myquantum[p]
  BY <1>1, <1>3, BuildFacts
<1>6. /\ ctime' \in [Slots -> Tick0] /\ rtime' \in [Slots -> Tick0] /\ priority' \in [Slots -> Tick0]
      /\ ctime'[q] = ticks /\ rtime'[q] = 0
      /\ \A p \in Slots : p # q => ctime'[p] = ctime[p] /\ rtime'[p] = rtime[p] /\ priority'[p] = priority[p]
  BY Zenon, <1>1, <1>3, BuildFacts
<1>7. np' \in [Slots -> Slots \cup {Nil}] /\ np'[cur] = q /\ \A p \in Slots : p # cur => np'[p] = np[p]
  BY Zenon, <1>1, <1>2, <1>3
<1>8. OneTimer' = OneTimer /\ Tick0' = Tick0 /\ QMax' = QMax
  BY Zenon, <1>4, SameBuild
<1>9. TypeOK'
  BY Zenon, <1>4, <1>5, <1>6, <1>7, <1>8 DEF BInv, TypeOK, QMax
<1>10. \A d \in Cpus : spc[d] = "proc" =>
         /\ state'[cpuproc[d]] = "RUNNING" /\ myquantum'[cpuproc[d]] = myquantum[cpuproc[d]]
         /\ cpuproc[d] # q
  BY Zenon, <1>3, <1>5, ExecFacts
<1>11. CpuInv' /\ \A p, r \in Slots : Could(p, r)' \subseteq Could(p, r)
  BY Zenon, <1>4, <1>10, CpuFrame
<1>12. NpInv'
  <2>1. \A p \in Slots : np[p] # Nil => np[p] \in Slots /\ np[p] # q /\ p # q
    BY ZenonT(60), <1>1, <1>3 DEF BInv, NpInv
  <2>2. cur # q
    BY Zenon, <1>2, <1>3
  <2> QED BY SMTT(30), <2>1, <2>2, <1>1, <1>2, <1>5, <1>7 DEF BInv, NpInv, cur
<1>13. ChargeInv'
  <2>1. \A p \in Slots : Pending(p)' = Pending(p) /\ Pending(p) \in {0, 1}
    BY Zenon, <1>4 DEF Pending
  <2>2. Pending(q) = 0
    <3> SUFFICES ASSUME cpuproc[Cpu0] = q, irq[Cpu0] \in {"wakeup", "account"} PROVE FALSE
      BY Zenon DEF Pending
    <3>1. Cpu0 \in Cpus /\ spc[Cpu0] = "proc"
      BY ZenonT(60), CpusAssumption, SlotFacts DEF BInv, CpuInv, TypeOK
    <3> QED BY Zenon, <3>1, <1>10
  <2>3. ticks \in Nat
    BY Zenon, <1>1, BuildFacts
  <2> HIDE DEF Pending
  <2> QED BY <2>1, <2>2, <2>3, <1>4, <1>5, <1>6, <1>8 DEF BInv, ChargeInv
<1>14. Effects
  BY ZenonT(60), <1>4, <1>5, <1>6, <1>3 DEF Effects
<1>15. Quiet
  BY Zenon, <1>5, <1>11 DEF Quiet, Starts
<1> QED BY Zenon, <1>9, <1>11, <1>12, <1>13, <1>14, <1>15 DEF BInv

\* The rest of fork makes the child RUNNABLE.
LEMMA ForkRunnableInv ==
  ASSUME BInv, NEW c \in Cpus, ForkRunnable(c) PROVE BInv' /\ Effects /\ Quiet
<1>1. /\ Exec(c) /\ np[cpuproc[c]] # Nil /\ strategy \in Strategies
      /\ state \in [Slots -> {"UNUSED", "EMBRYO", "SLEEPING", "RUNNABLE", "RUNNING", "ZOMBIE"}]
      /\ np \in [Slots -> Slots \cup {Nil}] /\ ticks \in Tick0 /\ priority \in [Slots -> Tick0]
  BY Zenon DEF ForkRunnable, BInv, TypeOK
<1>2. cpuproc[c] \in Slots
  BY Zenon, <1>1, ExecFacts DEF Exec
<1>3. PICK cur \in Slots : cpuproc[c] = cur
  BY Zenon, <1>2
<1>4. PICK q \in Slots : np[cur] = q
  BY Zenon, <1>1, <1>3
<1>5. state[q] = "EMBRYO" /\ state[cur] = "RUNNING" /\ q # cur
  BY Zenon, <1>1, <1>3, <1>4, ExecFacts, SlotFacts DEF BInv, NpInv, Exec
<1>6. /\ state' = [state EXCEPT ![q] = "RUNNABLE"] /\ priority' = [priority EXCEPT ![q] = ticks]
      /\ np' = [np EXCEPT ![cur] = Nil]
      /\ UNCHANGED <<strategy, ticks, ctime, rtime, queuelevel, myquantum, onticks, ptlock,
                     cpuproc, spc, irq, tmp, pos>>
  BY Zenon, <1>3, <1>4 DEF ForkRunnable, Set, cpuvars
<1>7. /\ state' \in [Slots -> {"UNUSED", "EMBRYO", "SLEEPING", "RUNNABLE", "RUNNING", "ZOMBIE"}]
      /\ state'[q] = "RUNNABLE" /\ \A p \in Slots : p # q => state'[p] = state[p]
      /\ priority' \in [Slots -> Tick0] /\ priority'[q] = ticks
      /\ \A p \in Slots : p # q => priority'[p] = priority[p]
      /\ np' \in [Slots -> Slots \cup {Nil}] /\ np'[cur] = Nil
      /\ \A p \in Slots : p # cur => np'[p] = np[p]
  BY Zenon, <1>1, <1>6
<1>8. Tick0' = Tick0
  BY Zenon, <1>6, SameBuild
<1>9. TypeOK'
  BY Zenon, <1>6, <1>7, <1>8 DEF BInv, TypeOK
<1>10. CpuInv' /\ \A p, r \in Slots : Could(p, r)' \subseteq Could(p, r)
  <2>1. \A d \in Cpus : spc[d] = "proc" =>
          state'[cpuproc[d]] = "RUNNING" /\ myquantum'[cpuproc[d]] = myquantum[cpuproc[d]]
    BY Zenon, <1>5, <1>6, <1>7, ExecFacts
  <2> QED BY Zenon, <2>1, <1>6, CpuFrame
<1>11. NpInv'
  <2>1. \A p \in Slots : p # cur /\ np[p] # Nil => np[p] \in Slots /\ np[p] # q /\ p # q
    BY <1>1, <1>4, <1>5, SlotFacts DEF BInv, NpInv
  <2> QED BY <2>1, <1>7 DEF BInv, NpInv
<1>12. ChargeInv'
  BY Zenon, <1>5, <1>6, <1>7, ChargeFrame
<1>13. Effects
  BY Zenon, <1>5, <1>6, <1>7 DEF Effects
<1>14. Quiet
  BY Zenon, <1>7, <1>10 DEF Quiet, Starts
<1> QED BY Zenon, <1>9, <1>10, <1>11, <1>12, <1>13, <1>14 DEF BInv

\* A process that has left RUNNING with ptable.lock goes back to the scheduler.
LEMMA SchedFrame ==
  ASSUME BInv, NEW c \in Cpus, spc[c] = "proc", ptlock = NoCpu, Sched(c),
         irq'[c] = "none", \A d \in Cpus : d # c => irq'[d] = irq[d],
         UNCHANGED <<strategy, cpuproc, pos, myquantum>>,
         \A p \in Slots : p # cpuproc[c] /\ state[p] = "RUNNING" => state'[p] = "RUNNING"
  PROVE  /\ spc' \in [Cpus -> {"idle", "scan", "proc", "back"}] /\ ptlock' = c
         /\ CpuInv' /\ \A p, q \in Slots : Could(p, q)' \subseteq Could(p, q)
<1>1. spc \in [Cpus -> {"idle", "scan", "proc", "back"}] /\ cpuproc \in [Cpus -> Slots \cup {Nil}]
  BY Zenon DEF BInv, TypeOK
<1>2. /\ spc' = [spc EXCEPT ![c] = "back"] /\ ptlock' = c
  BY Zenon DEF Sched, Set
<1>3. /\ spc' \in [Cpus -> {"idle", "scan", "proc", "back"}] /\ spc'[c] = "back"
      /\ \A d \in Cpus : d # c => spc'[d] = spc[d]
  BY Zenon, <1>1, <1>2
<1>4. \A p, q \in Slots : Could(p, q)' = Could(p, q)
  <2>1. \A d \in Cpus : (spc'[d] = "idle") <=> (spc[d] = "idle")
    BY Zenon, <1>3
  <2> QED BY Zenon, <2>1, CouldSame
<1>5. QMax' = QMax
  BY Zenon, SameBuild
<1>6. \A d \in Cpus : d # c => spc[d] \notin {"scan", "back"}
  BY ZenonT(60), CpusAssumption DEF BInv, CpuInv
<1>7. \A d \in Cpus : d # c /\ spc[d] = "proc" => state'[cpuproc[d]] = "RUNNING"
  BY SMTT(30), ExecFacts DEF BInv, CpuInv
<1>8. CpuInv'
  BY SMTT(30), <1>2, <1>3, <1>5, <1>6, <1>7 DEF BInv, CpuInv
<1> QED BY Zenon, <1>2, <1>3, <1>4, <1>8

\* sleep, on ticks or on another channel.
LEMMA SleepInv ==
  ASSUME BInv, NEW c \in Cpus, NEW how, Sleep(c, how) PROVE BInv' /\ Effects /\ Quiet
<1>1. /\ spc[c] = "proc" /\ irq[c] = "none" /\ ptlock = NoCpu /\ np[cpuproc[c]] = Nil /\ Sched(c)
      /\ state \in [Slots -> {"UNUSED", "EMBRYO", "SLEEPING", "RUNNABLE", "RUNNING", "ZOMBIE"}]
      /\ onticks \in [Slots -> BOOLEAN]
  BY Zenon DEF Sleep, Exec, Free, BInv, TypeOK
<1>2. PICK cur \in Slots : cpuproc[c] = cur /\ state[cur] = "RUNNING"
  BY Zenon, <1>1, ExecFacts
<1>3. /\ state' = [state EXCEPT ![cur] = "SLEEPING"]
      /\ onticks' = [onticks EXCEPT ![cur] = (how = "sleep")]
      /\ UNCHANGED <<strategy, ticks, priority, ctime, rtime, queuelevel, myquantum, np, cpuproc,
                     irq, tmp, pos>>
  BY Zenon, <1>2 DEF Sleep, Set, stamps
<1>4. /\ state' \in [Slots -> {"UNUSED", "EMBRYO", "SLEEPING", "RUNNABLE", "RUNNING", "ZOMBIE"}]
      /\ state'[cur] = "SLEEPING" /\ \A p \in Slots : p # cur => state'[p] = state[p]
      /\ onticks' \in [Slots -> BOOLEAN]
  BY Zenon, <1>1, <1>2, <1>3
<1>5. /\ spc' \in [Cpus -> {"idle", "scan", "proc", "back"}] /\ ptlock' = c
      /\ CpuInv' /\ \A p, q \in Slots : Could(p, q)' \subseteq Could(p, q)
  BY Zenon, <1>1, <1>2, <1>3, <1>4, SchedFrame
<1>6. Tick0' = Tick0
  BY Zenon, <1>3, SameBuild
<1>7. TypeOK'
  BY ZenonT(60), <1>3, <1>4, <1>5, <1>6 DEF BInv, TypeOK
<1>8. NpInv'
  <2>1. np[cur] = Nil /\ \A p \in Slots : np[p] # Nil => np[p] # cur
    BY Zenon, <1>1, <1>2 DEF BInv, NpInv
  <2> QED BY <2>1, <1>3, <1>4 DEF BInv, NpInv, TypeOK
<1>9. ChargeInv'
  BY Zenon, <1>2, <1>3, <1>4, ChargeFrame
<1>10. Effects
  BY Zenon, <1>3, <1>4 DEF Effects
<1>11. Quiet
  BY Zenon, <1>2, <1>4, <1>5 DEF Quiet, Starts
<1> QED BY Zenon, <1>5, <1>7, <1>8, <1>9, <1>10, <1>11 DEF BInv

\* exit.
LEMMA ExitInv ==
  ASSUME BInv, NEW c \in Cpus, Exit(c) PROVE BInv' /\ Effects /\ Quiet
<1>1. /\ spc[c] = "proc" /\ irq[c] = "none" /\ ptlock = NoCpu /\ np[cpuproc[c]] = Nil /\ Sched(c)
      /\ state \in [Slots -> {"UNUSED", "EMBRYO", "SLEEPING", "RUNNABLE", "RUNNING", "ZOMBIE"}]
  BY Zenon DEF Exit, Exec, Free, BInv, TypeOK
<1>2. PICK cur \in Slots : cpuproc[c] = cur /\ state[cur] = "RUNNING"
  BY Zenon, <1>1, ExecFacts
<1>3. /\ state' = [state EXCEPT ![cur] = "ZOMBIE"]
      /\ UNCHANGED <<strategy, ticks, priority, ctime, rtime, queuelevel, myquantum, onticks, np,
                     cpuproc, irq, tmp, pos>>
  BY Zenon, <1>2 DEF Exit, Set, stamps
<1>4. /\ state' \in [Slots -> {"UNUSED", "EMBRYO", "SLEEPING", "RUNNABLE", "RUNNING", "ZOMBIE"}]
      /\ state'[cur] = "ZOMBIE" /\ \A p \in Slots : p # cur => state'[p] = state[p]
  BY Zenon, <1>1, <1>2, <1>3
<1>5. /\ spc' \in [Cpus -> {"idle", "scan", "proc", "back"}] /\ ptlock' = c
      /\ CpuInv' /\ \A p, q \in Slots : Could(p, q)' \subseteq Could(p, q)
  BY Zenon, <1>1, <1>2, <1>3, <1>4, SchedFrame
<1>6. Tick0' = Tick0
  BY Zenon, <1>3, SameBuild
<1>7. TypeOK'
  BY Zenon, <1>3, <1>4, <1>5, <1>6 DEF BInv, TypeOK
<1>8. NpInv'
  <2>1. np[cur] = Nil /\ \A p \in Slots : np[p] # Nil => np[p] # cur
    BY Zenon, <1>1, <1>2 DEF BInv, NpInv
  <2> QED BY <2>1, <1>3, <1>4 DEF BInv, NpInv, TypeOK
<1>9. ChargeInv'
  BY Zenon, <1>2, <1>3, <1>4, ChargeFrame
<1>10. Effects
  BY Zenon, <1>3, <1>4 DEF Effects
<1>11. Quiet
  BY Zenon, <1>2, <1>4, <1>5 DEF Quiet, Starts
<1> QED BY Zenon, <1>5, <1>7, <1>8, <1>9, <1>10, <1>11 DEF BInv

\* Whoever is made RUNNABLE goes to the back of the queue.
LEMMA ReadyIs ==
  ASSUME BInv, NEW S, Ready(S)
  PROVE  /\ state' \in [Slots -> {"UNUSED", "EMBRYO", "SLEEPING", "RUNNABLE", "RUNNING", "ZOMBIE"}]
         /\ strategy' = strategy => priority' \in [Slots -> Tick0']
         /\ \A p \in Slots : p \in S => state'[p] = "RUNNABLE" /\ priority'[p] = ticks
         /\ \A p \in Slots : p \notin S => state'[p] = state[p] /\ priority'[p] = priority[p]
<1>1. /\ state' = [p \in Slots |-> IF p \in S THEN "RUNNABLE" ELSE state[p]]
      /\ priority' = [p \in Slots |-> IF p \in S THEN ticks ELSE priority[p]]
      /\ state \in [Slots -> {"UNUSED", "EMBRYO", "SLEEPING", "RUNNABLE", "RUNNING", "ZOMBIE"}]
      /\ priority \in [Slots -> Tick0] /\ ticks \in Tick0
  BY Zenon DEF Ready, BInv, TypeOK
<1>2. state' \in [Slots -> {"UNUSED", "EMBRYO", "SLEEPING", "RUNNABLE", "RUNNING", "ZOMBIE"}]
  BY Zenon, <1>1
<1>3. priority' \in [Slots -> Tick0]
  BY Zenon, <1>1
<1>4. strategy' = strategy => priority' \in [Slots -> Tick0']
  BY Zenon, <1>3, SameBuild
<1> QED BY Zenon, <1>1, <1>2, <1>4

\* wakeup1 of another channel, or kill.
LEMMA WakeupInv ==
  ASSUME BInv, NEW r \in Slots, Wakeup(r) PROVE BInv' /\ Effects /\ Quiet
<1>1. state[r] = "SLEEPING" /\ Ready({r})
  BY Zenon DEF Wakeup
<1>2. UNCHANGED <<strategy, ticks, ctime, rtime, queuelevel, myquantum, onticks, np, ptlock,
                  cpuproc, spc, irq, tmp, pos>>
  BY Zenon DEF Wakeup, cpuvars
<1>3. /\ state' \in [Slots -> {"UNUSED", "EMBRYO", "SLEEPING", "RUNNABLE", "RUNNING", "ZOMBIE"}]
      /\ priority' \in [Slots -> Tick0'] /\ state'[r] = "RUNNABLE" /\ priority'[r] = ticks
      /\ \A p \in Slots : p # r => state'[p] = state[p] /\ priority'[p] = priority[p]
  BY <1>1, <1>2, ReadyIs
<1>4. Tick0' = Tick0
  BY Zenon, <1>2, SameBuild
<1>5. TypeOK'
  BY Zenon, <1>2, <1>3, <1>4 DEF BInv, TypeOK
<1>6. CpuInv' /\ \A p, q \in Slots : Could(p, q)' \subseteq Could(p, q)
  <2>1. \A d \in Cpus : spc[d] = "proc" =>
          state'[cpuproc[d]] = "RUNNING" /\ myquantum'[cpuproc[d]] = myquantum[cpuproc[d]]
    BY ZenonT(60), <1>1, <1>2, <1>3, ExecFacts
  <2> QED BY Zenon, <2>1, <1>2, CpuFrame
<1>7. NpInv'
  BY <1>1, <1>2, <1>3 DEF BInv, NpInv, TypeOK
<1>8. ChargeInv'
  BY Zenon, <1>1, <1>2, <1>3, ChargeFrame
<1>9. Effects
  BY Zenon, <1>1, <1>2, <1>3 DEF Effects
<1>10. Quiet
  BY ZenonT(60), <1>3, <1>6 DEF Quiet, Starts
<1> QED BY Zenon, <1>5, <1>6, <1>7, <1>8, <1>9, <1>10 DEF BInv

\* wait frees the slot of a zombie.
LEMMA ReapInv ==
  ASSUME BInv, NEW r \in Slots, Reap(r) PROVE BInv' /\ Effects /\ Quiet
<1>1. /\ state[r] = "ZOMBIE"
      /\ state \in [Slots -> {"UNUSED", "EMBRYO", "SLEEPING", "RUNNABLE", "RUNNING", "ZOMBIE"}]
  BY Zenon DEF Reap, BInv, TypeOK
<1>2. /\ state' = [state EXCEPT ![r] = "UNUSED"]
      /\ UNCHANGED <<strategy, ticks, priority, ctime, rtime, queuelevel, myquantum, onticks, np,
                     ptlock, cpuproc, spc, irq, tmp, pos>>
  BY Zenon DEF Reap, Set, stamps, cpuvars
<1>3. /\ state' \in [Slots -> {"UNUSED", "EMBRYO", "SLEEPING", "RUNNABLE", "RUNNING", "ZOMBIE"}]
      /\ state'[r] = "UNUSED" /\ \A p \in Slots : p # r => state'[p] = state[p]
  BY Zenon, <1>1, <1>2
<1>4. Tick0' = Tick0
  BY Zenon, <1>2, SameBuild
<1>5. TypeOK'
  BY Zenon, <1>2, <1>3, <1>4 DEF BInv, TypeOK
<1>6. CpuInv' /\ \A p, q \in Slots : Could(p, q)' \subseteq Could(p, q)
  <2>1. \A d \in Cpus : spc[d] = "proc" =>
          state'[cpuproc[d]] = "RUNNING" /\ myquantum'[cpuproc[d]] = myquantum[cpuproc[d]]
    BY ZenonT(60), <1>1, <1>2, <1>3, ExecFacts
  <2> QED BY Zenon, <2>1, <1>2, CpuFrame
<1>7. NpInv'
  BY <1>1, <1>2, <1>3 DEF BInv, NpInv, TypeOK
<1>8. ChargeInv'
  BY Zenon, <1>1, <1>2, <1>3, ChargeFrame
<1>9. Effects
  BY Zenon, <1>2, <1>3 DEF Effects
<1>10. Quiet
  BY Zenon, <1>3, <1>6 DEF Quiet, Starts
<1> QED BY Zenon, <1>5, <1>6, <1>7, <1>8, <1>9, <1>10 DEF BInv

\* sys_nice, by the process itself.
LEMMA NiceInv ==
  ASSUME BInv, NEW c \in Cpus, Nice(c) PROVE BInv' /\ Effects /\ Quiet
<1>1. PICK cur \in Slots : cpuproc[c] = cur
  BY Zenon, ExecFacts DEF Nice, Exec
<1>2. queuelevel \in [Slots -> 1 .. 3] /\ queuelevel[cur] > 1
  BY Zenon, <1>1 DEF Nice, BInv, TypeOK
<1>3. /\ queuelevel' = [queuelevel EXCEPT ![cur] = queuelevel[cur] - 1]
      /\ UNCHANGED <<strategy, ticks, state, priority, ctime, rtime, myquantum, onticks, np, ptlock,
                     cpuproc, spc, irq, tmp, pos>>
  BY Zenon, <1>1 DEF Nice, cpuvars
<1>4. queuelevel' \in [Slots -> 1 .. 3]
  <2>1. queuelevel[cur] - 1 \in 1 .. 3
    BY <1>2
  <2> QED BY Zenon, <2>1, <1>2, <1>3
<1>5. Tick0' = Tick0
  BY Zenon, <1>3, SameBuild
<1>6. TypeOK'
  BY Zenon, <1>3, <1>4, <1>5 DEF BInv, TypeOK
<1>7. CpuInv' /\ \A p, q \in Slots : Could(p, q)' \subseteq Could(p, q)
  BY Zenon, <1>3, ExecFacts, CpuFrame
<1>8. NpInv' /\ ChargeInv'
  BY Zenon, <1>3, ChargeFrame DEF BInv, NpInv
<1>9. Effects /\ Quiet
  BY Zenon, <1>3, <1>7 DEF Effects, Quiet, Starts
<1> QED BY Zenon, <1>6, <1>7, <1>8, <1>9 DEF BInv

\* exec restarts the age of the process.
LEMMA ExecImageInv ==
  ASSUME BInv, NEW c \in Cpus, ExecImage(c) PROVE BInv' /\ Effects /\ Quiet
<1>1. PICK cur \in Slots : cpuproc[c] = cur
  BY Zenon, ExecFacts DEF ExecImage, Exec
<1>2. ctime \in [Slots -> Tick0] /\ ticks \in Tick0 /\ ticks \in Nat /\ "exec" \in Builds[strategy].ops
  BY Zenon, BuildFacts DEF ExecImage, BInv, TypeOK
<1>3. /\ ctime' = [ctime EXCEPT ![cur] = ticks]
      /\ UNCHANGED <<strategy, ticks, state, priority, rtime, queuelevel, myquantum, onticks, np,
                     ptlock, cpuproc, spc, irq, tmp, pos>>
  BY Zenon, <1>1 DEF ExecImage, Set, cpuvars
<1>4. /\ ctime' \in [Slots -> Tick0] /\ ctime'[cur] = ticks
      /\ \A p \in Slots : p # cur => ctime'[p] = ctime[p]
  BY Zenon, <1>2, <1>3
<1>5. OneTimer' = OneTimer /\ Tick0' = Tick0
  BY Zenon, <1>3, SameBuild
<1>6. TypeOK'
  BY Zenon, <1>3, <1>4, <1>5 DEF BInv, TypeOK
<1>7. CpuInv' /\ \A p, q \in Slots : Could(p, q)' \subseteq Could(p, q)
  BY Zenon, <1>3, ExecFacts, CpuFrame
<1>8. NpInv'
  BY Zenon, <1>3 DEF BInv, NpInv
<1>9. ChargeInv'
  <2>1. \A p \in Slots : Pending(p)' = Pending(p)
    BY Zenon, <1>3 DEF Pending
  <2>2. ticks <= ticks
    BY <1>2
  <2> HIDE DEF Pending
  <2> QED BY Zenon, <2>1, <2>2, <1>2, <1>3, <1>4, <1>5 DEF BInv, ChargeInv
<1>10. Effects /\ Quiet
  BY Zenon, <1>3, <1>7 DEF Effects, Quiet, Starts
<1> QED BY Zenon, <1>6, <1>7, <1>8, <1>9, <1>10 DEF BInv

\* Anything else a process does, and a step of the rest of the world.
LEMMA StutterInv == ASSUME BInv, UNCHANGED vars PROVE BInv' /\ Effects /\ Quiet
<1>1. UNCHANGED <<strategy, ticks, state, priority, ctime, rtime, queuelevel, myquantum, onticks, np,
                  ptlock, cpuproc, spc, irq, tmp, pos>>
  BY Zenon DEF vars, stamps, cpuvars
<1>2. Tick0' = Tick0
  BY Zenon, <1>1, SameBuild
<1>3. TypeOK'
  BY Zenon, <1>1, <1>2 DEF BInv, TypeOK
<1>4. CpuInv' /\ \A p, q \in Slots : Could(p, q)' \subseteq Could(p, q)
  BY Zenon, <1>1, ExecFacts, CpuFrame
<1>5. NpInv' /\ ChargeInv'
  BY Zenon, <1>1, ChargeFrame DEF BInv, NpInv
<1>6. Effects /\ Quiet
  BY Zenon, <1>1, <1>4 DEF Effects, Quiet, Starts
<1> QED BY Zenon, <1>3, <1>4, <1>5, <1>6 DEF BInv

\* A CPU goes into, through or out of a timer interrupt; its pass stays where it is.
LEMMA IrqFrame ==
  ASSUME BInv, NEW c \in Cpus, NEW v \in {"none", "wakeup", "account", "yield"},
         irq' = [irq EXCEPT ![c] = v], spc[c] \in {"idle", "proc"},
         v = "wakeup" => c = Cpu0, v = "yield" => spc[c] = "proc",
         UNCHANGED <<strategy, ptlock, cpuproc, spc, pos>>,
         \A d \in Cpus : spc[d] = "proc" =>
           /\ state'[cpuproc[d]] = "RUNNING"
           /\ d # c => myquantum'[cpuproc[d]] = myquantum[cpuproc[d]]
           /\ d = c /\ v # "yield" => myquantum'[cpuproc[d]] < QMax
  PROVE  /\ irq' \in [Cpus -> {"none", "wakeup", "account", "yield"}]
         /\ irq'[c] = v /\ \A d \in Cpus : d # c => irq'[d] = irq[d]
         /\ CpuInv' /\ \A p, q \in Slots : Could(p, q)' \subseteq Could(p, q)
<1>1. irq \in [Cpus -> {"none", "wakeup", "account", "yield"}]
  BY Zenon DEF BInv, TypeOK
<1>2. /\ irq' \in [Cpus -> {"none", "wakeup", "account", "yield"}]
      /\ irq'[c] = v /\ \A d \in Cpus : d # c => irq'[d] = irq[d]
  BY Zenon, <1>1
<1>3. \A p, q \in Slots : Could(p, q)' = Could(p, q)
  BY Zenon, CouldSame
<1>4. QMax' = QMax
  BY Zenon, SameBuild
<1>5. ASSUME NEW d \in Cpus
      PROVE  /\ spc'[d] \in {"scan", "back"} <=> ptlock' = d
             /\ cpuproc'[d] # Nil <=> spc'[d] \in {"proc", "back"}
             /\ strategy' = 1 /\ spc'[d] \in {"proc", "back"} => pos'[d] > 1
             /\ spc'[d] # "idle" => d \in Builds[strategy'].cpus
  BY ZenonT(60) DEF BInv, CpuInv
<1>6. ASSUME NEW d \in Cpus
      PROVE  /\ spc'[d] \in {"scan", "back"} => irq'[d] = "none"
             /\ irq'[d] = "yield" => spc'[d] = "proc"
             /\ irq'[d] = "wakeup" => d = Cpu0
  BY <1>2 DEF BInv, CpuInv
<1>7. ASSUME NEW d \in Cpus, spc'[d] = "proc"
      PROVE  state'[cpuproc'[d]] = "RUNNING" /\ (irq'[d] # "yield" => myquantum'[cpuproc'[d]] < QMax')
  <2>1. CASE d = c
    BY Zenon, <2>1, <1>2, <1>4, <1>7
  <2>2. CASE d # c
    BY ZenonT(60), <2>2, <1>2, <1>4, <1>7 DEF BInv, CpuInv
  <2> QED BY Zenon, <2>1, <2>2
<1>8. \A d, e \in Cpus : spc'[d] = "proc" /\ spc'[e] = "proc" /\ cpuproc'[d] = cpuproc'[e] => d = e
  BY DEF BInv, CpuInv
<1>9. CpuInv'
  BY ZenonT(60), <1>5, <1>6, <1>7, <1>8 DEF CpuInv
<1> QED BY Zenon, <1>2, <1>3, <1>9

\* The processes being executed, when nobody's state or quantum changes.
LEMMA ProcFacts ==
  ASSUME BInv, NEW d \in Cpus, spc[d] = "proc", irq[d] # "yield"
  PROVE  myquantum[cpuproc[d]] < QMax
  BY Zenon DEF BInv, CpuInv

\* The timer of CPU 0: a tick.
LEMMA TickInv ==
  ASSUME BInv, NEW c \in Cpus, Tick(c) PROVE BInv' /\ Effects /\ Quiet
<1>1. /\ spc[c] \in {"idle", "proc"} /\ irq[c] = "none" /\ c = Cpu0 /\ ticks < Builds[strategy].ticks
      /\ ticks \in Tick0 /\ strategy \in Strategies
  BY Zenon DEF Tick, IntrOn, BInv, TypeOK
<1>2. /\ ticks' = (ticks + 1) % TickMod /\ irq' = [irq EXCEPT ![c] = "wakeup"]
      /\ UNCHANGED <<strategy, state, priority, ctime, rtime, queuelevel, myquantum, onticks, np,
                     ptlock, cpuproc, spc, tmp, pos>>
  BY Zenon DEF Tick, Set, stamps
<1>3. TickMod \in Nat \ {0} /\ ticks \in Nat /\ Builds[strategy].ticks \in Nat
  BY Zenon, <1>1, BuildFacts
<1>4. ticks' \in Tick0
  BY <1>2, <1>3, ModRange DEF Tick0
<1>5. /\ irq' \in [Cpus -> {"none", "wakeup", "account", "yield"}]
      /\ irq'[c] = "wakeup" /\ \A d \in Cpus : d # c => irq'[d] = irq[d]
      /\ CpuInv' /\ \A p, q \in Slots : Could(p, q)' \subseteq Could(p, q)
  <2>1. \A d \in Cpus : spc[d] = "proc" =>
           /\ state'[cpuproc[d]] = "RUNNING"
           /\ d # c => myquantum'[cpuproc[d]] = myquantum[cpuproc[d]]
           /\ d = c => myquantum'[cpuproc[d]] < QMax
    BY Zenon, <1>1, <1>2, ExecFacts, ProcFacts
  <2>2. PICK v \in {"none", "wakeup", "account", "yield"} : v = "wakeup"
    OBVIOUS
  <2>3. irq' = [irq EXCEPT ![c] = v] /\ UNCHANGED <<strategy, ptlock, cpuproc, spc, pos>>
    BY Zenon, <2>2, <1>2
  <2>6. (v = "wakeup" => c = Cpu0) /\ (v = "yield" => spc[c] = "proc")
    BY Zenon, <2>2, <1>1
  <2>7. spc[c] \in {"idle", "proc"}
    BY Zenon, <1>1
  <2>5. \A d \in Cpus : spc[d] = "proc" =>
           /\ state'[cpuproc[d]] = "RUNNING"
           /\ d # c => myquantum'[cpuproc[d]] = myquantum[cpuproc[d]]
           /\ d = c /\ v # "yield" => myquantum'[cpuproc[d]] < QMax
    BY Zenon, <2>1
  <2>4. /\ irq' \in [Cpus -> {"none", "wakeup", "account", "yield"}]
        /\ irq'[c] = v /\ \A d \in Cpus : d # c => irq'[d] = irq[d]
        /\ CpuInv' /\ \A p, q \in Slots : Could(p, q)' \subseteq Could(p, q)
    BY Zenon, <2>3, <2>5, <2>6, <2>7, IrqFrame
  <2> QED BY Zenon, <2>2, <2>4
<1>6. OneTimer' = OneTimer /\ Tick0' = Tick0
  BY Zenon, <1>2, SameBuild
<1>7. TypeOK'
  BY Zenon, <1>2, <1>4, <1>5, <1>6 DEF BInv, TypeOK
<1>8. NpInv'
  BY Zenon, <1>2 DEF BInv, NpInv
<1>9. ChargeInv'
  <2>1. SUFFICES ASSUME OneTimer, NEW p \in Slots
                 PROVE  /\ ctime[p] <= ticks' /\ rtime[p] + Pending(p)' <= ticks'
                        /\ state[p] # "UNUSED" /\ "exec" \notin Builds[strategy].ops
                             => ctime[p] + rtime[p] + Pending(p)' <= ticks'
    BY Zenon, <1>2, <1>6 DEF ChargeInv
  <2>2. ticks' = ticks + 1
    <3>1. ticks + 1 \in 0 .. TickMod - 1
      BY <2>1, <1>1, <1>3 DEF OneTimer
    <3> QED BY Zenon, <3>1, <1>2, <1>3, ModSmall
  <2>3. Pending(p) = 0 /\ Pending(p)' \in {0, 1}
    BY Zenon, <1>1 DEF Pending
  <2>4. ctime[p] \in Nat /\ rtime[p] \in Nat
    BY Zenon, <1>1, BuildFacts DEF BInv, TypeOK
  <2>5. /\ ctime[p] <= ticks /\ rtime[p] + Pending(p) <= ticks
        /\ state[p] # "UNUSED" /\ "exec" \notin Builds[strategy].ops
             => ctime[p] + rtime[p] + Pending(p) <= ticks
    BY Zenon, <2>1 DEF BInv, ChargeInv
  <2> QED BY <2>2, <2>3, <2>4, <2>5, <1>3
<1>10. Effects /\ Quiet
  BY Zenon, <1>2, <1>5 DEF Effects, Quiet, Starts, BInv
<1> QED BY Zenon, <1>5, <1>7, <1>8, <1>9, <1>10 DEF BInv

\* wakeup(&ticks), from the tick.
LEMMA TickWakeupInv ==
  ASSUME BInv, NEW c \in Cpus, TickWakeup(c) PROVE BInv' /\ Effects /\ Quiet
<1> DEFINE S == {p \in Slots : state[p] = "SLEEPING" /\ onticks[p]}
<1>1. irq[c] = "wakeup" /\ c = Cpu0 /\ Ready(S)
  BY Zenon DEF TickWakeup, BInv, CpuInv
<1>2. spc[c] \in {"idle", "proc"}
  BY Zenon, <1>1 DEF BInv, CpuInv, TypeOK
<1>3. /\ irq' = [irq EXCEPT ![c] = "account"]
      /\ UNCHANGED <<strategy, ticks, ctime, rtime, queuelevel, myquantum, onticks, np, ptlock,
                     cpuproc, spc, tmp, pos>>
  BY Zenon DEF TickWakeup, Set
<1>4. /\ state' \in [Slots -> {"UNUSED", "EMBRYO", "SLEEPING", "RUNNABLE", "RUNNING", "ZOMBIE"}]
      /\ priority' \in [Slots -> Tick0']
      /\ \A p \in Slots : p \in S => state'[p] = "RUNNABLE" /\ priority'[p] = ticks
      /\ \A p \in Slots : p \notin S => state'[p] = state[p] /\ priority'[p] = priority[p]
  <2> HIDE DEF S
  <2> QED BY Zenon, <1>1, <1>3, ReadyIs
<1>5. \A p \in Slots : /\ state[p] # "SLEEPING" => state'[p] = state[p] /\ priority'[p] = priority[p]
                       /\ state[p] = "SLEEPING" => \/ state'[p] = "SLEEPING"
                                                   \/ state'[p] = "RUNNABLE" /\ priority'[p] = ticks
  BY ZenonT(60), <1>4
<1> HIDE DEF S
<1>6. /\ irq' \in [Cpus -> {"none", "wakeup", "account", "yield"}]
      /\ irq'[c] = "account" /\ \A d \in Cpus : d # c => irq'[d] = irq[d]
      /\ CpuInv' /\ \A p, q \in Slots : Could(p, q)' \subseteq Could(p, q)
  <2>1. \A d \in Cpus : spc[d] = "proc" =>
           /\ state'[cpuproc[d]] = "RUNNING"
           /\ d # c => myquantum'[cpuproc[d]] = myquantum[cpuproc[d]]
           /\ d = c => myquantum'[cpuproc[d]] < QMax
    BY Zenon, <1>1, <1>3, <1>5, ExecFacts, ProcFacts
  <2> QED BY ZenonT(60), <2>1, <1>2, <1>3, IrqFrame
<1>7. OneTimer' = OneTimer /\ Tick0' = Tick0
  BY Zenon, <1>3, SameBuild
<1>8. TypeOK'
  BY Zenon, <1>3, <1>4, <1>6, <1>7 DEF BInv, TypeOK
<1>9. NpInv'
  BY <1>3, <1>5 DEF BInv, NpInv, TypeOK
<1>10. ChargeInv'
  <2>1. \A p \in Slots : Pending(p)' = Pending(p)
    BY Zenon, <1>1, <1>3, <1>6 DEF Pending
  <2>2. \A p \in Slots : state'[p] # "UNUSED" => state[p] # "UNUSED"
    BY Zenon, <1>5
  <2> HIDE DEF Pending
  <2> QED BY Zenon, <2>1, <2>2, <1>3, <1>7 DEF BInv, ChargeInv
<1>11. Effects
  BY Zenon, <1>3, <1>5 DEF Effects, BInv, TypeOK
<1>12. Quiet
  BY Zenon, <1>5, <1>6 DEF Quiet, Starts
<1> QED BY ZenonT(60), <1>6, <1>8, <1>9, <1>10, <1>11, <1>12 DEF BInv

\* The timer of another CPU.
LEMMA TimerOtherInv ==
  ASSUME BInv, NEW c \in Cpus, TimerOther(c) PROVE BInv' /\ Effects /\ Quiet
<1>1. spc[c] \in {"idle", "proc"} /\ irq[c] = "none" /\ c # Cpu0
  BY Zenon DEF TimerOther, IntrOn
<1>2. /\ irq' = [irq EXCEPT ![c] = "account"]
      /\ UNCHANGED <<strategy, ticks, state, priority, ctime, rtime, queuelevel, myquantum, onticks,
                     np, ptlock, cpuproc, spc, tmp, pos>>
  BY Zenon DEF TimerOther, Set, stamps
<1>3. /\ irq' \in [Cpus -> {"none", "wakeup", "account", "yield"}]
      /\ irq'[c] = "account" /\ \A d \in Cpus : d # c => irq'[d] = irq[d]
      /\ CpuInv' /\ \A p, q \in Slots : Could(p, q)' \subseteq Could(p, q)
  <2>1. \A d \in Cpus : spc[d] = "proc" =>
           /\ state'[cpuproc[d]] = "RUNNING"
           /\ d # c => myquantum'[cpuproc[d]] = myquantum[cpuproc[d]]
           /\ d = c => myquantum'[cpuproc[d]] < QMax
    BY Zenon, <1>1, <1>2, ExecFacts, ProcFacts
  <2>2. PICK v \in {"none", "wakeup", "account", "yield"} : v = "account"
    OBVIOUS
  <2>3. irq' = [irq EXCEPT ![c] = v] /\ UNCHANGED <<strategy, ptlock, cpuproc, spc, pos>>
    BY Zenon, <2>2, <1>2
  <2>6. (v = "wakeup" => c = Cpu0) /\ (v = "yield" => spc[c] = "proc")
    BY Zenon, <2>2, <1>1
  <2>7. spc[c] \in {"idle", "proc"}
    BY ZenonT(60), <1>1
  <2>5. \A d \in Cpus : spc[d] = "proc" =>
           /\ state'[cpuproc[d]] = "RUNNING"
           /\ d # c => myquantum'[cpuproc[d]] = myquantum[cpuproc[d]]
           /\ d = c /\ v # "yield" => myquantum'[cpuproc[d]] < QMax
    BY Zenon, <2>1
  <2>4. /\ irq' \in [Cpus -> {"none", "wakeup", "account", "yield"}]
        /\ irq'[c] = v /\ \A d \in Cpus : d # c => irq'[d] = irq[d]
        /\ CpuInv' /\ \A p, q \in Slots : Could(p, q)' \subseteq Could(p, q)
    BY Zenon, <2>3, <2>5, <2>6, <2>7, IrqFrame
  <2> QED BY Zenon, <2>2, <2>4
<1>4. OneTimer' = OneTimer /\ Tick0' = Tick0
  BY Zenon, <1>2, SameBuild
<1>5. TypeOK'
  BY ZenonT(60), <1>2, <1>3, <1>4 DEF BInv, TypeOK
<1>6. NpInv'
  BY Zenon, <1>2 DEF BInv, NpInv
<1>7. ChargeInv'
  <2>1. \A p \in Slots : Pending(p)' = Pending(p)
    BY Zenon, <1>1, <1>2, <1>3, CpusAssumption DEF Pending
  <2> HIDE DEF Pending
  <2> QED BY Zenon, <2>1, <1>2, <1>4 DEF BInv, ChargeInv
<1>8. Effects /\ Quiet
  BY Zenon, <1>2, <1>3 DEF Effects, Quiet, Starts
<1> QED BY Zenon, <1>3, <1>5, <1>6, <1>7, <1>8 DEF BInv

\* The interrupt of a CPU that runs nobody ends.
LEMMA AccountIdleInv ==
  ASSUME BInv, NEW c \in Cpus, TimerAccount(c), cpuproc[c] = Nil PROVE BInv' /\ Effects /\ Quiet
<1>1. irq[c] = "account" /\ spc[c] = "idle"
  BY Zenon DEF TimerAccount, BInv, CpuInv, TypeOK
<1>2. /\ irq' = [irq EXCEPT ![c] = "none"]
      /\ UNCHANGED <<strategy, ticks, state, priority, ctime, rtime, queuelevel, myquantum, onticks,
                     np, ptlock, cpuproc, spc, tmp, pos>>
  BY Zenon DEF TimerAccount, Set
<1>3. /\ irq' \in [Cpus -> {"none", "wakeup", "account", "yield"}]
      /\ irq'[c] = "none" /\ \A d \in Cpus : d # c => irq'[d] = irq[d]
      /\ CpuInv' /\ \A p, q \in Slots : Could(p, q)' \subseteq Could(p, q)
  <2>1. \A d \in Cpus : spc[d] = "proc" =>
           /\ state'[cpuproc[d]] = "RUNNING"
           /\ myquantum'[cpuproc[d]] = myquantum[cpuproc[d]] /\ d # c
    BY ZenonT(60), <1>1, <1>2, ExecFacts
  <2> QED BY Zenon, <2>1, <1>1, <1>2, IrqFrame
<1>4. OneTimer' = OneTimer /\ Tick0' = Tick0
  BY Zenon, <1>2, SameBuild
<1>5. TypeOK'
  BY ZenonT(60), <1>2, <1>3, <1>4 DEF BInv, TypeOK
<1>6. NpInv'
  BY Zenon, <1>2 DEF BInv, NpInv
<1>7. ChargeInv'
  <2>1. \A p \in Slots : Pending(p)' = Pending(p)
    BY Zenon, <1>2, <1>3, CpusAssumption, SlotFacts DEF Pending
  <2> HIDE DEF Pending
  <2> QED BY Zenon, <2>1, <1>2, <1>4 DEF BInv, ChargeInv
<1>8. Effects /\ Quiet
  BY Zenon, <1>2, <1>3 DEF Effects, Quiet, Starts
<1> QED BY Zenon, <1>3, <1>5, <1>6, <1>7, <1>8 DEF BInv

\* trap charges the process, which keeps the CPU only below its quantum.
LEMMA AccountProcInv ==
  ASSUME BInv, NEW c \in Cpus, TimerAccount(c), cpuproc[c] # Nil PROVE BInv' /\ Effects /\ Quiet
<1>1. /\ irq[c] = "account" /\ spc[c] = "proc" /\ strategy \in Strategies
      /\ rtime \in [Slots -> Tick0] /\ myquantum \in [Slots -> 0 .. QMax]
  BY Zenon DEF TimerAccount, BInv, CpuInv, TypeOK, QMax
<1>2. PICK cur \in Slots : cpuproc[c] = cur /\ state[cur] = "RUNNING" /\ myquantum[cur] < QMax
  BY Zenon, <1>1, ExecFacts, ProcFacts
<1>3. PICK v \in {"none", "yield"} : v = IF MustYield(myquantum[cur] + 1) THEN "yield" ELSE "none"
  OBVIOUS
<1>4. /\ rtime' = [rtime EXCEPT ![cur] = (rtime[cur] + 1) % TickMod]
      /\ myquantum' = [myquantum EXCEPT ![cur] = myquantum[cur] + 1]
      /\ irq' = [irq EXCEPT ![c] = v]
      /\ UNCHANGED <<strategy, ticks, state, priority, ctime, queuelevel, onticks, np, ptlock,
                     cpuproc, spc, tmp, pos>>
  BY Zenon, <1>2, <1>3 DEF TimerAccount, Set, Charge
<1>5. /\ TickMod \in Nat \ {0} /\ QMax \in Nat \ {0} /\ Tick0 \subseteq Nat
      /\ myquantum[cur] \in Nat /\ rtime[cur] \in Nat
  BY <1>1, BuildFacts
<1>6. v # "yield" => myquantum[cur] + 1 < QMax
  BY <1>2, <1>3, <1>5 DEF MustYield, QMax
<1>7. /\ rtime' \in [Slots -> Tick0] /\ rtime'[cur] = (rtime[cur] + 1) % TickMod
      /\ \A p \in Slots : p # cur => rtime'[p] = rtime[p]
  <2>1. (rtime[cur] + 1) % TickMod \in Tick0
    <3>1. rtime[cur] + 1 \in Int
      BY <1>5
    <3>2. (rtime[cur] + 1) % TickMod \in 0 .. TickMod - 1
      BY Zenon, <3>1, <1>5, ModRange
    <3> QED BY Zenon, <3>2 DEF Tick0
  <2> QED BY Zenon, <2>1, <1>1, <1>4
<1>8. /\ myquantum' \in [Slots -> 0 .. QMax] /\ myquantum'[cur] = myquantum[cur] + 1
      /\ \A p \in Slots : p # cur => myquantum'[p] = myquantum[p]
  <2>1. myquantum[cur] + 1 \in 0 .. QMax
    BY <1>2, <1>5
  <2> QED BY Zenon, <2>1, <1>1, <1>4
<1>9. /\ irq' \in [Cpus -> {"none", "wakeup", "account", "yield"}]
      /\ irq'[c] = v /\ \A d \in Cpus : d # c => irq'[d] = irq[d]
      /\ CpuInv' /\ \A p, q \in Slots : Could(p, q)' \subseteq Could(p, q)
  <2>1. \A d \in Cpus : spc[d] = "proc" /\ d # c => cpuproc[d] # cur /\ cpuproc[d] \in Slots
    BY <1>1, <1>2, ExecFacts DEF BInv, CpuInv
  <2>2. \A d \in Cpus : spc[d] = "proc" =>
           /\ state'[cpuproc[d]] = "RUNNING"
           /\ d # c => myquantum'[cpuproc[d]] = myquantum[cpuproc[d]]
           /\ d = c /\ v # "yield" => myquantum'[cpuproc[d]] < QMax
    BY Zenon, <2>1, <1>2, <1>4, <1>6, <1>8, ExecFacts
  <2>3. /\ spc[c] \in {"idle", "proc"} /\ spc[c] = "proc" /\ v # "wakeup"
        /\ v \in {"none", "wakeup", "account", "yield"}
    BY Zenon, <1>1
  <2>4. irq' = [irq EXCEPT ![c] = v] /\ UNCHANGED <<strategy, ptlock, cpuproc, spc, pos>>
    BY Zenon, <1>4
  <2> QED BY ZenonT(60), <2>2, <2>3, <2>4, IrqFrame
<1>10. OneTimer' = OneTimer /\ Tick0' = Tick0 /\ QMax' = QMax
  BY Zenon, <1>4, SameBuild
<1>11. TypeOK'
  <2>1. myquantum' \in [Slots -> 0 .. IF strategy' = 1 THEN QUANTA ELSE 1]
    BY Zenon, <1>4, <1>8 DEF QMax
  <2> QED BY ZenonT(60), <2>1, <1>4, <1>7, <1>9, <1>10 DEF BInv, TypeOK
<1>12. NpInv'
  BY Zenon, <1>4 DEF BInv, NpInv
<1>13. ChargeInv'
  <2>1. SUFFICES ASSUME OneTimer, NEW p \in Slots
                 PROVE  /\ ctime[p] <= ticks /\ rtime'[p] + Pending(p)' <= ticks
                        /\ state[p] # "UNUSED" /\ "exec" \notin Builds[strategy].ops
                             => ctime[p] + rtime'[p] + Pending(p)' <= ticks
    BY Zenon, <1>4, <1>10 DEF ChargeInv
  <2>2. /\ ctime[p] <= ticks /\ rtime[p] + Pending(p) <= ticks
        /\ state[p] # "UNUSED" /\ "exec" \notin Builds[strategy].ops
             => ctime[p] + rtime[p] + Pending(p) <= ticks
    BY Zenon, <2>1 DEF BInv, ChargeInv
  <2>3. c = Cpu0
    BY ZenonT(60), <2>1, <1>1 DEF OneTimer, BInv, CpuInv
  <2>4. ctime[p] \in Nat /\ rtime[p] \in Nat /\ ticks \in Nat /\ ticks < TickMod
    BY SMTT(30), <1>1, BuildFacts DEF BInv, TypeOK, Tick0
  <2>5. CASE p = cur
    <3>1. Pending(p) = 1 /\ Pending(p)' = 0
      BY ZenonT(60), <2>3, <2>5, <1>1, <1>2, <1>3, <1>9 DEF Pending
    <3>2. rtime'[p] = rtime[p] + 1
      <4>1. rtime[p] + 1 \in 0 .. TickMod - 1
        BY <3>1, <2>2, <2>4, <1>5
      <4> QED BY ZenonT(60), <4>1, <2>5, <1>5, <1>7, ModSmall
    <3> QED BY SMTT(30), <3>1, <3>2, <2>2, <2>4
  <2>6. CASE p # cur
    <3>1. Pending(p) = 0 /\ Pending(p)' = 0 /\ rtime'[p] = rtime[p]
      BY Zenon, <2>3, <2>6, <1>2, <1>4, <1>7 DEF Pending
    <3> QED BY Zenon, <3>1, <2>2
  <2> QED BY Zenon, <2>5, <2>6
<1>14. Effects
  BY Zenon, <1>2, <1>4, <1>7 DEF Effects
<1>15. Quiet
  BY ZenonT(60), <1>4, <1>9 DEF Quiet, Starts
<1> QED BY ZenonT(60), <1>9, <1>11, <1>12, <1>13, <1>14, <1>15 DEF BInv

\* yield.
LEMMA YieldInv ==
  ASSUME BInv, NEW c \in Cpus, Yield(c) PROVE BInv' /\ Effects /\ Quiet
<1>1. irq[c] = "yield" /\ spc[c] = "proc" /\ ptlock = NoCpu /\ Sched(c) /\ Ready({cpuproc[c]})
  BY Zenon DEF Yield, Free, BInv, CpuInv
<1>2. PICK cur \in Slots : cpuproc[c] = cur /\ state[cur] = "RUNNING"
  BY Zenon, <1>1, ExecFacts
<1>3. /\ irq' = [irq EXCEPT ![c] = "none"] /\ irq \in [Cpus -> {"none", "wakeup", "account", "yield"}]
      /\ UNCHANGED <<strategy, ticks, ctime, rtime, queuelevel, myquantum, onticks, np, cpuproc,
                     tmp, pos>>
  BY Zenon DEF Yield, Set, BInv, TypeOK
<1>4. /\ state' \in [Slots -> {"UNUSED", "EMBRYO", "SLEEPING", "RUNNABLE", "RUNNING", "ZOMBIE"}]
      /\ priority' \in [Slots -> Tick0'] /\ state'[cur] = "RUNNABLE" /\ priority'[cur] = ticks
      /\ \A p \in Slots : p # cur => state'[p] = state[p] /\ priority'[p] = priority[p]
  BY <1>1, <1>2, <1>3, ReadyIs
<1>5. /\ irq' \in [Cpus -> {"none", "wakeup", "account", "yield"}] /\ irq'[c] = "none"
      /\ \A d \in Cpus : d # c => irq'[d] = irq[d]
  BY Zenon, <1>3
<1>6. /\ spc' \in [Cpus -> {"idle", "scan", "proc", "back"}] /\ ptlock' = c
      /\ CpuInv' /\ \A p, q \in Slots : Could(p, q)' \subseteq Could(p, q)
  BY ZenonT(60), <1>1, <1>2, <1>3, <1>4, <1>5, SchedFrame
<1>7. OneTimer' = OneTimer /\ Tick0' = Tick0
  BY Zenon, <1>3, SameBuild
<1>8. TypeOK'
  BY ZenonT(60), <1>3, <1>4, <1>5, <1>6, <1>7 DEF BInv, TypeOK
<1>9. NpInv'
  BY <1>2, <1>3, <1>4 DEF BInv, NpInv, TypeOK
<1>10. ChargeInv'
  <2>1. \A p \in Slots : Pending(p)' = Pending(p)
    BY Zenon, <1>1, <1>3, <1>5, CpusAssumption DEF Pending
  <2>2. \A p \in Slots : state'[p] # "UNUSED" => state[p] # "UNUSED"
    BY Zenon, <1>2, <1>4
  <2> HIDE DEF Pending
  <2> QED BY Zenon, <2>1, <2>2, <1>3, <1>7 DEF BInv, ChargeInv
<1>11. Effects
  BY Zenon, <1>2, <1>3, <1>4 DEF Effects
<1>12. Quiet
  BY Zenon, <1>2, <1>4, <1>6 DEF Quiet, Starts
<1> QED BY Zenon, <1>6, <1>8, <1>9, <1>10, <1>11, <1>12 DEF BInv

-----------------------------------------------------------------------------
(* The whole step, and the history                                         *)

\* While p waits for a round-robin pass no CPU comes to another process sooner than it
\* could before, and a CPU that runs q has done so for this time.
Moves ==
  strategy = 1 => \A p, q \in Slots : Waits(p) =>
    /\ Could(p, q)' \subseteq Could(p, q)
    /\ Starts(q) => Could(p, q)' # Could(p, q)

\* The pass of CPU c comes to r, the next of the table: whoever else waits is behind r or
\* was passed before.
LEMMA DispatchMoves ==
  ASSUME BInv, NEW c \in Cpus, NEW r \in Slots, Dispatch(c, r) PROVE Moves
<1>1. SUFFICES ASSUME strategy = 1, NEW p \in Slots, NEW q \in Slots, Waits(p)
               PROVE  Could(p, q)' \subseteq Could(p, q) /\ (Starts(q) => Could(p, q)' # Could(p, q))
  BY Zenon DEF Moves
<1>2. /\ spc[c] = "scan" /\ r \in Choice(c) /\ strategy \in 1 .. 4 /\ state[p] = "RUNNABLE"
      /\ spc \in [Cpus -> {"idle", "scan", "proc", "back"}] /\ pos \in [Cpus -> 1 .. NPROC + 1]
  BY Zenon, <1>1, BuildFacts DEF Dispatch, BInv, TypeOK, Waits
<1>3. spc' = [spc EXCEPT ![c] = "proc"] /\ pos' = [pos EXCEPT ![c] = r + 1]
  BY Zenon, <1>1 DEF Dispatch, Set, InPass
<1>4. /\ spc'[c] = "proc" /\ pos'[c] = r + 1
      /\ \A d \in Cpus : d # c => spc'[d] = spc[d] /\ pos'[d] = pos[d]
  BY Zenon, <1>2, <1>3
<1>5. /\ p \in Nat /\ q \in Nat /\ r \in Nat /\ pos[c] \in Nat
      /\ \A s \in Slots : Starts(s) <=> s = r
  BY <1>2, SlotFacts, DispatchInv, NPROCAssumption
<1>6. p # r
  BY Zenon, <1>1, <1>5 DEF Waits, Starts
<1>7. r >= pos[c] /\ (p >= pos[c] => r <= p)
  BY Zenon, <1>1, <1>2, ChoiceIs DEF NextInPass, Runnable
<1>8. Could(p, q)' \subseteq Could(p, q)
  <2>1. SUFFICES ASSUME NEW d \in Cpus, d \in Could(p, q)' PROVE d \in Could(p, q)
    BY Zenon DEF Could
  <2>2. CASE d # c
    BY Zenon, <2>1, <2>2, <1>4 DEF Could
  <2>3. CASE d = c
    <3>1. IF q > p THEN p < r + 1 /\ r + 1 <= q ELSE r + 1 <= q \/ r + 1 > p
      BY Zenon, <2>1, <2>3, <1>4 DEF Could
    <3>2. IF q > p THEN p < pos[c] /\ pos[c] <= q ELSE pos[c] <= q \/ pos[c] > p
      BY SMTT(30), <3>1, <1>5, <1>6, <1>7
    <3> QED BY Zenon, <3>2, <2>3, <1>2 DEF Could
  <2> QED BY Zenon, <2>2, <2>3
<1>9. ASSUME Starts(q) PROVE Could(p, q)' # Could(p, q)
  <2>1. q = r
    BY Zenon, <1>5, <1>9
  <2>2. c \in Could(p, q)
    <3>1. IF r > p THEN p < pos[c] /\ pos[c] <= r ELSE pos[c] <= r \/ pos[c] > p
      BY <1>5, <1>6, <1>7
    <3> QED BY Zenon, <3>1, <2>1, <1>2 DEF Could
  <2>3. c \notin Could(p, q)'
    <3>1. ~(IF r > p THEN p < r + 1 /\ r + 1 <= r ELSE r + 1 <= r \/ r + 1 > p)
      BY <1>5, <1>6
    <3> QED BY Zenon, <3>1, <2>1, <1>4 DEF Could
  <2> QED BY Zenon, <2>2, <2>3
<1> QED BY Zenon, <1>8, <1>9

\* So does every step that is no dispatch.
LEMMA QuietMoves == ASSUME Quiet PROVE Moves
  BY Zenon DEF Quiet, Moves

\* Every step, by the action it is.
LEMMA NextInv == ASSUME BInv, [Next]_vars PROVE BInv' /\ Effects /\ Moves
<1>1. ASSUME NEW c \in Cpus, Loop(c) PROVE BInv' /\ Effects /\ Moves
  <2>1. CASE SchedAcquire(c)
    BY Zenon, <2>1, SchedAcquireInv, QuietMoves
  <2>2. CASE SchedBack(c)
    BY Zenon, <2>2, SchedBackInv, QuietMoves
  <2>3. CASE SchedRelease(c)
    BY Zenon, <2>3, SchedReleaseInv, QuietMoves
  <2>4. CASE \E p \in Slots : Dispatch(c, p)
    BY Zenon, <2>4, DispatchInv, DispatchMoves
  <2> QED BY Zenon, <2>1, <2>2, <2>3, <2>4, <1>1 DEF Loop
<1>2. ASSUME NEW c \in Cpus, Handler(c) \/ Timer(c) PROVE BInv' /\ Effects /\ Moves
  <2>1. CASE TickWakeup(c)
    BY Zenon, <2>1, TickWakeupInv, QuietMoves
  <2>2. CASE TimerAccount(c)
    BY ZenonT(60), <2>2, AccountIdleInv, AccountProcInv, QuietMoves
  <2>3. CASE Yield(c)
    BY Zenon, <2>3, YieldInv, QuietMoves
  <2>4. CASE Tick(c)
    BY Zenon, <2>4, TickInv, QuietMoves
  <2>5. CASE TimerOther(c)
    BY Zenon, <2>5, TimerOtherInv, QuietMoves
  <2> QED BY ZenonT(60), <2>1, <2>2, <2>3, <2>4, <2>5, <1>2 DEF Handler, Timer
<1>3. ASSUME NEW c \in Cpus, User(c) PROVE BInv' /\ Effects /\ Moves
  <2>1. CASE ForkAlloc(c)
    BY Zenon, <2>1, ForkAllocInv, QuietMoves
  <2>2. CASE ForkRunnable(c)
    BY Zenon, <2>2, ForkRunnableInv, QuietMoves
  <2>3. CASE Sleep(c, "sleep") \/ Sleep(c, "block")
    BY ZenonT(60), <2>3, SleepInv, QuietMoves
  <2>4. CASE Exit(c)
    BY Zenon, <2>4, ExitInv, QuietMoves
  <2>5. CASE Nice(c)
    BY Zenon, <2>5, NiceInv, QuietMoves
  <2>6. CASE ExecImage(c)
    BY Zenon, <2>6, ExecImageInv, QuietMoves
  <2>7. CASE Compute(c)
    BY Zenon, <2>7, StutterInv, QuietMoves DEF Compute
  <2> QED BY ZenonT(60), <2>1, <2>2, <2>3, <2>4, <2>5, <2>6, <2>7, <1>3 DEF User
<1>4. ASSUME NEW p \in Slots, Wakeup(p) \/ Reap(p) PROVE BInv' /\ Effects /\ Moves
  BY Zenon, <1>4, WakeupInv, ReapInv, QuietMoves
<1>5. CASE UNCHANGED vars
  BY Zenon, <1>5, StutterInv, QuietMoves
<1> QED BY Zenon, <1>1, <1>2, <1>3, <1>4, <1>5 DEF Next

\* Whoever is dispatched is dispatched by the loop of a CPU.
LEMMA StartsIsDispatch ==
  ASSUME BInv, Next, NEW p \in Slots, Starts(p)
  PROVE  \E c \in Cpus : Dispatch(c, p)
<1>1. ~Quiet
  BY Zenon DEF Quiet
<1>2. ASSUME NEW c \in Cpus, Loop(c) PROVE \E d \in Cpus : Dispatch(d, p)
  <2>1. PICK r \in Slots : Dispatch(c, r)
    BY Zenon, <1>1, <1>2, SchedAcquireInv, SchedBackInv, SchedReleaseInv DEF Loop
  <2>2. r = p
    BY Zenon, <2>1, DispatchInv
  <2> QED BY Zenon, <2>1, <2>2
<1>3. ASSUME NEW c \in Cpus, Handler(c) \/ Timer(c) PROVE FALSE
  BY ZenonT(60), <1>1, <1>3, TickWakeupInv, AccountIdleInv, AccountProcInv, YieldInv, TickInv, TimerOtherInv
     DEF Handler, Timer
<1>4. ASSUME NEW c \in Cpus, User(c) PROVE FALSE
  BY ZenonT(60), <1>1, <1>4, ForkAllocInv, ForkRunnableInv, SleepInv, ExitInv, NiceInv, ExecImageInv, StutterInv
     DEF User, Compute
<1>5. ASSUME NEW q \in Slots, Wakeup(q) \/ Reap(q) PROVE FALSE
  BY Zenon, <1>1, <1>5, WakeupInv, ReapInv
<1> QED BY Zenon, <1>2, <1>3, <1>4, <1>5 DEF Next

\* userinit.
LEMMA InitInv == ASSUME HInit PROVE IInv
<1>1. /\ strategy \in Strategies /\ ticks = 0 /\ ptlock = NoCpu
      /\ state = [p \in Slots |-> IF p = 1 THEN "RUNNABLE" ELSE "UNUSED"]
      /\ priority = [p \in Slots |-> 0] /\ ctime = [p \in Slots |-> 0]
      /\ rtime = [p \in Slots |-> 0] /\ myquantum = [p \in Slots |-> 0]
      /\ queuelevel = [p \in Slots |-> 3] /\ onticks = [p \in Slots |-> FALSE]
      /\ np = [p \in Slots |-> Nil]
      /\ cpuproc = [c \in Cpus |-> Nil]
      /\ spc = [c \in Cpus |-> "idle"] /\ irq = [c \in Cpus |-> "none"]
      /\ tmp = [c \in Cpus |-> 0] /\ pos = [c \in Cpus |-> 1]
      /\ ready = [p \in Slots |-> 0] /\ bypass = [p \in Slots |-> [q \in Slots |-> 0]]
  BY Zenon DEF HInit, Init
<1>2. 0 \in Tick0 /\ 0 \in 0 .. QMax /\ 1 \in 1 .. NPROC + 1 /\ 3 \in 1 .. 3
  BY SMTT(30), <1>1, BuildFacts, NPROCAssumption
<1>3. TypeOK
  <2>1. /\ state \in [Slots -> {"UNUSED", "EMBRYO", "SLEEPING", "RUNNABLE", "RUNNING", "ZOMBIE"}]
        /\ priority \in [Slots -> Tick0] /\ ctime \in [Slots -> Tick0] /\ rtime \in [Slots -> Tick0]
        /\ queuelevel \in [Slots -> 1 .. 3] /\ onticks \in [Slots -> BOOLEAN]
        /\ np \in [Slots -> Slots \cup {Nil}]
    BY Zenon, <1>1, <1>2
  <2>2. myquantum \in [Slots -> 0 .. IF strategy = 1 THEN QUANTA ELSE 1]
    BY Zenon, <1>1, <1>2 DEF QMax
  <2>3. /\ cpuproc \in [Cpus -> Slots \cup {Nil}] /\ spc \in [Cpus -> {"idle", "scan", "proc", "back"}]
        /\ irq \in [Cpus -> {"none", "wakeup", "account", "yield"}] /\ tmp \in [Cpus -> Tick0]
        /\ pos \in [Cpus -> 1 .. NPROC + 1]
    BY Zenon, <1>1, <1>2
  <2> QED BY ZenonT(60), <2>1, <2>2, <2>3, <1>1, <1>2 DEF TypeOK
<1>4. CpuInv
  BY Zenon, <1>1, CpusAssumption DEF CpuInv
<1>5. NpInv
  BY Zenon, <1>1 DEF NpInv
<1>6. ChargeInv
  <2>1. \A p \in Slots : Pending(p) = 0
    BY Zenon, <1>1, CpusAssumption DEF Pending
  <2> HIDE DEF Pending
  <2> QED BY <2>1, <1>1 DEF ChargeInv
<1>7. HTypeOK
  BY Zenon, <1>1, <1>2 DEF HTypeOK
<1>8. BypassInv
  <2>1. ASSUME NEW p \in Slots, NEW q \in Slots
        PROVE  bypass[p][q] = 0 /\ 0 + Cardinality(Could(p, q)) <= Cardinality(Cpus)
    <3>1. Could(p, q) \in SUBSET Cpus
      BY Zenon DEF Could
    <3> HIDE DEF Could
    <3>2. Cardinality(Could(p, q)) <= Cardinality(Cpus) /\ IsFiniteSet(Could(p, q))
      BY Zenon, <3>1, CpusAssumption, FS_Subset
    <3>3. Cardinality(Could(p, q)) \in Nat
      BY Zenon, <3>2, FS_CardinalityType
    <3> QED BY <3>2, <3>3, <1>1
  <2> QED BY Zenon, <2>1 DEF BypassInv
<1>9. ReadyInv
  BY <1>1 DEF ReadyInv
<1> QED BY ZenonT(60), <1>3, <1>4, <1>5, <1>6, <1>7, <1>8, <1>9 DEF IInv, BInv

\* The history of a step that is not a stutter.
LEMMA HistoryInv ==
  ASSUME IInv, HNext PROVE HTypeOK' /\ BypassInv' /\ ReadyInv'
<1>1. BInv' /\ Effects /\ Moves /\ strategy' = strategy
  BY Zenon, NextInv DEF IInv, HNext, Effects
<1>2. /\ ready' = [p \in Slots |->
           IF state[p] # "RUNNABLE" /\ state'[p] = "RUNNABLE" THEN ticks ELSE ready[p]]
      /\ bypass' = [p \in Slots |-> [q \in Slots |->
           IF ~Waits(p) THEN 0
           ELSE IF strategy = 1 /\ Starts(q) /\ bypass[p][q] < MaxBypass
                THEN bypass[p][q] + 1 ELSE bypass[p][q]]]
  BY Zenon DEF HNext
<1>3. /\ ready \in [Slots -> Tick0] /\ bypass \in [Slots -> [Slots -> Nat]] /\ ticks \in Tick0
      /\ strategy \in Strategies /\ rtime \in [Slots -> Tick0]
  BY Zenon DEF IInv, HTypeOK, BInv, TypeOK
<1>4. OneTimer' = OneTimer /\ Tick0' = Tick0
  BY ZenonT(60), <1>1, SameBuild
<1>5. ASSUME NEW p \in Slots, NEW q \in Slots
      PROVE  /\ bypass[p][q] \in Nat
             /\ bypass'[p][q] \in Nat
             /\ ~Waits(p) => bypass'[p][q] = 0
             /\ Waits(p) /\ ~Starts(q) => bypass'[p][q] = bypass[p][q]
             /\ bypass'[p][q] <= bypass[p][q] + 1
  <2>1. bypass[p][q] \in Nat
    BY Zenon, <1>3
  <2>2. bypass'[p][q] = IF ~Waits(p) THEN 0
           ELSE IF strategy = 1 /\ Starts(q) /\ bypass[p][q] < MaxBypass
                THEN bypass[p][q] + 1 ELSE bypass[p][q]
    BY Zenon, <1>2
  <2> QED BY <2>1, <2>2
<1>6. HTypeOK'
  <2>1. ready' \in [Slots -> Tick0]
    BY Zenon, <1>2, <1>3
  <2>2. bypass' = [p \in Slots |-> [q \in Slots |-> bypass'[p][q]]]
    BY Zenon, <1>2
  <2>3. bypass' \in [Slots -> [Slots -> Nat]]
    BY Zenon, <2>2, <1>5
  <2> QED BY Zenon, <2>1, <2>3, <1>4 DEF HTypeOK
<1>7. BypassInv'
  <2>1. SUFFICES ASSUME strategy = 1, NEW p \in Slots, NEW q \in Slots
                 PROVE  IF state'[p] = "RUNNABLE" /\ p # q
                        THEN bypass'[p][q] + Cardinality(Could(p, q)') <= Cardinality(Cpus)
                        ELSE bypass'[p][q] = 0
    BY Zenon, <1>1 DEF BypassInv
  <2>2. PICK C \in SUBSET Cpus : C = Could(p, q)
    BY Zenon DEF Could
  <2>3. PICK D \in SUBSET Cpus : D = Could(p, q)'
    BY Zenon DEF Could
  <2>4. /\ IsFiniteSet(C) /\ IsFiniteSet(D) /\ Cardinality(D) <= Cardinality(Cpus)
    BY Zenon, CpusAssumption, FS_Subset
  <2>5. /\ Cardinality(C) \in Nat /\ Cardinality(D) \in Nat /\ Cardinality(Cpus) \in Nat
    BY ZenonT(60), <2>4, CpusAssumption, FS_CardinalityType
  <2>6. CASE ~Waits(p)
    <3>1. bypass'[p][q] = 0
      BY Zenon, <2>6, <1>5
    <3> QED BY SMTT(30), <3>1, <2>3, <2>4, <2>5
  <2>7. CASE Waits(p) /\ p = q
    <3>1. ~Starts(q)
      BY Zenon, <2>7 DEF Waits, Starts
    <3>2. bypass'[p][q] = bypass[p][q]
      BY Zenon, <3>1, <2>7, <1>5
    <3>3. bypass[p][q] = 0
      BY Zenon, <2>1, <2>7 DEF IInv, BypassInv
    <3> QED BY Zenon, <3>2, <3>3, <2>7
  <2>8. CASE Waits(p) /\ p # q
    <3>1. bypass[p][q] + Cardinality(C) <= Cardinality(Cpus)
      BY Zenon, <2>1, <2>2, <2>8 DEF IInv, BypassInv, Waits
    <3>2. D \in SUBSET C /\ (Starts(q) => D # C)
      BY ZenonT(60), <2>1, <2>2, <2>3, <2>8, <1>1 DEF Moves
    <3>3. Cardinality(D) <= Cardinality(C) /\ (Cardinality(C) = Cardinality(D) => C = D)
      BY Zenon, <3>2, <2>4, FS_Subset
    <3>4. bypass'[p][q] + Cardinality(D) <= Cardinality(Cpus)
      <4>1. CASE Starts(q)
        BY SMTT(30), <4>1, <3>1, <3>2, <3>3, <2>5, <1>5
      <4>2. CASE ~Starts(q)
        <5>1. bypass'[p][q] = bypass[p][q]
          BY Zenon, <4>2, <2>8, <1>5
        <5> QED BY SMTT(30), <5>1, <3>1, <3>3, <2>5, <1>5
      <4> QED BY ZenonT(60), <4>1, <4>2
    <3> QED BY Zenon, <3>4, <2>3, <2>8 DEF Waits
  <2> QED BY ZenonT(60), <2>6, <2>7, <2>8
<1>8. ReadyInv'
  <2>1. SUFFICES ASSUME NEW p \in Slots, state'[p] = "RUNNABLE"
                 PROVE  ready'[p] = priority'[p] /\ (OneTimer => rtime'[p] <= ready'[p])
    BY Zenon, <1>4 DEF ReadyInv
  <2>2. /\ rtime'[p] = rtime[p]
        /\ priority'[p] = IF state[p] = "RUNNABLE" THEN priority[p] ELSE ticks
    BY Zenon, <2>1, <1>1 DEF Effects
  <2>3. ready'[p] = IF state[p] = "RUNNABLE" THEN ready[p] ELSE ticks
    BY Zenon, <2>1, <1>2
  <2>4. CASE state[p] = "RUNNABLE"
    BY Zenon, <2>2, <2>3, <2>4 DEF IInv, ReadyInv
  <2>5. CASE state[p] # "RUNNABLE"
    <3>1. OneTimer => rtime[p] + Pending(p) <= ticks
      BY Zenon DEF IInv, BInv, ChargeInv
    <3>2. rtime[p] \in Nat /\ ticks \in Nat /\ Pending(p) \in {0, 1}
      BY Zenon, <1>3, BuildFacts DEF Pending
    <3> HIDE DEF Pending
    <3>3. OneTimer => rtime[p] <= ticks
      BY <3>1, <3>2
    <3> QED BY Zenon, <3>3, <2>2, <2>3, <2>5
  <2> QED BY Zenon, <2>4, <2>5
<1> QED BY Zenon, <1>6, <1>7, <1>8

\* A step that changes nothing.
LEMMA HStutter == ASSUME IInv, UNCHANGED hvars PROVE IInv'
<1>1. /\ UNCHANGED vars
      /\ UNCHANGED <<strategy, state, priority, rtime, spc, pos, ready, bypass>>
  BY Zenon DEF hvars, vars, stamps, cpuvars
<1>2. BInv'
  BY Zenon, <1>1, StutterInv DEF IInv
<1>3. OneTimer' = OneTimer /\ Tick0' = Tick0 /\ \A p, q \in Slots : Could(p, q)' = Could(p, q)
  BY Zenon, <1>1, SameBuild, CouldSame
<1> HIDE DEF Could
<1>4. HTypeOK' /\ ReadyInv'
  BY Zenon, <1>1, <1>3 DEF IInv, HTypeOK, ReadyInv
<1>5. BypassInv'
  BY Zenon, <1>1, <1>3 DEF IInv, BypassInv
<1> QED BY Zenon, <1>2, <1>4, <1>5 DEF IInv

\* The inductive invariant holds of the scheduler with its history.
THEOREM Invariance == HSpec => []IInv
<1>1. HInit => IInv
  BY Zenon, InitInv
<1>2. IInv /\ [HNext]_hvars => IInv'
  <2>1. ASSUME IInv, HNext PROVE IInv'
    BY Zenon, <2>1, NextInv, HistoryInv DEF IInv, HNext
  <2>2. ASSUME IInv, UNCHANGED hvars PROVE IInv'
    BY Zenon, <2>2, HStutter
  <2> QED BY Zenon, <2>1, <2>2
<1> QED BY <1>1, <1>2, PTL DEF HSpec

\* On one CPU, without exec and before ticks wraps, trap never charges a process more
\* ticks than there have been since allocproc stamped it.
THEOREM ChargedOnce == HSpec => []ChargedWithinAge
<1>1. IInv => ChargedWithinAge
  <2>1. SUFFICES ASSUME IInv, OneTimer, "exec" \notin Builds[strategy].ops,
                        NEW p \in Slots, state[p] # "UNUSED"
                 PROVE  rtime[p] <= (ticks - ctime[p]) % TickMod
    BY Zenon DEF ChargedWithinAge, Sub
  <2>2. ctime[p] <= ticks /\ ctime[p] + rtime[p] + Pending(p) <= ticks
    BY ZenonT(60), <2>1 DEF IInv, BInv, ChargeInv
  <2>3. /\ ctime[p] \in Nat /\ rtime[p] \in Nat /\ ticks \in Nat /\ ticks < TickMod
        /\ TickMod \in Nat \ {0}
    BY <2>1, BuildFacts DEF IInv, BInv, TypeOK, Tick0
  <2>4. Pending(p) \in {0, 1}
    BY Zenon DEF Pending
  <2> HIDE DEF Pending
  <2>5. ticks - ctime[p] \in 0 .. TickMod - 1 /\ rtime[p] <= ticks - ctime[p]
    BY <2>2, <2>3, <2>4
  <2>6. (ticks - ctime[p]) % TickMod = ticks - ctime[p]
    BY Zenon, <2>3, <2>5, ModSmall
  <2> QED BY Zenon, <2>5, <2>6
<1> QED BY <1>1, Invariance, PTL

\* While a process waits under round robin, each other process is dispatched at most once
\* by each CPU, however many slots and CPUs there are.
THEOREM BypassBounded == HSpec => []BoundedBypass
<1>1. IInv => TypeOK /\ (strategy = 1 => \A p, q \in Slots : bypass[p][q] <= Cardinality(Cpus))
  <2>1. SUFFICES ASSUME IInv, strategy = 1, NEW p \in Slots, NEW q \in Slots
                 PROVE  bypass[p][q] <= Cardinality(Cpus)
    BY Zenon DEF IInv, BInv
  <2>2. PICK C \in SUBSET Cpus : C = Could(p, q)
    BY Zenon DEF Could
  <2>3. IsFiniteSet(C)
    BY Zenon, CpusAssumption, FS_Subset
  <2>4. Cardinality(C) \in Nat /\ Cardinality(Cpus) \in Nat
    BY Zenon, <2>3, CpusAssumption, FS_CardinalityType
  <2>5. bypass[p][q] \in Nat
    BY Zenon, <2>1 DEF IInv, HTypeOK
  <2>6. bypass[p][q] + Cardinality(C) <= Cardinality(Cpus) \/ bypass[p][q] = 0
    BY Zenon, <2>1, <2>2 DEF IInv, BypassInv
  <2> QED BY <2>4, <2>5, <2>6
<1>2. TypeOK /\ (strategy = 1 => \A p, q \in Slots : bypass[p][q] <= Cardinality(Cpus))
        /\ ChargedWithinAge => BoundedBypass
  BY Zenon DEF BoundedBypass
<1> QED BY <1>1, <1>2, Invariance, ChargedOnce, PTL

\* A FIFO queue, of strategy 2 or level 2 of strategy 4, is served in the order of the ticks
\* at which fork, yield, wakeup1 and kill made its processes RUNNABLE.
THEOREM FifoServed == HSpec => FifoByTick
<1>1. ASSUME IInv, HNext, NEW p \in Slots, NEW q \in Slots,
             strategy = 2 \/ (strategy = 4 /\ queuelevel[p] = 2),
             Starts(p), Waits(q), SameQueue(p, q)
      PROVE  ready[p] <= ready[q]
  <2>1. PICK c \in Cpus : Dispatch(c, p)
    BY Zenon, <1>1, StartsIsDispatch DEF IInv, HNext
  <2>2. p \in Choice(c) /\ strategy \in 1 .. 4
    BY Zenon, <1>1, <2>1, BuildFacts DEF Dispatch, IInv, BInv, TypeOK
  <2>3. state[p] = "RUNNABLE" /\ state[q] = "RUNNABLE"
    BY Zenon, <1>1 DEF Starts, Waits
  <2>4. ready[p] = priority[p] /\ ready[q] = priority[q]
    BY Zenon, <1>1, <2>3 DEF IInv, ReadyInv
  <2>5. priority[p] \in Nat /\ priority[q] \in Nat
    BY Zenon, <1>1, BuildFacts DEF IInv, BInv, TypeOK
  <2>6. CASE strategy = 2
    <3>1. p \in Least(Runnable, priority, tmp[c]) /\ q \in Runnable
      BY ZenonT(60), <2>2, <2>3, <2>6, ChoiceIs DEF Oldest, Runnable
    <3> QED BY <3>1, <2>4, <2>5 DEF Least
  <2>7. CASE strategy = 4 /\ queuelevel[p] = 2
    <3>1. p \in MultiLevel(c) /\ q \in Level(2)
      BY ZenonT(60), <1>1, <2>2, <2>3, <2>7, ChoiceIs DEF Level, Runnable, SameQueue
    <3>2. p \notin NextInPass(c, Level(1)) /\ p \notin LeastServed(c, Level(3))
      BY <2>7 DEF NextInPass, LeastServed, Least, Level
    <3>3. p \in Least(Level(2), priority, tmp[c])
      BY Zenon, <3>1, <3>2 DEF MultiLevel, Oldest
    <3> QED BY SMTT(30), <3>1, <3>3, <2>4, <2>5 DEF Least
  <2> QED BY Zenon, <1>1, <2>6, <2>7
<1>2. IInv /\ [HNext]_hvars =>
        [\A p, q \in Slots :
           /\ strategy = 2 \/ (strategy = 4 /\ queuelevel[p] = 2)
           /\ Starts(p) /\ Waits(q) /\ SameQueue(p, q)
           => ready[p] <= ready[q]]_hvars
  BY Zenon, <1>1
<1> QED BY <1>2, Invariance, PTL DEF HSpec, FifoByTick

\* A process that has waited on level 3 since before the scan's tick is among the
\* candidates of that scan on one CPU: its GRT is no more than what it was charged.
LEMMA LevelThreeSeen ==
  ASSUME IInv, OneTimer, NEW c \in Cpus, NEW q \in Level(3), ready[q] < tmp[c]
  PROVE  LeastServed(c, Level(3)) # {}
<1>1. q \in Slots /\ state[q] = "RUNNABLE" /\ Level(3) \subseteq Slots
  BY Zenon DEF Level, Runnable
<1>2. rtime[q] <= ready[q]
  BY ZenonT(60), <1>1 DEF IInv, ReadyInv
<1>3. /\ TickMod \in Nat \ {0} /\ tmp[c] \in Nat /\ ready[q] \in Nat
      /\ \A p \in Slots : rtime[p] \in Nat /\ ticks - ctime[p] \in Int
  BY <1>1, BuildFacts DEF IInv, BInv, TypeOK, HTypeOK
<1>4. ASSUME NEW p \in Slots PROVE GRT[p] \in Nat /\ GRT[p] <= rtime[p]
  <2> DEFINE age == Sub(ticks, ctime[p])
  <2>1. age \in 0 .. TickMod - 1
    BY Zenon, <1>3, ModRange DEF Sub
  <2>2. GRT[p] = IF age # 0 THEN rtime[p] \div age ELSE 0
    BY Zenon DEF GRT
  <2> HIDE DEF age
  <2>3. CASE age # 0
    BY SMTT(30), <2>1, <2>2, <2>3, <1>3, DivBelow
  <2>4. CASE age = 0
    BY SMTT(30), <2>2, <2>4, <1>3
  <2> QED BY Zenon, <2>3, <2>4
<1>5. GRT = [p \in Slots |-> GRT[p]]
  BY Zenon DEF GRT
<1>6. GRT \in [Slots -> Nat]
  <2> HIDE DEF GRT
  <2> QED BY ZenonT(60), <1>4, <1>5
<1>7. GRT[q] < tmp[c]
  BY <1>1, <1>2, <1>3, <1>4
<1> QED BY Zenon, <1>1, <1>3, <1>6, <1>7, LeastExists DEF LeastServed

\* The build of strategy 4 starts one CPU and is stopped before ticks wraps.
FourOnOneCpu == 4 \in Strategies => Builds[4].cpus \subseteq {Cpu0} /\ Builds[4].ticks < Builds[4].mod

\* On one CPU, scheduler() under strategy 4 dispatches nobody while somebody of a higher
\* level has waited since before the tick of its scan, except within a pass over level 1.
THEOREM LevelsServed == ASSUME FourOnOneCpu PROVE HSpec => LevelsInOrder
<1>1. ASSUME IInv, HNext, NEW p \in Slots, NEW q \in Slots, NEW c \in Cpus,
             strategy = 4, Starts(p), Waits(q), queuelevel[p] < queuelevel[q],
             cpuproc'[c] = p, ready[q] < tmp[c]
      PROVE  pos[c] > 1
  <2>1. PICK d \in Cpus : Dispatch(d, p)
    BY Zenon, <1>1, StartsIsDispatch DEF IInv, HNext
  <2>2. state[p] = "RUNNABLE" /\ state[q] = "RUNNABLE"
    BY ZenonT(60), <1>1 DEF Starts, Waits
  <2>3. d = c
    <3>1. SUFFICES ASSUME d # c PROVE FALSE
      OBVIOUS
    <3>2. spc[d] = "scan" /\ cpuproc[c] = p
      BY ZenonT(60), <1>1, <2>1, <3>1 DEF Dispatch, Set, IInv, BInv, TypeOK
    <3>3. spc[c] \notin {"scan", "back"} /\ (spc[c] = "proc" => state[p] = "RUNNING")
      BY ZenonT(60), <1>1, <3>1, <3>2 DEF IInv, BInv, CpuInv
    <3> QED BY SMTT(30), <1>1, <2>2, <3>2, <3>3, SlotFacts DEF IInv, BInv, CpuInv
  <2>4. OneTimer
    BY Zenon, <1>1, FourOnOneCpu DEF FourOnOneCpu, OneTimer, IInv, BInv, TypeOK, TickMod
  <2>5. SUFFICES ASSUME ~(pos[c] > 1) PROVE FALSE
    BY SMTT(30)
  <2>6. p \in MultiLevel(c)
    BY SMTT(30), <1>1, <2>1, <2>3, ChoiceIs DEF Dispatch
  <2>7. queuelevel[p] \in 1 .. 3 /\ queuelevel[q] \in 1 .. 3 /\ tmp[c] \in Nat /\ priority \in [Slots -> Nat]
    BY Zenon, <1>1, BuildFacts DEF IInv, BInv, TypeOK
  <2>8. queuelevel[p] = 3 \/ p \notin LeastServed(c, Level(3))
    BY Zenon DEF LeastServed, Least, Level
  <2>9. queuelevel[p] = 2 \/ p \notin Oldest(c, Level(2))
    BY ZenonT(60) DEF Oldest, Least, Level
  <2>10. CASE queuelevel[q] = 3
    <3>1. LeastServed(c, Level(3)) # {}
      BY ZenonT(60), <1>1, <2>2, <2>4, <2>10, LevelThreeSeen DEF Level, Runnable
    <3> QED BY SMTT(30), <1>1, <3>1, <2>5, <2>6, <2>7, <2>8, <2>10 DEF MultiLevel
  <2>11. CASE queuelevel[q] = 2
    <3>1. q \in Level(2) /\ Level(2) \subseteq Slots /\ priority[q] < tmp[c]
      BY Zenon, <1>1, <2>2, <2>11 DEF Level, Runnable, IInv, ReadyInv
    <3>2. Oldest(c, Level(2)) # {}
      BY ZenonT(60), <3>1, <2>7, LeastExists DEF Oldest
    <3>3. queuelevel[p] = 1
      BY <1>1, <2>7, <2>11
    <3> QED BY SMTT(30), <3>2, <3>3, <2>5, <2>6, <2>8, <2>9 DEF MultiLevel
  <2> QED BY <1>1, <2>7, <2>10, <2>11
<1>2. IInv /\ [HNext]_hvars =>
        [\A p, q \in Slots, c \in Cpus :
           /\ strategy = 4 /\ Starts(p) /\ Waits(q) /\ queuelevel[p] < queuelevel[q]
           /\ cpuproc'[c] = p /\ ready[q] < tmp[c]
           => pos[c] > 1]_hvars
  BY Zenon, <1>1
<1> QED BY <1>2, Invariance, PTL DEF HSpec, LevelsInOrder

=============================================================================
