------------------------------- MODULE Memory -------------------------------
(***************************************************************************)
(* Physical pages and address spaces: the free list of kalloc.c, the page  *)
(* tables of vm.c, and the calls that build, copy, grow, replace and free  *)
(* an address space (main at boot, fork, sbrk, exec, exit and wait).       *)
(*                                                                         *)
(* A page's contents are what the kernel keeps in it: a link of the free   *)
(* list, a page directory, a page table, or data.  Every kalloc and kfree  *)
(* is a step of its own, so two processes can run out of memory anywhere.  *)
(* Page tables are private to a process, so the code between two of these  *)
(* calls goes with one of them.  Sizes are in bytes, PGSIZE to a page.     *)
(***************************************************************************)
EXTENDS Integers, Sequences, FiniteSets, FiniteSetsExt, Functions

CONSTANTS Machines,   \* the numbers of physical pages a machine may have
          NLOW,       \* those below 4 Mbyte, freed by kinit1
          PGSIZE, NPTENTRIES,
          NUTAB,      \* page tables of user memory: KERNBASE is where they end
          NPROC, Sizes, MaxCalls

ASSUME MemoryAssumption ==
  /\ Machines \subseteq Nat \ {0} /\ Machines # {} /\ (\A n \in Machines : NLOW \in 1 .. n - 1)
  /\ PGSIZE \in Nat \ {0} /\ NPTENTRIES \in Nat \ {0}
  /\ NUTAB \in Nat \ {0} /\ NPROC \in Nat \ {0} /\ Sizes \subseteq Nat /\ MaxCalls \in Nat

VARIABLES kmem,    \* the free list's head, use_lock, and where memory ends
          mem,     \* the contents of every page
          th,      \* the threads: 0 is main on the boot CPU, the others are processes
          kpgdir,  \* the kernel's page directory, and the stacks of the other CPUs
          lost,    \* history: the pages that failing calls forgot
          panic
vars == <<kmem, mem, th, kpgdir, lost, panic>>

NPAGE == Max(Machines)
Pages == 1 .. NPAGE
Procs == 1 .. NPROC
Threads == 0 .. NPROC
None == -1
KERNBASE == NUTAB * NPTENTRIES * PGSIZE
Pgroundup(n) == ((n + PGSIZE - 1) \div PGSIZE) * PGSIZE

NoThread == [st |-> "unused", pc |-> "user", call |-> "", kstack |-> 0, pgdir |-> 0, sz |-> 0, d |-> 0, m |-> 0,
             a |-> 0, lo |-> 0, hi |-> 0, r |-> None, kid |-> 0, parent |-> 0, zeroed |-> FALSE, calls |-> 0]
Junk == [t |-> "junk"]
Data == [t |-> "data"]
\* The last entry of a directory maps the kernel.
EmptyDir == [t |-> "dir", e |-> [x \in 0 .. NUTAB |-> 0]]
EmptyTab == [t |-> "tab", e |-> [x \in 0 .. NPTENTRIES - 1 |-> [pg |-> 0, u |-> FALSE]]]

Main_UserFirst == <<"kinit1", "kvmalloc", "startothers", "userinit", "kinit2">>
Main == <<"kinit1", "kvmalloc", "startothers", "kinit2", "userinit">>
Init ==
  /\ kmem \in [freelist : {0}, use_lock : {FALSE}, phystop : Machines]
  /\ mem = [v \in Pages |-> Junk]
  /\ th = [t \in Threads |-> IF t = 0 THEN [NoThread EXCEPT !.st = "main", !.pc = Main[1], !.a = 1, !.kid = 1]
                             ELSE NoThread]
  /\ kpgdir = [dir |-> 0, stacks |-> {}] /\ lost = {} /\ panic = FALSE

\* The return to user space.
Return(r) == [r EXCEPT !.pc = "user", !.call = "", !.d = 0, !.m = 0, !.a = 0, !.lo = 0, !.hi = 0, !.kid = 0]
-----------------------------------------------------------------------------
(* kalloc.c                                                                *)

\* main's next step.
Booted(t, step) ==
  LET i == CHOOSE x \in DOMAIN Main : Main[x] = step IN
  [Return(th[t]) EXCEPT !.pc = IF i = Len(Main) THEN "scheduler" ELSE Main[i + 1], !.a = NLOW + 1, !.r = None]

\* Without use_lock, the head may have changed since the thread read it.
Head0(t) == IF th[t].r # None THEN th[t].r ELSE kmem.freelist
Ready(t) == kmem.use_lock \/ th[t].r # None
ReadFreelist(t) ==
  /\ ~Ready(t) /\ th[t].st \in {"main", "run"} /\ th[t].pc # "user"
  /\ th' = [th EXCEPT ![t].r = kmem.freelist]
  /\ UNCHANGED <<kmem, mem, kpgdir, lost, panic>>

\* kalloc: the head of the list, with its first use by the caller as contents c.  A head
\* that is no longer a link of the list gives whatever its first word holds: nothing.
Kalloc(t, c) ==
  /\ Ready(t) /\ Head0(t) # 0
  /\ kmem' = [kmem EXCEPT !.freelist = IF mem[Head0(t)].t = "free" THEN mem[Head0(t)].next ELSE 0]
  /\ mem' = [mem EXCEPT ![Head0(t)] = c]
KallocFails(t) == Ready(t) /\ Head0(t) = 0

Kfree(t, v) ==
  /\ Ready(t)
  /\ kmem' = [kmem EXCEPT !.freelist = v]
  /\ mem' = [mem EXCEPT ![v] = [t |-> "free", next |-> Head0(t)]]

\* kalloc of a page table with contents c, entered in directory d at x.
KallocFor(t, d, x, c) ==
  /\ kmem' = [kmem EXCEPT !.freelist = IF mem[Head0(t)].t = "free" THEN mem[Head0(t)].next ELSE 0]
  /\ mem' = [mem EXCEPT ![Head0(t)] = c, ![d].e[x] = Head0(t)]

\* The thread goes on as r says; a head read without the lock is used up.
Goes(t, r) == th' = [th EXCEPT ![t] = [r EXCEPT !.r = None]]

-----------------------------------------------------------------------------
(* vm.c                                                                    *)

Pdx(va) == (va \div PGSIZE) \div NPTENTRIES
Ptx(va) == (va \div PGSIZE) % NPTENTRIES
Dir(d) == mem[d].e
HasTab(d, va) == Dir(d)[Pdx(va)] # 0
Pte(d, va) == mem[Dir(d)[Pdx(va)]].e[Ptx(va)]
Present(d, va) == HasTab(d, va) /\ Pte(d, va).pg # 0

\* freevm(d), as the last thing a call does or on its way out.
Freevm(r, d) == [r EXCEPT !.pc = "freevm", !.d = d, !.a = 0]
\* allocuvm(d, lo, hi), which refuses to reach KERNBASE.
Allocuvm(r, d, lo, hi) ==
  IF hi < KERNBASE THEN [r EXCEPT !.pc = "alloc", !.d = d, !.lo = lo, !.hi = hi, !.a = Pgroundup(lo)]
  ELSE IF r.call = "grow" THEN Return(r) ELSE Freevm(r, d)

\* setupkvm: a directory, and the page table of the kernel's mappings.  When the table
\* cannot be had it returns 0, and the directory is nobody's.
NoPgdir(r) == IF r.call = "exec" THEN Return(r) ELSE [r EXCEPT !.pc = "nofork", !.d = 0]
SetupkvmDir(t) ==
  /\ th[t].pc = "setupkvm"
  /\ \/ Kalloc(t, EmptyDir) /\ Goes(t, [th[t] EXCEPT !.pc = "kernpart", !.d = Head0(t)])
     \/ KallocFails(t) /\ Goes(t, NoPgdir(th[t])) /\ UNCHANGED <<kmem, mem>>
  /\ UNCHANGED <<kpgdir, lost, panic>>
SetupkvmMap(t) ==
  LET r == th[t] IN
  /\ r.pc = "kernpart" /\ Ready(t)
  /\ IF Head0(t) # 0
     THEN /\ KallocFor(t, r.d, NUTAB, EmptyTab)
          /\ Goes(t, IF r.call = "kvmalloc" THEN [r EXCEPT !.pc = "switchkvm"] ELSE Allocuvm(r, r.d, 0, r.hi))
          /\ UNCHANGED lost
     ELSE /\ Goes(t, NoPgdir(r)) /\ lost' = lost \cup {r.d}
          /\ UNCHANGED <<kmem, mem>>
  /\ UNCHANGED <<kpgdir, panic>>

\* The kalloc of allocuvm, copyuvm and inituvm for the page at a: nothing to copy is a
\* panic of copyuvm, and without memory the pages already mapped are freed again.
NoMemory_NoDealloc(r) == IF r.call = "grow" THEN Return(r) ELSE Freevm([r EXCEPT !.m = 0], r.d)
NoMemory(r) == IF r.call = "fork" THEN Freevm([r EXCEPT !.m = 0], r.d)
               ELSE [r EXCEPT !.pc = "dealloc", !.a = Pgroundup(r.lo)]
\* copyuvm's page at a: whether there is one, and the flags of the copy.
NothingToCopy(r) == r.call = "fork" /\ ~Present(r.pgdir, r.a)
Copied(r) == [pg |-> r.m, u |-> r.call = "fork" => Pte(r.pgdir, r.a).u]
PageAlloc(t) ==
  /\ th[t].pc = "alloc" /\ th[t].a < th[t].hi /\ ~panic
  /\ IF NothingToCopy(th[t])
     THEN panic' = TRUE /\ UNCHANGED <<kmem, mem, th>>
     ELSE /\ \/ Kalloc(t, Data) /\ Goes(t, [th[t] EXCEPT !.pc = "map", !.m = Head0(t)])
             \/ KallocFails(t) /\ Goes(t, NoMemory(th[t])) /\ UNCHANGED <<kmem, mem>>
          /\ UNCHANGED panic
  /\ UNCHANGED <<kpgdir, lost>>

\* mappages of that page: walkpgdir may need a page table.  When there is none, allocuvm
\* frees what it mapped and the page itself, but copyuvm forgets the page.
Mappages(t) ==
  LET r == th[t]
      next == [r EXCEPT !.pc = "alloc", !.m = 0, !.a = @ + PGSIZE]
      pte == Copied(r)
  IN
  /\ r.pc = "map" /\ ~panic
  /\ \/ /\ HasTab(r.d, r.a)
        /\ panic' = Present(r.d, r.a)
        /\ mem' = [mem EXCEPT ![Dir(r.d)[Pdx(r.a)]].e[Ptx(r.a)] = pte]
        /\ th' = [th EXCEPT ![t] = next] /\ UNCHANGED <<kmem, lost>>
     \/ /\ ~HasTab(r.d, r.a) /\ Ready(t) /\ Head0(t) # 0
        /\ KallocFor(t, r.d, Pdx(r.a), [EmptyTab EXCEPT !.e[Ptx(r.a)] = pte])
        /\ Goes(t, next) /\ UNCHANGED <<lost, panic>>
     \/ /\ ~HasTab(r.d, r.a) /\ KallocFails(t)
        /\ lost' = IF r.call = "fork" THEN lost \cup {r.m} ELSE lost
        /\ Goes(t, NoMemory(r)) /\ UNCHANGED <<kmem, mem, panic>>
  /\ UNCHANGED kpgdir

\* deallocuvm's loop from a: a page table that is missing skips NPTENTRIES pages from
\* there, wherever in its range a is.  The next page to free is at Victim, if below hi.
Victim(d, a0, hi) ==
  LET from[a \in 0 .. hi + NPTENTRIES * PGSIZE] ==
        IF a >= hi THEN a
        ELSE IF ~HasTab(d, a) THEN from[a + NPTENTRIES * PGSIZE]
        ELSE IF Present(d, a) THEN a ELSE from[a + PGSIZE]
  IN  from[a0]
\* Page v goes back to the free list and its entry at va is cleared.
Unmap(t, d, va) ==
  /\ Ready(t)
  /\ kmem' = [kmem EXCEPT !.freelist = Pte(d, va).pg]
  /\ mem' = [mem EXCEPT ![Pte(d, va).pg] = [t |-> "free", next |-> Head0(t)],
                        ![Dir(d)[Pdx(va)]].e[Ptx(va)] = [pg |-> 0, u |-> FALSE]]

\* What follows: a failed allocuvm frees the page it could not map, growproc takes the
\* new size, except that it takes 0 for a failure, and a failed exec frees the rest.
Deallocuvm(t) ==
  LET r == th[t]
      va == Victim(r.d, r.a, r.hi)
  IN
  /\ r.pc = "dealloc"
  /\ \/ va < r.hi /\ Unmap(t, r.d, va) /\ Goes(t, [r EXCEPT !.a = va + PGSIZE])
     \/ va >= r.hi /\ r.m # 0 /\ Kfree(t, r.m) /\ Goes(t, [r EXCEPT !.m = 0])
     \/ /\ va >= r.hi /\ r.m = 0 /\ UNCHANGED <<kmem, mem>>
        /\ Goes(t, CASE r.call = "grow" -> Return(r)
                     [] r.call = "shrink" /\ r.lo = 0 -> [Return(r) EXCEPT !.zeroed = TRUE]
                     [] r.call = "shrink" /\ r.lo # 0 -> [Return(r) EXCEPT !.sz = r.lo]
                     [] OTHER -> Freevm(r, r.d))
  /\ UNCHANGED <<kpgdir, lost, panic>>

\* freevm: every user page, then every page table, then the directory.
FreevmPages(t) ==
  LET r == th[t]
      va == Victim(r.d, r.a, KERNBASE)
  IN
  /\ r.pc = "freevm"
  /\ \/ va < KERNBASE /\ Unmap(t, r.d, va) /\ Goes(t, [r EXCEPT !.a = va + PGSIZE])
     \/ va >= KERNBASE /\ Goes(t, [r EXCEPT !.pc = "freetabs", !.a = 0]) /\ UNCHANGED <<kmem, mem>>
  /\ UNCHANGED <<kpgdir, lost, panic>>
\* A failed fork still has the child's kernel stack to free; wait gives up the slot.
Freed(t) ==
  LET r == IF th[t].call = "fork" THEN [th[t] EXCEPT !.pc = "nofork", !.d = 0] ELSE Return(th[t]) IN
  th' = [x \in Threads |-> IF x = t THEN [r EXCEPT !.r = None]
                           ELSE IF th[t].call = "wait" /\ x = th[t].kid THEN NoThread ELSE th[x]]
Tabs(d, i) == {x \in i .. NUTAB : Dir(d)[x] # 0}
FreevmTabs(t) ==
  LET r == th[t] IN
  /\ r.pc = "freetabs"
  /\ IF Tabs(r.d, r.a) # {}
     THEN Kfree(t, Dir(r.d)[Min(Tabs(r.d, r.a))]) /\ Goes(t, [r EXCEPT !.a = Min(Tabs(r.d, r.a)) + 1])
     ELSE Kfree(t, r.d) /\ Freed(t)
  /\ UNCHANGED <<kpgdir, lost, panic>>

-----------------------------------------------------------------------------
(* syscall.c: the tests of a system call's arguments, for a process of     *)
(* size sz.  An unsigned int wraps at twice KERNBASE, and is INT bytes.    *)

UINT == 2 * KERNBASE
INT == 2
Fetchint(sz, addr) == ~(addr >= sz \/ (addr + INT) % UINT > sz)
\* It reads on to a nul or to sz.
Fetchstr(sz, addr) == addr < sz
Argptr_SumOnly(sz, i, size) == ~(size < 0 \/ (i + size) % UINT > sz)
Argptr(sz, i, size) == ~(size < 0 \/ i >= sz \/ (i + size) % UINT > sz)
ArgSizes == {-1, 0, 1, 3, KERNBASE - 1}

-----------------------------------------------------------------------------
(* The system calls                                                        *)

Calls(q) == th[q].st = "run" /\ th[q].pc = "user" /\ th[q].calls < MaxCalls /\ ~panic
Call(q, c) == [th[q] EXCEPT !.call = c, !.calls = @ + 1]

\* sys_sbrk and growproc, up or down; the size may become 0.
SysSbrk(q) ==
  /\ Calls(q)
  /\ \E n \in Sizes :
       \/ Goes(q, Allocuvm(Call(q, "grow"), th[q].pgdir, th[q].sz, th[q].sz + n))
       \/ /\ n <= th[q].sz
          /\ Goes(q, [Call(q, "shrink") EXCEPT !.pc = "dealloc", !.d = th[q].pgdir, !.lo = th[q].sz - n,
                                               !.hi = th[q].sz, !.a = Pgroundup(th[q].sz - n)])
  /\ UNCHANGED <<kmem, mem, kpgdir, lost, panic>>

\* allocuvm has all its pages: growproc is done, fork has its child, and exec goes on,
\* from the program, which may fail to load, to its stack, and to the arguments, which
\* may need more than the page below the top.  Then the old image goes.
GrowDone(t) ==
  LET r == th[t] IN
  /\ r.pc = "alloc" /\ r.a >= r.hi /\ r.call = "grow"
  /\ Goes(t, [Return(r) EXCEPT !.sz = r.hi])
  /\ UNCHANGED <<kmem, mem, kpgdir, lost, panic>>
ForkDone(t) ==
  LET r == th[t] IN
  /\ r.pc = "alloc" /\ r.a >= r.hi /\ r.call \in {"fork", "userinit"}
  /\ th' = [th EXCEPT ![t] = IF t = 0 THEN Booted(0, "userinit") ELSE Return(@),
                      ![r.kid] = [@ EXCEPT !.st = "run", !.pgdir = r.d, !.sz = r.hi]]
  /\ UNCHANGED <<kmem, mem, kpgdir, lost, panic>>
ExecLoaded(t) ==
  LET r == th[t] IN
  /\ r.pc = "alloc" /\ r.a >= r.hi /\ r.call = "exec"
  /\ \/ Goes(t, Freevm(r, r.d))
     \/ Goes(t, Allocuvm([r EXCEPT !.call = "stack"], r.d, Pgroundup(r.hi), Pgroundup(r.hi) + 2 * PGSIZE))
  /\ UNCHANGED <<kmem, mem, kpgdir, lost, panic>>
Clearpteu(d, va) == mem' = [mem EXCEPT ![Dir(d)[Pdx(va)]].e[Ptx(va)].u = FALSE]
ExecCommit(t) ==
  LET r == th[t] IN
  /\ r.pc = "alloc" /\ r.a >= r.hi /\ r.call = "stack"
  /\ Clearpteu(r.d, r.hi - 2 * PGSIZE)
  /\ \E k \in {1, 2} :
       Goes(t, IF mem'[Dir(r.d)[Pdx(r.hi - k * PGSIZE)]].e[Ptx(r.hi - k * PGSIZE)].u
               THEN Freevm([r EXCEPT !.call = "commit", !.pgdir = r.d, !.sz = r.hi, !.zeroed = FALSE], r.pgdir)
               ELSE Freevm(r, r.d))
  /\ UNCHANGED <<kmem, kpgdir, lost, panic>>
SysExec(q) ==
  /\ Calls(q)
  /\ \E n \in Sizes : Goes(q, [Call(q, "exec") EXCEPT !.pc = "setupkvm", !.hi = n])
  /\ UNCHANGED <<kmem, mem, kpgdir, lost, panic>>

\* fork: a slot, a kernel stack, a copy of the memory; userinit builds the first process
\* in the same way, from nothing.
Unused == {c \in Procs : th[c].st = "unused"}
SysFork(q) ==
  /\ Calls(q) /\ Unused # {}
  /\ th' = [th EXCEPT ![q] = [Call(q, "fork") EXCEPT !.pc = "allocproc", !.kid = Min(Unused), !.hi = th[q].sz],
                      ![Min(Unused)] = [@ EXCEPT !.st = "embryo", !.parent = q]]
  /\ UNCHANGED <<kmem, mem, kpgdir, lost, panic>>
Allocproc(t) ==
  LET r == th[t] IN
  /\ r.pc = "allocproc"
  /\ \/ /\ Kalloc(t, Data)
        /\ th' = [th EXCEPT ![t] = [r EXCEPT !.pc = "setupkvm", !.r = None], ![r.kid].kstack = Head0(t)]
     \/ /\ KallocFails(t) /\ UNCHANGED <<kmem, mem>>
        /\ th' = [th EXCEPT ![t] = [Return(r) EXCEPT !.r = None], ![r.kid] = NoThread]
  /\ UNCHANGED <<kpgdir, lost, panic>>
NoFork(t) ==
  /\ th[t].pc = "nofork" /\ Kfree(t, th[th[t].kid].kstack)
  /\ th' = [th EXCEPT ![t] = [Return(@) EXCEPT !.r = None], ![th[t].kid] = NoThread]
  /\ UNCHANGED <<kpgdir, lost, panic>>

\* exit leaves everything to the parent's wait.  Process 1 is init, which never exits.
Exit(q) ==
  /\ th[q].st = "run" /\ th[q].pc = "user" /\ q # 1
  /\ th' = [c \in Threads |-> IF c = q THEN [th[q] EXCEPT !.st = "zombie"]
                              ELSE IF th[c].parent = q THEN [th[c] EXCEPT !.parent = 1] ELSE th[c]]
  /\ UNCHANGED <<kmem, mem, kpgdir, lost, panic>>
SysWait(q) ==
  /\ th[q].st = "run" /\ th[q].pc = "user" /\ ~panic
  /\ \E c \in Procs :
       /\ th[c].st = "zombie" /\ th[c].parent = q /\ Kfree(q, th[c].kstack)
       /\ th' = [th EXCEPT ![q] = Freevm([@ EXCEPT !.call = "wait", !.kid = c, !.r = None], th[c].pgdir),
                           ![c] = [@ EXCEPT !.kstack = 0, !.pgdir = 0]]
  /\ UNCHANGED <<kpgdir, lost, panic>>

-----------------------------------------------------------------------------
(* main on the boot CPU                                                    *)

\* kinit1 and kinit2: freerange over their pages; only kinit2 turns the lock on.
Kinit(step, last) ==
  /\ th[0].pc = step
  /\ Ready(0)
  /\ mem' = [mem EXCEPT ![th[0].a] = [t |-> "free", next |-> Head0(0)]]
  /\ kmem' = [kmem EXCEPT !.freelist = th[0].a, !.use_lock = step = "kinit2" /\ th[0].a = last]
  /\ th' = [th EXCEPT ![0] = IF th[0].a = last THEN Booted(0, step) ELSE [@ EXCEPT !.a = @ + 1, !.r = None]]
  /\ UNCHANGED <<kpgdir, lost, panic>>
\* kvmalloc; startothers, with one other CPU; and userinit, which makes process 1.
Kvmalloc ==
  /\ \/ /\ th[0].pc = "kvmalloc" /\ Goes(0, [th[0] EXCEPT !.pc = "setupkvm", !.call = "kvmalloc"])
        /\ UNCHANGED kpgdir
     \/ /\ th[0].pc = "switchkvm" /\ Goes(0, Booted(0, "kvmalloc"))
        /\ kpgdir' = [kpgdir EXCEPT !.dir = th[0].d]
  /\ UNCHANGED <<kmem, mem, lost, panic>>
Startothers ==
  /\ th[0].pc = "startothers" /\ Kalloc(0, Data)
  /\ kpgdir' = [kpgdir EXCEPT !.stacks = {Head0(0)}]
  /\ Goes(0, Booted(0, "startothers"))
  /\ UNCHANGED <<lost, panic>>
Userinit ==
  /\ th[0].pc = "userinit"
  /\ th' = [th EXCEPT ![0] = [@ EXCEPT !.pc = "allocproc", !.call = "userinit", !.kid = 1, !.hi = PGSIZE, !.r = None],
                      ![1].st = "embryo"]
  /\ UNCHANGED <<kmem, mem, kpgdir, lost, panic>>

Vm(t) ==
  \/ ReadFreelist(t) \/ SetupkvmDir(t) \/ SetupkvmMap(t) \/ PageAlloc(t) \/ Mappages(t)
  \/ Deallocuvm(t) \/ FreevmPages(t) \/ FreevmTabs(t)
  \/ GrowDone(t) \/ ForkDone(t) \/ ExecLoaded(t) \/ ExecCommit(t) \/ Allocproc(t) \/ NoFork(t)
Next ==
  \/ Kinit("kinit1", NLOW) \/ Kvmalloc \/ Startothers \/ Kinit("kinit2", kmem.phystop) \/ Userinit
  \/ \E t \in Threads : Vm(t)
  \/ \E q \in Procs : SysSbrk(q) \/ SysExec(q) \/ SysFork(q) \/ Exit(q) \/ SysWait(q)
Spec == Init /\ [][Next]_vars

-----------------------------------------------------------------------------
(* Properties                                                              *)

\* The list from its head, cut at a page that is no link; a cycle repeats a page.
FreeList ==
  LET walk[n \in 0 .. NPAGE] ==
        IF n = 0 THEN <<>>
        ELSE LET w == walk[n - 1]
                 v == IF w = <<>> THEN kmem.freelist ELSE IF mem[w[Len(w)]].t = "free" THEN mem[w[Len(w)]].next ELSE 0
             IN  IF v = 0 THEN w ELSE Append(w, v)
  IN  walk[NPAGE]

\* Who uses which page, as <<user, use, where, page>>.  A freevm under way has already
\* freed the page tables below a.
TabsOf(d, i) == IF mem[d].t = "dir" THEN {x \in i .. NUTAB : mem[d].e[x] # 0} ELSE {}
PtesOf(d, x) == IF mem[mem[d].e[x]].t = "tab" THEN {k \in 0 .. NPTENTRIES - 1 : mem[mem[d].e[x]].e[k].pg # 0} ELSE {}
Space(o, d, i) ==
  IF d = 0 THEN {}
  ELSE {<<o, "dir", 0, d>>} \cup {<<o, "tab", x, mem[d].e[x]>> : x \in TabsOf(d, i)}
       \cup UNION {{<<o, "page", x * NPTENTRIES + k, mem[mem[d].e[x]].e[k].pg>> : k \in PtesOf(d, x)} : x \in TabsOf(d, i)}
Uses ==
  Space(<<-1, "own">>, kpgdir.dir, 0) \cup {<<<<-1, "own">>, "stack", 0, v>> : v \in kpgdir.stacks} \cup
  UNION {LET r == th[t] IN
           {<<<<t, "own">>, x, 0, r[x]>> : x \in {y \in {"kstack", "m"} : r[y] # 0}} \cup Space(<<t, "own">>, r.pgdir, 0)
           \cup (IF r.d = r.pgdir THEN {} ELSE Space(<<t, "new">>, r.d, IF r.pc = "freetabs" THEN r.a ELSE 0))
         : t \in Threads}
\* The variables keep their types.
TypeOK ==
  /\ kmem.freelist \in 0 .. NPAGE /\ kmem.use_lock \in BOOLEAN
  /\ \A v \in Pages : mem[v].t \in {"junk", "free", "dir", "tab", "data"}
  /\ \A t \in Threads : th[t].sz < KERNBASE /\ th[t].st \in {"main", "unused", "embryo", "run", "zombie"}
  /\ kpgdir.dir \in 0 .. NPAGE /\ lost \subseteq Pages /\ panic \in BOOLEAN

\* Every page has one use: two processes never share one, a page in use is not on the free
\* list, and the free list has no page twice; from boot, when kalloc takes no lock, on.  And
\* none is forgotten: whatever call fails for lack of memory, and wherever in it, each page
\* kinit1 and kinit2 have freed is free or in use, but for a directory that setupkvm and a
\* page that copyuvm leave behind (lost).
OneUse ==
  LET us == Uses
      used == {u[4] : u \in us}
      list == FreeList
      free == Range(list)
  IN  /\ TypeOK
      /\ Cardinality(us) = Cardinality(used) /\ Cardinality(free) = Len(list)
      /\ used \cap free = {} /\ used \cap lost = {} /\ free \cap lost = {}
      /\ th[0].pc = "scheduler" => used \cup free \cup lost = 1 .. kmem.phystop

\* A process in user space has the memory below its size, all of it and no more, whether
\* its last call succeeded or not; so mappages never panics ("remap"), nor copyuvm ("page
\* not present").  The exception is a process that sbrk brought to size 0: growproc takes
\* the 0 for a failure, returns -1 and leaves sz, with the pages gone.
Pagesof(q) == {u[3] : u \in {x \in Space(<<q, "own">>, th[q].pgdir, 0) : x[2] = "page"}}
MemoryBelowSz ==
  /\ \A q \in Procs : th[q].st = "run" /\ th[q].pc = "user" /\ ~th[q].zeroed =>
       Pagesof(q) = {n \in 0 .. NUTAB * NPTENTRIES : n * PGSIZE < th[q].sz}
  /\ panic => \E q \in Procs : th[q].zeroed

\* The addresses that a process's directory maps.
Mapped(q) == {a \in 0 .. KERNBASE - 1 : Present(th[q].pgdir, a)}

\* Whatever address and size a process passes to a system call, the kernel touches only
\* mapped memory if fetchint, fetchstr or argptr let it through: sums wrap at UINT, sz
\* ends a page in its middle, and a failed call has not left sz and the pages apart.  The
\* exception is again the process at size 0.
ArgsMapped ==
  \A q \in Procs : th[q].st = "run" /\ th[q].pc = "user" /\ ~th[q].zeroed =>
    LET mapped == Mapped(q)
        sz == th[q].sz
    IN  \A addr \in 0 .. UINT - 1 :
          /\ Fetchint(sz, addr) => addr .. addr + INT - 1 \subseteq mapped
          /\ Fetchstr(sz, addr) => addr .. sz - 1 \subseteq mapped
          /\ \A n \in ArgSizes : Argptr(sz, addr, n) => addr .. addr + (n % UINT) - 1 \subseteq mapped
=============================================================================
