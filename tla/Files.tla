-------------------------------- MODULE Files --------------------------------
(***************************************************************************)
(* Descriptors, the file table (file.c), the descriptor calls of sysfile.c *)
(* and pipes (pipe.c), under processes that fork, exit and are killed.     *)
(* A process runs a program, a sequence of calls.  A step is a critical    *)
(* section of ftable.lock or of a pipe's lock; kill takes neither, so it   *)
(* can come between a pipe's test of killed and its sleep.                 *)
(***************************************************************************)
EXTENDS Integers, Sequences, FiniteSets, FiniteSetsExt

CONSTANTS
  NPROC, NFILE, NOFILE,
  NPIPE,        \* pages kalloc has for pipes
  PIPESIZE,
  W,            \* nread and nwrite wrap at W, a multiple of PIPESIZE
  Byte,
  Loads,        \* what the first process may be given to run
  Kills(_),     \* whether kill is called meanwhile
  Start(_),     \* the text of the first process
  NoText,
  Text(_)       \* the calls of a text

Procs == 1 .. NPROC
FileIds == 1 .. NFILE
Fds == 0 .. NOFILE - 1
PipeIds == 1 .. NPIPE

VARIABLES
  ftable,   \* ref, type (none, pipe, inode), the pipe and whether writable
  pipe,     \* data, nread, nwrite, readopen, writeopen; alloc: the page is not free
  proc,     \* processes with their descriptors and kernel threads
  load      \* which program the first process runs

vars == <<ftable, pipe, proc, load>>

NoFile == [ref |-> 0, type |-> "none", pipe |-> 0, writable |-> FALSE]
Console == 1
NoPipe == [alloc |-> FALSE, data |-> [k \in 0 .. PIPESIZE - 1 |-> CHOOSE b \in Byte : TRUE],
           nread |-> 0, nwrite |-> 0, readopen |-> FALSE, writeopen |-> FALSE]
NoFds == [d \in Fds |-> 0]
NoProc == [st |-> "unused", parent |-> 0, killed |-> FALSE, text |-> NoText, at |-> 0, p |-> <<0, 0>>,
           ofile |-> NoFds, pc |-> "user", pipe |-> 0, n |-> 0, end |-> FALSE, out |-> 0]

\* A process is at call "at" of its text; 0 is the exit every text ends with.
First(text) == IF Text(text) = <<>> THEN 0 ELSE 1

\* The first process has the console as descriptors 0 and 1.
Init ==
  /\ load \in Loads
  /\ ftable = [x \in FileIds |-> IF x = Console THEN [NoFile EXCEPT !.ref = 2, !.type = "inode"] ELSE NoFile]
  /\ pipe = [k \in PipeIds |-> NoPipe]
  /\ proc = [q \in Procs |-> IF q = 1
       THEN [NoProc EXCEPT !.st = "run", !.text = Start(load), !.at = First(Start(load)),
                           !.ofile[0] = Console, !.ofile[1] = Console]
       ELSE NoProc]

-----------------------------------------------------------------------------
Call(q) == Text(proc[q].text)[proc[q].at]
Calls(q, ops) == proc[q].st = "run" /\ proc[q].pc = "user" /\ ~proc[q].killed
                 /\ proc[q].at # 0 /\ Call(q).op \in ops
InUser(r) == [r EXCEPT !.pc = "user", !.pipe = 0, !.n = 0]
Returned(r) == [InUser(r) EXCEPT !.at = IF @ = Len(Text(r.text)) THEN 0 ELSE @ + 1]

\* A descriptor argument: a number, or an element of the array p that pipe() filled.
FdArg(q) == IF Call(q).viap THEN proc[q].p[Call(q).fd] ELSE Call(q).fd
Argfd(q) == proc[q].ofile[FdArg(q)]
FreeFds(r) == {d \in Fds : r.ofile[d] = 0}
FreeFiles == {x \in FileIds : ftable[x].ref = 0}
FreePipes == {k \in PipeIds : ~pipe[k].alloc}

\* pipealloc: two file structures for the ends of pipe k.
Pipealloc(k, rf, wf) ==
  /\ ftable' = [ftable EXCEPT ![rf] = [ref |-> 1, type |-> "pipe", pipe |-> k, writable |-> FALSE],
                              ![wf] = [ref |-> 1, type |-> "pipe", pipe |-> k, writable |-> TRUE]]
  /\ pipe' = [pipe EXCEPT ![k] = [NoPipe EXCEPT !.alloc = TRUE, !.readopen = TRUE, !.writeopen = TRUE]]
\* sys_pipe: two file structures, a page and two descriptors, or nothing at all and sh exits.
SysPipe(q) ==
  /\ Calls(q, {"pipe"})
  /\ IF Cardinality(FreeFiles) < 2 \/ FreePipes = {} \/ Cardinality(FreeFds(proc[q])) < 2
     THEN proc' = [proc EXCEPT ![q].at = 0] /\ UNCHANGED <<ftable, pipe>>
     ELSE LET rf == Min(FreeFiles)
              wf == Min(FreeFiles \ {rf})
              fd0 == Min(FreeFds(proc[q]))
              fd1 == Min(FreeFds(proc[q]) \ {fd0})
          IN  \E k \in FreePipes :
                /\ Pipealloc(k, rf, wf)
                /\ proc' = [proc EXCEPT ![q] = [Returned(@) EXCEPT !.ofile[fd0] = rf, !.ofile[fd1] = wf,
                                                                   !.p = <<fd0, fd1>>]]

\* sys_open's file structure and descriptor; without them it fails, and sh exits.
SysOpen(q) ==
  /\ Calls(q, {"open"})
  /\ IF FreeFiles = {} \/ FreeFds(proc[q]) = {}
     THEN proc' = [proc EXCEPT ![q].at = 0] /\ UNCHANGED ftable
     ELSE /\ ftable' = [ftable EXCEPT ![Min(FreeFiles)] = [NoFile EXCEPT !.ref = 1, !.type = "inode"]]
          /\ proc' = [proc EXCEPT ![q] = [Returned(@) EXCEPT !.ofile[Min(FreeFds(proc[q]))] = Min(FreeFiles)]]
  /\ UNCHANGED pipe

\* filedup.
Filedup_Not(x) == ftable[x].ref
Filedup(x) == ftable[x].ref + 1

SysDup(q) ==
  /\ Calls(q, {"dup"})
  /\ IF Argfd(q) = 0 \/ FreeFds(proc[q]) = {}
     THEN proc' = [proc EXCEPT ![q] = Returned(@)] /\ UNCHANGED ftable
     ELSE /\ ftable' = [ftable EXCEPT ![Argfd(q)].ref = Filedup(Argfd(q))]
          /\ proc' = [proc EXCEPT ![q] = [Returned(@) EXCEPT !.ofile[Min(FreeFds(proc[q]))] = Argfd(q)]]
  /\ UNCHANGED pipe

\* fileclose under ftable.lock; the last close of a pipe's end goes on to pipeclose with
\* the copy ff, when the structure may already be another file's.
Fileclose(q, r, x) ==
  LET last == ftable[x].ref = 1 IN
  /\ ftable' = [ftable EXCEPT ![x] = IF last THEN NoFile ELSE [@ EXCEPT !.ref = @ - 1]]
  /\ proc' = [proc EXCEPT ![q] = IF last /\ ftable[x].type = "pipe"
       THEN [r EXCEPT !.pc = "pipeclose", !.pipe = ftable[x].pipe, !.end = ftable[x].writable]
       ELSE r]
  /\ UNCHANGED pipe

SysClose(q) ==
  /\ Calls(q, {"close"})
  /\ IF Argfd(q) = 0
     THEN proc' = [proc EXCEPT ![q] = Returned(@)] /\ UNCHANGED <<ftable, pipe>>
     ELSE Fileclose(q, [Returned(proc[q]) EXCEPT !.ofile[FdArg(q)] = 0], Argfd(q))

-----------------------------------------------------------------------------
(* pipe.c                                                                  *)

\* A process between its test and its sleep holds the pipe's lock.
Unlocked(k) == \A q \in Procs : proc[q].pipe = k => proc[q].pc \notin {"rsleep", "wsleep"}

\* wakeup(&p->nread) and wakeup(&p->nwrite): the sleepers contend for the lock again.
Wakeup_None(P, k, chan) == P
Wakeup(P, k, chan) ==
  [q \in Procs |-> IF P[q].pc = chan /\ P[q].pipe = k
                   THEN [P[q] EXCEPT !.pc = IF chan = "rasleep" THEN "piperead" ELSE "pipewrite"] ELSE P[q]]

Count(k) == (pipe[k].nwrite - pipe[k].nread) % W

\* pipeclose frees the page when neither end is open.
StillOpen(p) == p.readopen \/ p.writeopen
Pipeclose(q) ==
  LET k == proc[q].pipe
      p == [pipe[k] EXCEPT !.writeopen = IF proc[q].end THEN FALSE ELSE @,
                           !.readopen = IF proc[q].end THEN @ ELSE FALSE]
  IN
  /\ proc[q].pc = "pipeclose" /\ Unlocked(k)
  /\ pipe' = [pipe EXCEPT ![k] = IF StillOpen(p) THEN p ELSE NoPipe]
  /\ proc' = Wakeup([proc EXCEPT ![q] = [@ EXCEPT !.pc = "user", !.pipe = 0, !.end = FALSE]],
                    k, IF proc[q].end THEN "rasleep" ELSE "wasleep")
  /\ UNCHANGED ftable

\* fileread and filewrite: on the console, or on the pipe.  cat (cat.c) reads from 0 and
\* writes the "out" bytes it got to 1, until it gets nothing or cannot write.
Written(r, ok) ==
  IF r.out = 0 THEN Returned(r)
  ELSE IF ok THEN [InUser(r) EXCEPT !.out = 0] ELSE [InUser(r) EXCEPT !.out = 0, !.at = 0]
SysRw(q) ==
  /\ Calls(q, {"write", "read", "cat"})
  /\ LET r == proc[q]
         write == Call(q).op = "write" \/ r.out > 0
         x == IF r.out > 0 THEN r.ofile[1] ELSE Argfd(q)
     IN  proc' = [proc EXCEPT ![q] =
           IF x # 0 /\ ftable[x].type = "pipe" /\ ftable[x].writable = write
           THEN [@ EXCEPT !.pc = IF write THEN "pipewrite" ELSE "piperead",
                          !.pipe = ftable[x].pipe, !.n = IF r.out > 0 THEN r.out ELSE Call(q).n]
           ELSE Written(@, x # 0)]
  /\ UNCHANGED <<ftable, pipe>>

SysExec(q) ==
  /\ Calls(q, {"exec"})
  /\ proc' = [proc EXCEPT ![q] = Returned(@)]
  /\ UNCHANGED <<ftable, pipe>>

\* pipewrite, from the lock to its release or to the sleep on a full pipe.
Full_OffByOne(k) == (pipe[k].nread + PIPESIZE + 1) % W
Full(k) == (pipe[k].nread + PIPESIZE) % W
Pipewrite(q) ==
  LET r == proc[q]
      k == r.pipe
      m == Min({r.n, (Full(k) - pipe[k].nwrite) % W})
      at == {(pipe[k].nwrite + j) % PIPESIZE : j \in 0 .. m - 1}
  IN
  /\ r.pc = "pipewrite" /\ Unlocked(k)
  /\ pipe' = [pipe EXCEPT ![k].data = [j \in DOMAIN @ |-> IF j \in at THEN Call(q).val ELSE @[j]],
                          ![k].nwrite = (@ + m) % W]
  /\ proc' = IF m < r.n /\ (~pipe[k].readopen \/ r.killed)
             THEN [proc EXCEPT ![q] = Written(@, FALSE)]
             ELSE Wakeup([proc EXCEPT ![q] = IF m = r.n THEN Written(@, TRUE)
                                             ELSE [@ EXCEPT !.pc = "wsleep", !.n = @ - m]], k, "rasleep")
  /\ UNCHANGED ftable

\* piperead.
Empty(k) == Count(k) = 0 /\ pipe[k].writeopen
Piperead(q) ==
  LET r == proc[q]
      k == r.pipe
      m == Min({r.n, Count(k)})
  IN
  /\ r.pc = "piperead" /\ Unlocked(k)
  /\ IF Empty(k)
     THEN /\ proc' = [proc EXCEPT ![q] = IF r.killed THEN Returned(@) ELSE [@ EXCEPT !.pc = "rsleep"]]
          /\ UNCHANGED pipe
     ELSE /\ pipe' = [pipe EXCEPT ![k].nread = (@ + m) % W]
          /\ proc' = Wakeup([proc EXCEPT ![q] = IF Call(q).op = "cat" /\ m > 0
                               THEN [InUser(@) EXCEPT !.out = m] ELSE Returned(@)], k, "wasleep")
  /\ UNCHANGED ftable

\* sleep(chan, &p->lock): the lock is given up as the process goes to sleep.
Sleep(q) ==
  /\ proc[q].pc \in {"rsleep", "wsleep"}
  /\ proc' = [proc EXCEPT ![q].pc = IF @ = "rsleep" THEN "rasleep" ELSE "wasleep"]
  /\ UNCHANGED <<ftable, pipe>>

-----------------------------------------------------------------------------
(* proc.c and trap.c, as far as they touch descriptors                     *)

\* fork gives the child every descriptor; without a slot it fails, and sh exits.
Copies(q, x) == Cardinality({d \in Fds : proc[q].ofile[d] = x})
Fork(q) ==
  /\ Calls(q, {"fork"})
  /\ LET free == {c \in Procs : proc[c].st = "unused"} IN
     IF free = {}
     THEN proc' = [proc EXCEPT ![q].at = 0] /\ UNCHANGED ftable
     ELSE /\ ftable' = [x \in FileIds |-> [ftable[x] EXCEPT !.ref = @ + Copies(q, x)]]
          /\ proc' = [proc EXCEPT ![q] = Returned(@), ![Min(free)] =
               [NoProc EXCEPT !.st = "run", !.parent = q, !.text = Call(q).prog,
                              !.at = First(Call(q).prog), !.p = proc[q].p, !.ofile = proc[q].ofile]]
  /\ UNCHANGED pipe

\* exit closes the descriptors one after another, hands its children to init (0), which
\* always waits, and becomes a zombie.
Orphaned(P, q) == [c \in Procs |-> IF P[c].parent # q THEN P[c]
                    ELSE IF P[c].st = "zombie" THEN NoProc ELSE [P[c] EXCEPT !.parent = 0]]
Exit(q) ==
  LET r == proc[q]
      open == Fds \ FreeFds(r)
  IN
  /\ r.st = "run" /\ r.pc = "user" /\ (r.killed \/ r.at = 0)
  /\ IF open # {}
     THEN Fileclose(q, [r EXCEPT !.ofile[Min(open)] = 0, !.at = 0], r.ofile[Min(open)])
     ELSE /\ proc' = Orphaned([proc EXCEPT ![q] =
               IF r.parent = 0 THEN NoProc ELSE [NoProc EXCEPT !.st = "zombie", !.parent = r.parent]], q)
          /\ UNCHANGED <<ftable, pipe>>

\* wait: a zombie child, or no children at all.
Wait(q) ==
  LET kids == {c \in Procs : proc[c].parent = q /\ proc[c].st # "unused"}
      dead == {c \in kids : proc[c].st = "zombie"}
  IN
  /\ Calls(q, {"wait"}) /\ (kids = {} \/ dead # {})
  /\ proc' = [c \in Procs |-> IF c = q THEN Returned(proc[q])
                              ELSE IF dead # {} /\ c = Min(dead) THEN NoProc ELSE proc[c]]
  /\ UNCHANGED <<ftable, pipe>>

\* kill wakes a sleeper, and only a sleeper.
Kill(q) ==
  /\ Kills(load) /\ q # 1 /\ proc[q].st = "run" /\ ~proc[q].killed
  /\ proc' = [proc EXCEPT ![q].killed = TRUE,
       ![q].pc = CASE @ = "rasleep" -> "piperead" [] @ = "wasleep" -> "pipewrite" [] OTHER -> @]
  /\ UNCHANGED <<ftable, pipe>>

Step(q) ==
  \/ SysPipe(q) \/ SysOpen(q) \/ SysDup(q) \/ SysClose(q) \/ SysRw(q) \/ SysExec(q)
  \/ Pipeclose(q) \/ Pipewrite(q) \/ Piperead(q) \/ Sleep(q)
  \/ Fork(q) \/ Exit(q) \/ Wait(q)
Next == (\E q \in Procs : Step(q) \/ Kill(q)) /\ UNCHANGED load
Spec == Init /\ [][Next]_vars

\* While some process can run, some process does: all that is asked of the scheduler.
FairSpec == Spec /\ WF_vars((\E q \in Procs : Step(q)) /\ UNCHANGED load)

-----------------------------------------------------------------------------
(* Properties                                                              *)

\* The variables keep their types; the counters stay within a pipe's size of each other.
TypeOK ==
  /\ \A x \in FileIds : ftable[x].ref \in Nat /\ ftable[x].type \in {"none", "pipe", "inode"}
  /\ \A k \in PipeIds : pipe[k].nread \in 0 .. W - 1 /\ pipe[k].nwrite \in 0 .. W - 1 /\ Count(k) <= PIPESIZE
  /\ \A q \in Procs : proc[q].ofile \in [Fds -> FileIds \cup {0}] /\ proc[q].st \in {"unused", "run", "zombie"}

\* An end of a pipe is held by a file structure, or by a close on its way from fileclose to
\* pipeclose.
EndHeld(k, e) ==
  \/ \E x \in FileIds : ftable[x].type = "pipe" /\ ftable[x].pipe = k /\ ftable[x].writable = e
  \/ \E q \in Procs : proc[q].pc = "pipeclose" /\ proc[q].pipe = k /\ proc[q].end = e
PipeWhileHeld(k) ==
  /\ pipe[k].readopen = EndHeld(k, FALSE) /\ pipe[k].writeopen = EndHeld(k, TRUE)
  /\ pipe[k].alloc = (pipe[k].readopen \/ pipe[k].writeopen)
  /\ \A q \in Procs : proc[q].pipe = k => pipe[k].alloc

\* A file structure's ref is the number of descriptors that name it, across dup, fork,
\* close, a failed pipe and an exit that has closed half of them; a pipe's end is open while
\* a structure stands for it, and pipeclose frees the page when nobody is in it any more.
RefsExact ==
  /\ TypeOK
  /\ \A x \in FileIds : ftable[x].ref = Cardinality({<<q, d>> \in Procs \X Fds : proc[q].ofile[d] = x})
  /\ \A k \in PipeIds : PipeWhileHeld(k)

\* Who sleeps in a pipe has a reason to: a reader an empty pipe that can still be written,
\* a writer a full one that can still be read.  No wakeup of pipewrite, piperead or
\* pipeclose is missing or lost, but one: a killed writer that fills the pipe returns -1
\* without waking the readers, which then sleep in front of a full pipe.
SleepersHaveReason ==
  \A q \in Procs : LET k == proc[q].pipe IN
    /\ proc[q].pc \in {"rsleep", "rasleep"} =>
         \/ Count(k) = 0 /\ pipe[k].writeopen
         \/ Kills(load) /\ Count(k) = PIPESIZE /\ \A o \in Procs : proc[o].pipe = k => proc[o].pc # "wasleep"
    /\ proc[q].pc \in {"wsleep", "wasleep"} => Count(k) = PIPESIZE /\ pipe[k].readopen

\* A pipe, its counters wrapping at W, implements the bounded queue of module ByteQueue.
Content(k) == IF pipe[k].alloc THEN [j \in 1 .. Count(k) |-> pipe[k].data[(pipe[k].nread + j - 1) % PIPESIZE]]
              ELSE <<>>
Queue(k) == INSTANCE ByteQueue WITH Size <- PIPESIZE, q <- Content(k),
              reading <- pipe[k].readopen, writing <- pipe[k].writeopen
PipeIsQueue ==
  /\ \A k \in PipeIds : Queue(k)!Init
  /\ [][\A k \in PipeIds :
         Queue(k)!Next \/ UNCHANGED <<Content(k), pipe[k].readopen, pipe[k].writeopen>>]_vars

\* A command line ends: every process of its pipelines exits, because sh closes the pipe
\* in each process that does not use it, so readers see the end and writers an error.
CommandsEnd == <>[](\A q \in Procs : proc[q].st = "unused")
=============================================================================
