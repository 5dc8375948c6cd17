--------------------------------- MODULE Log ---------------------------------
(***************************************************************************)
(* log.c: transactions of several file system calls, group commit to a     *)
(* redo log on disk, and recovery.  The machine may crash between any two  *)
(* disk writes; a block is one sector and is written whole.  Disk writes   *)
(* are synchronous (iderw), so they reach the disk in program order.       *)
(***************************************************************************)
EXTENDS Naturals, Sequences, FiniteSets

CONSTANTS
  Blocks,       \* home blocks of the file system
  Vals,         \* block contents
  Procs,        \* processes that make file system calls
  MAXOPBLOCKS,  \* the most blocks one call writes
  LOGSIZE,      \* entries of logheader.block
  Size          \* log.size: the blocks of the log on disk, its header included

ASSUME LogAssumption ==
  /\ MAXOPBLOCKS \in Nat \ {0} /\ LOGSIZE \in Nat /\ MAXOPBLOCKS <= LOGSIZE
  /\ Size \in Nat /\ Size <= LOGSIZE /\ IsFiniteSet(Procs)

VARIABLES
  outstanding, committing, lh,   \* struct log; lh is block[0 .. n-1]
  cache, dirty,   \* the contents bread returns, and the blocks with B_DIRTY set
  pc,             \* each process: outside ("idle"), asleep in begin_op, woken there
                  \* ("begin"), between calls of log_write ("op"), inside one ("check",
                  \* "append"), in commit, or stopped by panic
  buf, wrote,     \* the buffer a process has locked, and those its call has written
  cpc, tail,      \* progress of commit or recovery
  up,             \* initlog has finished
  home, head, logdata   \* the disk: file system, log header, log blocks

logvars == <<outstanding, committing, lh>>
callvars == <<buf, wrote>>
vars == <<logvars, cache, dirty, pc, callvars, cpc, tail, up, home, head, logdata>>

LogSlots == 1 .. LOGSIZE
PC == {"idle", "begin", "asleep", "op", "check", "append", "commit", "panic"}
CPC == {"none", "read", "write_log", "write_head", "install", "clear", "done"}

Set(f, x, v) == [f EXCEPT ![x] = v]
Listed(s) == {s[i] : i \in DOMAIN s}

\* mkfs, and the machine switched on: no block is cached, so bread returns what is
\* on disk, and initlog is about to read the header.
Init ==
  /\ outstanding = 0 /\ committing = FALSE /\ lh = <<>>
  /\ home \in [Blocks -> Vals] /\ head = <<>>
  /\ \E zero \in Vals : logdata = [i \in LogSlots |-> zero]
  /\ cache = home /\ dirty = {}
  /\ pc = [p \in Procs |-> "idle"]
  /\ buf = [p \in Procs |-> {}] /\ wrote = [p \in Procs |-> {}]
  /\ cpc = "read" /\ tail = 1 /\ up = FALSE

-----------------------------------------------------------------------------
(* begin_op, log_write, end_op                                             *)

\* wakeup(&log).
WakeupLog_None(at) == at
WakeupLog(at) == [p \in Procs |-> IF at[p] = "asleep" THEN "begin" ELSE at[p]]

\* The two conditions on which begin_op waits.
MustWait(n) == committing \/ n + (outstanding + 1) * MAXOPBLOCKS > LOGSIZE

\* log.outstanding += 1.
Reserve == outstanding + 1

\* begin_op, from its start or woken in its loop.
BeginOp(p) ==
  /\ (up /\ pc[p] = "idle") \/ pc[p] = "begin"
  /\ IF MustWait(Len(lh))
     THEN pc' = Set(pc, p, "asleep") /\ UNCHANGED outstanding
     ELSE pc' = Set(pc, p, "op") /\ outstanding' = Reserve
  /\ UNCHANGED <<committing, lh, cache, dirty, callvars, cpc, tail, up, home, head, logdata>>

\* The call has locked b with bread, changes it, and enters log_write.
Modify(p, b, v) ==
  /\ pc[p] = "op" /\ \A q \in Procs : b \notin buf[q]
  /\ Cardinality(wrote[p] \cup {b}) <= MAXOPBLOCKS
  /\ cache' = Set(cache, b, v)
  /\ buf' = Set(buf, p, {b}) /\ wrote' = [wrote EXCEPT ![p] = @ \cup {b}]
  /\ pc' = Set(pc, p, "check")
  /\ UNCHANGED <<logvars, dirty, cpc, tail, up, home, head, logdata>>

\* log_write's panics, tested without log.lock.
TooBig(n) == n >= LOGSIZE \/ n >= Size - 1
LogCheck(p) ==
  /\ pc[p] = "check"
  /\ pc' = Set(pc, p, IF TooBig(Len(lh)) \/ outstanding < 1 THEN "panic" ELSE "append")
  /\ UNCHANGED <<logvars, cache, dirty, callvars, cpc, tail, up, home, head, logdata>>

\* log_write under log.lock: absorb or append, pin the buffer; then brelse.
Absorb(b) == IF b \in Listed(lh) THEN lh ELSE Append(lh, b)
Pin(b) == dirty \cup {b}
LogWrite(p) ==
  /\ pc[p] = "append"
  /\ \E b \in buf[p] : lh' = Absorb(b) /\ dirty' = Pin(b)
  /\ buf' = Set(buf, p, {})
  /\ pc' = Set(pc, p, "op")
  /\ UNCHANGED <<outstanding, committing, cache, wrote, cpc, tail, up, home, head, logdata>>

\* end_op: the last call commits; another one wakes those that wait for space.
LastOut_Any(n) == TRUE
LastOut(n) == n = 0
EndOp(p) ==
  LET left == outstanding - 1 IN
  /\ pc[p] = "op"
  /\ outstanding' = left
  /\ wrote' = Set(wrote, p, {})
  /\ \/ /\ committing
        /\ pc' = Set(pc, p, "panic")
        /\ UNCHANGED <<committing, cpc, tail>>
     \/ /\ ~committing /\ LastOut(left)
        /\ committing' = TRUE
        /\ pc' = Set(pc, p, "commit")
        /\ cpc' = IF lh # <<>> THEN "write_log" ELSE "done"
        /\ tail' = 1
     \/ /\ ~committing /\ ~LastOut(left)
        /\ pc' = WakeupLog(Set(pc, p, "idle"))
        /\ UNCHANGED <<committing, cpc, tail>>
  /\ UNCHANGED <<lh, cache, dirty, buf, up, home, head, logdata>>

-----------------------------------------------------------------------------
(* commit, and recovery                                                    *)

\* The next iteration of a loop over lh, or what follows the loop.
More_Short == tail + 1 < Len(lh)
More == tail < Len(lh)
Loop(again, after) ==
  IF More THEN cpc' = again /\ tail' = tail + 1
          ELSE cpc' = after /\ tail' = 1

\* write_log: one block from the cache to the log.
WriteLog ==
  /\ cpc = "write_log"
  /\ logdata' = Set(logdata, tail, cache[lh[tail]])
  /\ Loop("write_log", "write_head")
  /\ UNCHANGED <<logvars, cache, dirty, pc, callvars, up, home, head>>

\* write_head: the commit point.
WriteHead ==
  /\ cpc = "write_head"
  /\ head' = lh
  /\ cpc' = "install"
  /\ UNCHANGED <<logvars, cache, dirty, pc, callvars, tail, up, home, logdata>>

\* install_trans: one block from the log to its home; bwrite leaves it clean.
InstallTrans ==
  LET b == lh[tail] IN
  /\ cpc = "install"
  /\ cache' = Set(cache, b, logdata[tail])
  /\ home' = Set(home, b, logdata[tail])
  /\ dirty' = dirty \ {b}
  /\ Loop("install", "clear")
  /\ UNCHANGED <<logvars, pc, callvars, up, head, logdata>>

\* log.lh.n = 0; write_head: the log is empty again.  Recovery ends here.
ClearHead ==
  /\ cpc = "clear"
  /\ lh' = <<>> /\ head' = <<>>
  /\ cpc' = IF up THEN "done" ELSE "none"
  /\ up' = TRUE
  /\ UNCHANGED <<outstanding, committing, cache, dirty, pc, callvars, tail, home, logdata>>

\* end_op, after commit: committing = 0, and everybody who waits tries again.
CommitDone(p) ==
  /\ pc[p] = "commit" /\ cpc = "done"
  /\ committing' = FALSE
  /\ pc' = WakeupLog(Set(pc, p, "idle"))
  /\ cpc' = "none"
  /\ UNCHANGED <<outstanding, lh, cache, dirty, callvars, tail, up, home, head, logdata>>

\* recover_from_log: read_head.
ReadHead ==
  /\ cpc = "read"
  /\ lh' = head
  /\ cpc' = IF head # <<>> THEN "install" ELSE "clear"
  /\ UNCHANGED <<outstanding, committing, cache, dirty, pc, callvars, tail, up, home, head, logdata>>

-----------------------------------------------------------------------------
\* bget recycles the clean, unlocked buffer of b, and bread reads it again later.
Evict(b) ==
  /\ b \notin dirty /\ \A p \in Procs : b \notin buf[p]
  /\ cache' = Set(cache, b, home[b])
  /\ UNCHANGED <<logvars, dirty, pc, callvars, cpc, tail, up, home, head, logdata>>

\* Memory is lost at any moment, also during recovery.
Crash ==
  /\ outstanding' = 0 /\ committing' = FALSE /\ lh' = <<>>
  /\ cache' = home /\ dirty' = {}
  /\ pc' = [p \in Procs |-> "idle"]
  /\ buf' = [p \in Procs |-> {}] /\ wrote' = [p \in Procs |-> {}]
  /\ cpc' = "read" /\ tail' = 1 /\ up' = FALSE
  /\ UNCHANGED <<home, head, logdata>>

Commit == WriteLog \/ WriteHead \/ InstallTrans \/ ClearHead \/ \E p \in Procs : CommitDone(p)

InCall(p) == LogCheck(p) \/ LogWrite(p)

Next ==
  \/ \E p \in Procs : BeginOp(p) \/ InCall(p) \/ EndOp(p) \/ \E b \in Blocks, v \in Vals : Modify(p, b, v)
  \/ Commit \/ ReadHead \/ Crash
  \/ \E b \in Blocks : Evict(b)

Spec == Init /\ [][Next]_vars

-----------------------------------------------------------------------------
\* Values of the state; lh never outgrows logheader.block.
TypeOK ==
  /\ outstanding \in 0 .. Cardinality(Procs) /\ committing \in BOOLEAN
  /\ lh \in Seq(Blocks) /\ Len(lh) <= LOGSIZE
  /\ cache \in [Blocks -> Vals] /\ dirty \subseteq Blocks
  /\ pc \in [Procs -> PC]
  /\ buf \in [Procs -> SUBSET Blocks] /\ wrote \in [Procs -> SUBSET Blocks]
  /\ cpc \in CPC /\ tail \in 1 .. LOGSIZE /\ up \in BOOLEAN
  /\ home \in [Blocks -> Vals] /\ logdata \in [LogSlots -> Vals]
  /\ head \in Seq(Blocks)

\* What recovery would leave at home locations.
Recovered == [b \in Blocks |->
  IF b \in Listed(head) THEN logdata[CHOOSE i \in DOMAIN head : head[i] = b] ELSE home[b]]

Atomic == INSTANCE AtomicDisk WITH
  durable <- Recovered,
  volatile <- IF up THEN cache ELSE Recovered,
  open <- {p \in Procs : pc[p] \in {"op", "check", "append", "panic"}}

\* However calls interleave and wherever the machine crashes, recovery included, the
\* disk holds a state in which every call has happened completely or not at all
\* ("the logging system only commits when there are no FS system calls active").
AtomicCommit == Atomic!Spec

\* When no call is active and no commit is running, every completed call is on disk.
QuietIsDurable ==
  TypeOK /\ (up /\ ~committing /\ outstanding = 0 => Recovered = cache /\ lh = <<>> /\ head = <<>>)

\* A process asleep in begin_op is there for a reason that still holds, and somebody
\* is left who will wake it: a commit, or a call that has not ended.
NoLostWakeup ==
  (\E p \in Procs : pc[p] = "asleep") => MustWait(Len(lh)) /\ (committing \/ outstanding > 0)

\* Calls that keep to MAXOPBLOCKS never find the log full: begin_op has reserved
\* space for each of them ("this op might exhaust log space; wait for commit").
ReservationSuffices == \A p \in Procs : pc[p] # "panic"
=============================================================================
