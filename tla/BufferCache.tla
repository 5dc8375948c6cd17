----------------------------- MODULE BufferCache -----------------------------
(***************************************************************************)
(* bio.c over sleeplock.c and ide.c: the cache of disk blocks, its buffers'*)
(* sleep locks, and the driver's request queue.  A step is a critical      *)
(* section of bcache.lock, of a sleep lock's spin lock or of idelock.      *)
(***************************************************************************)
EXTENDS Naturals, Sequences, FiniteSets

CONSTANTS
  Blocks,       \* disk blocks, and what an unused buffer has for one
  NoBlock,
  Vals,         \* block contents
  Procs,        \* processes
  NBUF,         \* buffers
  FaultyProcs   \* the processes that run on a machine whose disk may fail to read

ASSUME CacheAssumption ==
  /\ NoBlock \notin Blocks /\ Vals # {}
  /\ NBUF \in Nat \ {0} /\ IsFiniteSet(Procs) /\ FaultyProcs \subseteq Procs

Bufs == 1 .. NBUF

VARIABLES
  blockno, refcnt, valid, dirty, data,  \* fields of struct buf
  locked,       \* b->lock.locked
  lru,          \* the list from head.next, most recently used first
  idequeue,     \* the requests, in order
  active,       \* the buffer idestart has told the disk about, {} when the disk is idle
  sent,         \* the data of a write it has sent, {} for a read
  pc, b,        \* each process: its place, and the buffer it works on (0: none)
  disk,         \* the disk
  faulty        \* whether it may report an error on a read

bufvars == <<blockno, refcnt, valid, dirty, data, locked, lru>>
vars == <<bufvars, idequeue, active, sent, pc, b, disk, faulty>>

PC == {"idle", "acquire", "locksleep", "hold", "iderw", "rwsleep", "rwtest", "deref", "panic"}
Set(f, x, v) == [f EXCEPT ![x] = v]

\* binit: nothing is cached.
Init ==
  /\ blockno = [i \in Bufs |-> NoBlock] /\ refcnt = [i \in Bufs |-> 0]
  /\ valid = [i \in Bufs |-> FALSE] /\ dirty = [i \in Bufs |-> FALSE]
  /\ \E zero \in Vals : data = [i \in Bufs |-> zero]
  /\ locked = [i \in Bufs |-> FALSE]
  /\ lru = [i \in Bufs |-> NBUF + 1 - i]
  /\ idequeue = <<>> /\ active = {} /\ sent = {}
  /\ pc = [p \in Procs |-> "idle"] /\ b = [p \in Procs |-> 0]
  /\ disk \in [Blocks -> Vals] /\ faulty \in BOOLEAN

\* wakeup of the processes at one place that wait for buffer i.
Wakeup(i, at, to) == [p \in Procs |-> IF pc[p] = at /\ b[p] = i THEN to ELSE pc[p]]

-----------------------------------------------------------------------------
(* bio.c                                                                   *)

\* A buffer bget may give to another block.
Recyclable_Dirty(i) == refcnt[i] = 0
Recyclable(i) == refcnt[i] = 0 /\ ~dirty[i]

\* Buffer i holds block k.
Holds_Valid(i, k) == blockno[i] = k /\ valid[i]
Holds(i, k) == blockno[i] = k

\* bget, under bcache.lock: the buffer that has k, or the least recently used
\* one that nobody uses and that is clean, or panic.
Bget(p, k) ==
  LET cached == {i \in Bufs : Holds(lru[i], k)}
      unused == {i \in Bufs : Recyclable(lru[i])} IN
  /\ pc[p] = "idle" /\ (faulty => p \in FaultyProcs)
  /\ \/ \E i \in cached :
          /\ \A j \in cached : i <= j
          /\ b' = Set(b, p, lru[i])
          /\ refcnt' = [refcnt EXCEPT ![lru[i]] = @ + 1]
          /\ pc' = Set(pc, p, "acquire")
          /\ UNCHANGED <<blockno, valid, dirty>>
     \/ \E i \in unused :
          /\ cached = {} /\ \A j \in unused : j <= i
          /\ b' = Set(b, p, lru[i])
          /\ blockno' = Set(blockno, lru[i], k)
          /\ valid' = Set(valid, lru[i], FALSE) /\ dirty' = Set(dirty, lru[i], FALSE)
          /\ refcnt' = Set(refcnt, lru[i], 1)
          /\ pc' = Set(pc, p, "acquire")
     \/ /\ cached = {} /\ unused = {}
        /\ pc' = Set(pc, p, "panic")
        /\ UNCHANGED <<b, blockno, refcnt, valid, dirty>>
  /\ UNCHANGED <<data, locked, lru, idequeue, active, sent, disk, faulty>>

\* acquiresleep, from its start or woken; then bread reads the block unless the
\* buffer is valid.
AcquireSleep(p) ==
  /\ pc[p] = "acquire"
  /\ IF locked[b[p]]
     THEN pc' = Set(pc, p, "locksleep") /\ UNCHANGED locked
     ELSE /\ locked' = Set(locked, b[p], TRUE)
          /\ pc' = Set(pc, p, IF valid[b[p]] THEN "hold" ELSE "iderw")
  /\ UNCHANGED <<blockno, refcnt, valid, dirty, data, lru, idequeue, active, sent, b, disk, faulty>>

\* The process changes the block and leaves it to the log (log_write).
LogWrite(p, v) ==
  /\ pc[p] = "hold"
  /\ data' = Set(data, b[p], v) /\ dirty' = Set(dirty, b[p], TRUE)
  /\ UNCHANGED <<blockno, refcnt, valid, locked, lru, idequeue, active, sent, pc, b, disk, faulty>>

\* The process changes the block and calls bwrite.
Bwrite(p, v) ==
  /\ pc[p] = "hold"
  /\ data' = Set(data, b[p], v) /\ dirty' = Set(dirty, b[p], TRUE)
  /\ pc' = Set(pc, p, "iderw")
  /\ UNCHANGED <<blockno, refcnt, valid, locked, lru, idequeue, active, sent, b, disk, faulty>>

\* brelse -> releasesleep: everybody who waits for the lock tries again.
ReleaseSleep(p) ==
  /\ pc[p] = "hold"
  /\ locked' = Set(locked, b[p], FALSE)
  /\ pc' = Set(Wakeup(b[p], "locksleep", "acquire"), p, "deref")
  /\ UNCHANGED <<blockno, refcnt, valid, dirty, data, lru, idequeue, active, sent, b, disk, faulty>>

\* Unlink buffer i and put it at the front.
ToFront(q, i) ==
  LET at == CHOOSE n \in DOMAIN q : q[n] = i IN
  [n \in DOMAIN q |-> IF n = 1 THEN i ELSE IF n <= at THEN q[n - 1] ELSE q[n]]

\* The rest of brelse: the last user moves the buffer to the front of the list.
Brelse(p) ==
  /\ pc[p] = "deref"
  /\ refcnt' = [refcnt EXCEPT ![b[p]] = @ - 1]
  /\ lru' = IF refcnt[b[p]] = 1 THEN ToFront(lru, b[p]) ELSE lru
  /\ pc' = Set(pc, p, "idle") /\ b' = Set(b, p, 0)
  /\ UNCHANGED <<blockno, valid, dirty, data, locked, idequeue, active, sent, disk, faulty>>

-----------------------------------------------------------------------------
(* ide.c                                                                   *)

\* What iderw waits to change: the buffer is not read, or not written back.
Busy_Unread(i) == ~valid[i]
Busy(i) == ~valid[i] \/ dirty[i]

\* idestart: the command, and the data of a write.
Idestart(i) == active' = {i} /\ sent' = IF dirty[i] THEN {data[i]} ELSE {}

\* iderw, under idelock: append the buffer, start the disk if it is the first one,
\* and sleep until it is served.
Iderw(p) ==
  /\ pc[p] = "iderw"
  /\ IF ~locked[b[p]] \/ ~Busy(b[p])
     THEN pc' = Set(pc, p, "panic") /\ UNCHANGED <<idequeue, active, sent>>
     ELSE /\ idequeue' = Append(idequeue, b[p])
          /\ IF idequeue = <<>> THEN Idestart(b[p]) ELSE UNCHANGED <<active, sent>>
          /\ pc' = Set(pc, p, "rwsleep")
  /\ UNCHANGED <<bufvars, b, disk, faulty>>

\* iderw, woken: test the flags again.
IderwTest(p) ==
  /\ pc[p] = "rwtest"
  /\ pc' = Set(pc, p, IF Busy(b[p]) THEN "rwsleep" ELSE "hold")
  /\ UNCHANGED <<bufvars, idequeue, active, sent, b, disk, faulty>>

\* What a read leaves in the buffer: the block, or its old data if idewait finds an
\* error and insl is skipped.
Delivered(i) == {disk[blockno[i]]} \cup (IF faulty THEN {data[i]} ELSE {})

\* ideintr starts the next request, if any.
StartNext(q) == IF q # <<>> THEN Idestart(Head(q)) ELSE active' = {} /\ sent' = {}

\* ideintr: the disk has served the first request, stored what was sent or delivered
\* the block; the flags do not tell an error.
Ideintr ==
  LET i == Head(idequeue) IN
  /\ active # {}
  /\ idequeue' = Tail(idequeue)
  /\ \/ dirty[i] /\ \E d \in sent : disk' = Set(disk, blockno[i], d) /\ UNCHANGED data
     \/ ~dirty[i] /\ \E d \in Delivered(i) : data' = Set(data, i, d) /\ UNCHANGED disk
  /\ valid' = Set(valid, i, TRUE) /\ dirty' = Set(dirty, i, FALSE)
  /\ pc' = Wakeup(i, "rwsleep", "rwtest")
  /\ StartNext(Tail(idequeue))
  /\ UNCHANGED <<blockno, refcnt, locked, lru, b, faulty>>

-----------------------------------------------------------------------------
\* panic() spins for ever.
Panic(p) == pc[p] = "panic" /\ UNCHANGED vars

InKernel(p) == AcquireSleep(p) \/ Iderw(p) \/ IderwTest(p) \/ Brelse(p)

Next ==
  \/ \E p \in Procs : InKernel(p) \/ ReleaseSleep(p) \/ Panic(p) \/ \E k \in Blocks : Bget(p, k)
  \/ \E p \in Procs, v \in Vals : LogWrite(p, v) \/ Bwrite(p, v)
  \/ Ideintr

Spec == Init /\ [][Next]_vars

\* The disk serves every request, woken processes are scheduled, and nobody keeps a
\* buffer for ever.  Nothing is assumed of who gets a contended sleep lock.
FairSpec ==
  /\ Spec /\ WF_vars(Ideintr)
  /\ \A p \in Procs : WF_vars(InKernel(p)) /\ SF_vars(ReleaseSleep(p))

-----------------------------------------------------------------------------
\* The list has every buffer.
AllOnList(q) == q \in [Bufs -> Bufs] /\ \A i \in Bufs : \E n \in Bufs : q[n] = i

\* Values of the state; refcnt is the number of processes between bget and brelse.
TypeOK ==
  /\ blockno \in [Bufs -> Blocks \cup {NoBlock}]
  /\ refcnt \in [Bufs -> 0 .. Cardinality(Procs)]
  /\ valid \in [Bufs -> BOOLEAN] /\ dirty \in [Bufs -> BOOLEAN]
  /\ data \in [Bufs -> Vals] /\ sent \subseteq Vals /\ disk \in [Blocks -> Vals]
  /\ locked \in [Bufs -> BOOLEAN]
  /\ AllOnList(lru)
  /\ idequeue \in Seq(Bufs) /\ active \subseteq Bufs
  /\ faulty \in BOOLEAN /\ pc \in [Procs -> PC] /\ b \in [Procs -> 0 .. NBUF]

\* The contents a block has: its buffer's once that is valid, else the disk's.
Contents == [k \in Blocks |->
  IF \E i \in Bufs : blockno[i] = k /\ valid[i]
  THEN data[CHOOSE i \in Bufs : blockno[i] = k /\ valid[i]] ELSE disk[k]]

\* bread has returned; only a write is left for the disk.
Using == [p \in Procs |-> IF pc[p] \in {"hold", "iderw", "rwsleep", "rwtest"} /\ valid[b[p]]
                          THEN {blockno[b[p]]} ELSE {}]

Store == INSTANCE BlockStore WITH val <- Contents, using <- Using

\* Through eviction, sharing, queued requests and lazy writes, processes see one
\* contents per block, one process at a time ("only one process at a time can use a
\* buffer"): the one last written, unless the disk failed to read it (ideintr then skips
\* insl but sets B_VALID all the same).
CacheIsStore == Store!Spec

\* A block has at most one buffer: two processes that miss together do not each
\* recycle one.
OneBufferPerBlock ==
  TypeOK /\ \A i, j \in Bufs : blockno[i] = blockno[j] /\ blockno[i] # NoBlock => i = j

\* A request that waits behind others in the queue is served, and its process goes on.
RequestServed == \A p \in Procs : pc[p] = "iderw" ~> pc[p] = "hold"
=============================================================================
