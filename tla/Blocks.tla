------------------------------- MODULE Blocks --------------------------------
(***************************************************************************)
(* File contents: the free-block bitmap, bmap, readi, writei and itrunc of *)
(* fs.c under fileread and filewrite of file.c.  A block is BSIZE words,   *)
(* data or block numbers, so NINDIRECT = BSIZE.  writei does one block per *)
(* step: another thread's balloc can come between, and only the inode lock *)
(* keeps two writers of one file apart.                                    *)
(***************************************************************************)
EXTENDS Integers, Sequences, FiniteSets, FiniteSetsExt

CONSTANTS
  BSIZE, NDIRECT,
  FSSIZE,         \* the data blocks are 1 .. FSSIZE, their bits in one bitmap block
  LOGSIZE,
  Threads, Files,
  Sizes,          \* the lengths of a write
  MaxCalls        \* bound: calls of read, write and itrunc together

\* NINDIRECT is BSIZE; with a smaller log filewrite could not write a block (file.c).
ASSUME BlocksAssumption ==
  /\ BSIZE \in Nat \ {0} /\ NDIRECT \in Nat /\ FSSIZE \in Nat /\ LOGSIZE \in Nat /\ LOGSIZE >= 6
  /\ 0 \notin Threads /\ Sizes \subseteq Nat \ {0} /\ MaxCalls \in Nat

MAXFILE == NDIRECT + BSIZE
Blks == 1 .. FSSIZE
BITMAP == 0
Zero == [k \in 0 .. BSIZE - 1 |-> 0]

VARIABLES
  used,   \* the bitmap
  data,   \* the blocks
  ip,     \* the in-memory inodes: size and addrs
  dip,    \* the inodes on disk
  lock,   \* the thread that has each inode's lock, or 0
  f,      \* each thread's file structure: its inode and offset
  w,      \* each thread's filewrite: words left in all, in this chunk, and written in it
  log,    \* the blocks each thread's transaction has logged
  calls,
  want    \* what each file should hold: the words of the writes done

vars == <<used, data, ip, dip, lock, f, w, log, calls, want>>

NoInode == [size |-> 0, addrs |-> [k \in 0 .. NDIRECT |-> 0]]
NoWrite == [left |-> 0, n |-> 0, tot |-> 0, id |-> 0]

Init ==
  /\ used = {} /\ data = [b \in Blks |-> Zero]
  /\ ip = [i \in Files |-> NoInode] /\ dip = ip
  /\ lock = [i \in Files |-> 0]
  /\ f \in [Threads -> [ip : Files, off : {0}]]
  /\ w = [t \in Threads |-> NoWrite] /\ log = [t \in Threads |-> {}]
  /\ calls = 0 /\ want = [i \in Files |-> <<>>]

-----------------------------------------------------------------------------
(* A state s of the disk as the helpers pass it on; s.addr is the result.  *)

\* balloc: the first free block, marked and zeroed; the bitmap and the block are logged.
Balloc_NoBzero(s) == LET b == Min(Blks \ s.used) IN
  [s EXCEPT !.used = @ \cup {b}, !.log = @ \cup {BITMAP, b}, !.addr = b]
Balloc(s) == LET b == Min(Blks \ s.used) IN
  [s EXCEPT !.used = @ \cup {b}, !.data[b] = Zero, !.log = @ \cup {BITMAP, b}, !.addr = b]

\* One entry of addrs, allocated if there is none.
Entry(s, k) ==
  IF s.ip.addrs[k] # 0 THEN [s EXCEPT !.addr = s.ip.addrs[k]]
  ELSE LET a == Balloc(s) IN [a EXCEPT !.ip.addrs[k] = a.addr]

Bmap(s, bn) ==
  IF bn < NDIRECT THEN Entry(s, bn)
  ELSE LET e == Entry(s, NDIRECT)
           k == bn - NDIRECT
           at == e.data[e.addr][k]
       IN  IF at # 0 THEN [e EXCEPT !.addr = at]
           ELSE LET a == Balloc(e)
                IN  [a EXCEPT !.data[e.addr][k] = a.addr, !.log = @ \cup {e.addr}]

Disk(t) == [used |-> used, data |-> data, ip |-> ip[f[t].ip], log |-> log[t], addr |-> 0]

\* The blocks balloc may still have to find for one block of a file; none: it panics.
Room == Cardinality(Blks \ used) >= 2

-----------------------------------------------------------------------------
\* readi: the words off .. off+n-1 of a file, through its block addresses.
AddrOf(i, bn) == IF bn < NDIRECT THEN ip[i].addrs[bn] ELSE data[ip[i].addrs[NDIRECT]][bn - NDIRECT]
Readi(i, off, n) ==
  [k \in 1 .. Min({n, ip[i].size - off}) |-> data[AddrOf(i, (off + k - 1) \div BSIZE)][(off + k - 1) % BSIZE]]

\* fileread moves the offset by what readi returns.
Fileread(t, n) ==
  LET i == f[t].ip IN
  /\ calls < MaxCalls /\ w[t].left = 0 /\ lock[i] = 0
  /\ f' = [f EXCEPT ![t].off = @ + Len(Readi(i, @, n))]
  /\ calls' = calls + 1
  /\ UNCHANGED <<used, data, ip, dip, lock, w, log, want>>

\* filewrite: some blocks at a time, so that a transaction fits the log.
MaxChunk_NoHalf == (LOGSIZE - 1 - 1 - 2) * BSIZE
MaxChunk == ((LOGSIZE - 1 - 1 - 2) \div 2) * BSIZE

Filewrite(t, n) ==
  /\ calls < MaxCalls /\ w[t].left = 0
  /\ w' = [w EXCEPT ![t] = [NoWrite EXCEPT !.left = n, !.id = calls + 1]]
  /\ calls' = calls + 1
  /\ UNCHANGED <<used, data, ip, dip, lock, f, log, want>>

\* begin_op, ilock and the tests of writei; a chunk past MAXFILE ends filewrite with -1.
TooLong(off, n) == off + n > MAXFILE * BSIZE
Chunk(t) ==
  LET i == f[t].ip
      n1 == Min({w[t].left, MaxChunk})
  IN
  /\ w[t].left > 0 /\ w[t].n = 0 /\ lock[i] = 0
  /\ IF TooLong(f[t].off, n1) \/ f[t].off > ip[i].size
     THEN w' = [w EXCEPT ![t] = NoWrite] /\ UNCHANGED lock
     ELSE w' = [w EXCEPT ![t].n = n1] /\ lock' = [lock EXCEPT ![i] = t]
  /\ UNCHANGED <<used, data, ip, dip, f, log, calls, want>>

\* One turn of writei's loop; the words of a write are its number.
WriteiBlock(t) ==
  LET i == f[t].ip
      off == f[t].off + w[t].tot
      m == Min({w[t].n - w[t].tot, BSIZE - (off % BSIZE)})
      s == Bmap(Disk(t), off \div BSIZE)
  IN
  /\ w[t].tot < w[t].n /\ Room
  /\ used' = s.used /\ ip' = [ip EXCEPT ![i] = s.ip]
  /\ data' = [s.data EXCEPT ![s.addr] =
       [k \in DOMAIN @ |-> IF k \in (off % BSIZE) .. (off % BSIZE) + m - 1 THEN w[t].id ELSE @[k]]]
  /\ log' = [log EXCEPT ![t] = s.log \cup {s.addr}]
  /\ w' = [w EXCEPT ![t].tot = @ + m]
  /\ UNCHANGED <<dip, lock, f, calls, want>>

\* The end of the chunk: size and iupdate if the file grew; the offset; iunlock and end_op.
Grown(off, size) == off > size
WriteiEnd(t) ==
  LET i == f[t].ip
      n == w[t].n
      off == f[t].off + n
      grown == Grown(off, ip[i].size)
  IN
  /\ n > 0 /\ w[t].tot = n
  /\ ip' = IF grown THEN [ip EXCEPT ![i].size = off] ELSE ip
  /\ dip' = IF grown THEN [dip EXCEPT ![i] = ip'[i]] ELSE dip
  /\ want' = [want EXCEPT ![i] =
       [k \in 1 .. Max({Len(@), off}) |-> IF k \in off - n + 1 .. off THEN w[t].id ELSE @[k]]]
  /\ f' = [f EXCEPT ![t].off = off]
  /\ w' = [w EXCEPT ![t] = IF w[t].left = n THEN NoWrite
                              ELSE [w[t] EXCEPT !.left = w[t].left - n, !.n = 0, !.tot = 0]]
  /\ lock' = [lock EXCEPT ![i] = 0] /\ log' = [log EXCEPT ![t] = {}]
  /\ UNCHANGED <<used, data, calls>>

\* itrunc, when iput frees a file nobody has open; the inode is then a new file's.
InFile_NoIndirect(i) == {ip[i].addrs[k] : k \in 0 .. NDIRECT}
InFile(i) == {ip[i].addrs[k] : k \in 0 .. NDIRECT} \cup
             (IF ip[i].addrs[NDIRECT] = 0 THEN {} ELSE {data[ip[i].addrs[NDIRECT]][k] : k \in 0 .. BSIZE - 1})
\* bfree of each of them; it panics on one that is free already.
Bfree(S) == S \ {0} \subseteq used /\ used' = used \ S
Itrunc(i) ==
  /\ calls < MaxCalls /\ ip[i].size > 0
  /\ \A t \in Threads : f[t].ip = i => w[t] = NoWrite
  /\ Bfree(InFile(i))
  /\ ip' = [ip EXCEPT ![i] = NoInode] /\ dip' = [dip EXCEPT ![i] = NoInode]
  /\ f' = [t \in Threads |-> IF f[t].ip = i THEN [f[t] EXCEPT !.off = 0] ELSE f[t]]
  /\ want' = [want EXCEPT ![i] = <<>>] /\ calls' = calls + 1
  /\ UNCHANGED <<data, lock, w, log>>

Next ==
  \/ \E t \in Threads : \/ \E n \in Sizes : Fileread(t, n) \/ Filewrite(t, n)
                        \/ Chunk(t) \/ WriteiBlock(t) \/ WriteiEnd(t)
  \/ \E i \in Files : Itrunc(i)
Spec == Init /\ [][Next]_vars

-----------------------------------------------------------------------------
(* Properties                                                              *)

\* The variables keep their types.
TypeOK ==
  /\ used \subseteq Blks
  /\ \A i \in Files : ip[i].size \in 0 .. MAXFILE * BSIZE /\ \A k \in 0 .. NDIRECT : ip[i].addrs[k] \in Blks \cup {0}
  /\ \A t \in Threads : w[t].tot <= w[t].n /\ w[t].n <= w[t].left /\ f[t].off \in Nat

\* A file is an array of words: what readi finds through bmap's addresses, blocks that
\* balloc has recycled included, is what the finished writes have put there.  And it is so
\* on disk: writei calls iupdate only when the file grows, and bmap allocates without it,
\* but no inode is unlocked with a block address that the disk inode does not have.
ReadsBack ==
  \A i \in Files : lock[i] = 0 => Readi(i, 0, ip[i].size) = want[i] /\ dip[i] = ip[i]

Refs(i) == {b \in Blks : \E bn \in 0 .. MAXFILE - 1 : (bn < NDIRECT \/ ip[i].addrs[NDIRECT] # 0) /\ b = AddrOf(i, bn)}
           \cup ({ip[i].addrs[NDIRECT]} \ {0})
\* Every block marked in the bitmap belongs to exactly one file, also while other threads
\* allocate between two blocks of a writei; none is lost and none is free in a file.
EachBlockOnce ==
  /\ TypeOK
  /\ used = UNION {Refs(i) : i \in Files}
  /\ \A i, j \in Files : i # j => Refs(i) \cap Refs(j) = {}

\* "write a few blocks at a time to avoid exceeding the maximum log transaction size"
\* (file.c): one chunk of filewrite, aligned or not, logs less than LOGSIZE blocks.
ChunkFitsLog == \A t \in Threads :
  Cardinality(log[t]) + (IF w[t].n > 0 THEN 1 ELSE 0) < LOGSIZE
=============================================================================
