-------------------------- MODULE BufferCacheProofs --------------------------
(***************************************************************************)
(* The buffer cache keeps one buffer per block and implements BlockStore,  *)
(* for any blocks, processes and number of buffers.  IInv says who may     *)
(* touch a buffer at each point between bget and brelse, what is in the    *)
(* driver's queue, and that what the disk has been sent is still what the  *)
(* buffer holds.                                                           *)
(***************************************************************************)
EXTENDS BufferCache, FiniteSetTheorems, TLAPS

\* The places at which a process has the buffer's sleep lock.
Owning == {"hold", "iderw", "rwsleep", "rwtest"}
Users(i) == {p \in Procs : b[p] = i}

\* A buffer's fields agree with each other, with its users and with the disk.
BufInv(i) ==
  /\ refcnt[i] = Cardinality(Users(i))
  /\ dirty[i] => valid[i]
  /\ valid[i] => blockno[i] # NoBlock
  /\ valid[i] /\ ~dirty[i] /\ ~faulty => data[i] = disk[blockno[i]]

\* A block has one buffer.
UniqueInv == \A i, j \in Bufs : blockno[i] = blockno[j] /\ blockno[i] # NoBlock => i = j

\* What a process may count on at its place: that its buffer stays its block's, that
\* nobody else has the sleep lock it has, and what is left for the disk to do.
ProcInv(p) ==
  /\ b[p] = 0 <=> pc[p] \in {"idle", "panic"}
  /\ b[p] # 0 => blockno[b[p]] # NoBlock
  /\ pc[p] \in Owning => locked[b[p]]
  /\ pc[p] = "hold" => valid[b[p]]
  /\ pc[p] = "iderw" => Busy(b[p])
  /\ pc[p] = "rwsleep" => \E n \in 1 .. Len(idequeue) : idequeue[n] = b[p]
  /\ pc[p] = "rwtest" => valid[b[p]] /\ ~dirty[b[p]]

OwnerInv == \A p, q \in Procs : pc[p] \in Owning /\ pc[q] \in Owning /\ b[p] = b[q] => p = q

\* A queued buffer waits for the disk, and so does the process that has it.
QueueInv ==
  /\ \A n \in 1 .. Len(idequeue) : Busy(idequeue[n])
  /\ \A n \in 1 .. Len(idequeue) : \E p \in Procs : pc[p] = "rwsleep" /\ b[p] = idequeue[n]
  /\ \A m, n \in 1 .. Len(idequeue) : idequeue[m] = idequeue[n] => m = n

\* The disk works on the first request, with the data the buffer still has.
DiskInv ==
  /\ idequeue = <<>> => active = {} /\ sent = {}
  /\ idequeue # <<>> => /\ active = {idequeue[1]}
                        /\ sent = IF dirty[idequeue[1]] THEN {data[idequeue[1]]} ELSE {}

IInv ==
  /\ TypeOK /\ UniqueInv /\ OwnerInv /\ QueueInv /\ DiskInv
  /\ \A i \in Bufs : BufInv(i)
  /\ \A p \in Procs : ProcInv(p)

\* Buffers are numbers above 0, which stands for no buffer.
LEMMA BufFacts ==
  /\ NBUF \in Nat \ {0} /\ 0 \notin Bufs /\ Bufs \subseteq 0 .. NBUF /\ 1 \in Bufs
  /\ NoBlock \notin Blocks /\ IsFiniteSet(Procs) /\ Cardinality(Procs) \in Nat
<1>1. NBUF \in Nat \ {0} /\ NoBlock \notin Blocks /\ IsFiniteSet(Procs)
  BY Zenon, CacheAssumption
<1>2. Cardinality(Procs) \in Nat
  BY Zenon, <1>1, FS_CardinalityType
<1> QED BY <1>1, <1>2 DEF Bufs

\* A buffer has as many users as there are processes at most, and none when the
\* count is zero.
LEMMA UsersFinite ==
  ASSUME NEW i
  PROVE  /\ IsFiniteSet(Users(i)) /\ Cardinality(Users(i)) \in 0 .. Cardinality(Procs)
         /\ Cardinality(Users(i)) = 0 <=> Users(i) = {}
<1>1. Users(i) \subseteq Procs
  BY Zenon DEF Users
<1>2. IsFiniteSet(Users(i)) /\ Cardinality(Users(i)) <= Cardinality(Procs)
  BY Zenon, <1>1, BufFacts, FS_Subset
<1>3. Cardinality(Users(i)) \in Nat /\ (Cardinality(Users(i)) = 0 <=> Users(i) = {})
  BY Zenon, <1>2, FS_CardinalityType, FS_EmptySet
<1> QED BY <1>2, <1>3, BufFacts

\* bget makes p one more user of a buffer.
LEMMA UserComes ==
  ASSUME b \in [Procs -> 0 .. NBUF], NEW p \in Procs, NEW i \in Bufs, b[p] = 0,
         b' = [b EXCEPT ![p] = i]
  PROVE  /\ Cardinality(Users(i)') = Cardinality(Users(i)) + 1
         /\ Cardinality(Users(i)) + 1 \in 0 .. Cardinality(Procs)
         /\ \A j \in Bufs : j # i => Users(j)' = Users(j)
<1>1. Users(i)' = Users(i) \cup {p} /\ p \notin Users(i) /\ Users(i)' \subseteq Procs
  BY Zenon, BufFacts DEF Users
<1>2. \A j \in Bufs : j # i => Users(j)' = Users(j)
  BY Zenon, BufFacts DEF Users
<1>3. Cardinality(Users(i)') = Cardinality(Users(i)) + 1
  <2>1. Cardinality(Users(i) \cup {p}) = Cardinality(Users(i)) + 1
    BY Zenon, <1>1, UsersFinite, FS_AddElement
  <2> QED BY Zenon, <1>1, <2>1
<1>4. Cardinality(Users(i)') <= Cardinality(Procs)
  BY Zenon, <1>1, BufFacts, FS_Subset
<1> QED BY <1>2, <1>3, <1>4, UsersFinite, BufFacts

\* brelse makes p one user less.
LEMMA UserGoes ==
  ASSUME b \in [Procs -> 0 .. NBUF], NEW p \in Procs, NEW i \in Bufs, b[p] = i,
         b' = [b EXCEPT ![p] = 0]
  PROVE  /\ Cardinality(Users(i)') = Cardinality(Users(i)) - 1
         /\ Cardinality(Users(i)) - 1 \in 0 .. Cardinality(Procs)
         /\ \A j \in Bufs : j # i => Users(j)' = Users(j)
<1>1. Users(i)' = Users(i) \ {p} /\ p \in Users(i)
  BY Zenon, BufFacts DEF Users
<1>2. \A j \in Bufs : j # i => Users(j)' = Users(j)
  BY Zenon, BufFacts DEF Users
<1>3. Cardinality(Users(i)') = Cardinality(Users(i)) - 1
  BY ZenonT(60), <1>1, UsersFinite, FS_RemoveElement
<1>4. Cardinality(Users(i)) # 0
  BY Zenon, <1>1, UsersFinite
<1> QED BY <1>2, <1>3, <1>4, UsersFinite, BufFacts

\* brelse's relinking keeps every buffer on the list.
LEMMA ToFrontKeeps ==
  ASSUME AllOnList(lru), NEW i \in Bufs
  PROVE  AllOnList(ToFront(lru, i))
<1> DEFINE at == CHOOSE n \in DOMAIN lru : lru[n] = i
           new == ToFront(lru, i)
<1>1. at \in Bufs /\ lru[at] = i
  BY Zenon DEF AllOnList
<1>2. new = [n \in Bufs |-> IF n = 1 THEN i ELSE IF n <= at THEN lru[n - 1] ELSE lru[n]]
  BY Zenon DEF ToFront, AllOnList
<1> HIDE DEF at, new
<1>3. new \in [Bufs -> Bufs]
  <2>1. \A n \in Bufs : n # 1 => n - 1 \in Bufs
    BY BufFacts DEF Bufs
  <2> QED BY Zenon, <1>2, <2>1 DEF AllOnList
<1>4. ASSUME NEW j \in Bufs PROVE \E n \in Bufs : new[n] = j
  <2>1. PICK n \in Bufs : lru[n] = j
    BY Zenon DEF AllOnList
  <2>2. CASE n = at
    BY Zenon, <1>1, <1>2, <2>1, <2>2, BufFacts
  <2>3. CASE n < at
    <3>1. n + 1 \in Bufs /\ n + 1 # 1 /\ n + 1 <= at /\ (n + 1) - 1 = n
      BY <1>1, <2>3, BufFacts DEF Bufs
    <3>2. new[n + 1] = lru[n]
      BY Zenon, <1>2, <3>1
    <3> QED BY Zenon, <2>1, <3>1, <3>2
  <2>4. CASE n > at
    <3>1. n # 1 /\ ~(n <= at)
      BY <1>1, <2>4 DEF Bufs
    <3> QED BY Zenon, <1>2, <2>1, <3>1
  <2> QED BY <1>1, <2>2, <2>3, <2>4 DEF Bufs
<1> QED BY Zenon, <1>3, <1>4 DEF AllOnList, new

\* A process between bget and brelse has a buffer.
LEMMA HasBuffer ==
  ASSUME IInv, NEW p \in Procs, pc[p] \notin {"idle", "panic"}
  PROVE  /\ TypeOK /\ b[p] \in Bufs /\ blockno[b[p]] \in Blocks
         /\ ProcInv(p) /\ BufInv(b[p])
<1>1. TypeOK /\ ProcInv(p) /\ b[p] \in 0 .. NBUF /\ NBUF \in Nat
  BY Zenon, BufFacts DEF IInv, TypeOK
<1>2. b[p] \in Bufs /\ blockno[b[p]] # NoBlock
  BY <1>1 DEF ProcInv, Bufs
<1>3. blockno[b[p]] \in Blocks /\ BufInv(b[p])
  BY Zenon, <1>1, <1>2 DEF TypeOK, IInv
<1> QED BY Zenon, <1>1, <1>2, <1>3

\* A step that leaves the buffers' fields and users alone keeps BufInv.
LEMMA BufFrame ==
  ASSUME NEW i \in Bufs, BufInv(i), UNCHANGED <<b, faulty, disk>>, refcnt'[i] = refcnt[i],
         dirty'[i] = dirty[i], valid'[i] = valid[i], blockno'[i] = blockno[i], data'[i] = data[i]
  PROVE  BufInv(i)'
BY Zenon DEF BufInv, Users

\* A process whose own place, buffer and lock are left alone keeps what it counts on.
LEMMA ProcFrame ==
  ASSUME NEW q \in Procs, ProcInv(q), pc'[q] = pc[q], b'[q] = b[q],
         b[q] # 0 => /\ blockno'[b[q]] = blockno[b[q]]
                     /\ pc[q] \in Owning =>
                          /\ locked'[b[q]] = locked[b[q]] /\ valid'[b[q]] = valid[b[q]]
                          /\ dirty'[b[q]] = dirty[b[q]],
         pc[q] = "rwsleep" => UNCHANGED idequeue
  PROVE  ProcInv(q)'
BY Zenon DEF ProcInv, Busy, Owning

\* The queue, and what the disk does, are not touched by a step that leaves the
\* queued buffers and their processes alone.
LEMMA QueueFrame ==
  ASSUME IInv, UNCHANGED <<idequeue, active, sent>>,
         \A q \in Procs : pc[q] = "rwsleep" =>
           /\ pc'[q] = "rwsleep" /\ b'[q] = b[q]
           /\ valid'[b[q]] = valid[b[q]] /\ dirty'[b[q]] = dirty[b[q]] /\ data'[b[q]] = data[b[q]]
  PROVE  QueueInv' /\ DiskInv'
<1>1. QueueInv /\ DiskInv /\ idequeue \in Seq(Bufs)
  BY Zenon DEF IInv, TypeOK
<1>2. ASSUME NEW n \in 1 .. Len(idequeue)
      PROVE  /\ \E p \in Procs : pc'[p] = "rwsleep" /\ b'[p] = idequeue[n]
             /\ valid'[idequeue[n]] = valid[idequeue[n]] /\ dirty'[idequeue[n]] = dirty[idequeue[n]]
             /\ data'[idequeue[n]] = data[idequeue[n]]
  BY <1>1 DEF QueueInv
<1>3. idequeue # <<>> => 1 \in 1 .. Len(idequeue)
  BY <1>1
<1>4. QueueInv'
  BY ZenonT(40), <1>1, <1>2 DEF QueueInv, Busy
<1>5. DiskInv'
  BY Zenon, <1>1, <1>2, <1>3 DEF DiskInv
<1> QED BY Zenon, <1>4, <1>5

\* bget finds the block in a buffer.
LEMMA BgetHit ==
  ASSUME IInv, NEW p \in Procs, NEW k \in Blocks, NEW i \in Bufs, pc[p] = "idle",
         blockno[i] = k, b' = Set(b, p, i), refcnt' = [refcnt EXCEPT ![i] = @ + 1],
         pc' = Set(pc, p, "acquire"),
         UNCHANGED <<blockno, valid, dirty, data, locked, lru, idequeue, active, sent, disk, faulty>>
  PROVE  IInv'
<1>1. TypeOK /\ b[p] = 0 /\ refcnt[i] = Cardinality(Users(i)) /\ blockno[i] # NoBlock
  BY Zenon, BufFacts DEF IInv, ProcInv, BufInv
<1>2. /\ pc'[p] = "acquire" /\ b'[p] = i /\ refcnt'[i] = refcnt[i] + 1
      /\ \A q \in Procs : q # p => pc'[q] = pc[q] /\ b'[q] = b[q]
      /\ \A j \in Bufs : j # i => refcnt'[j] = refcnt[j]
  BY Zenon, <1>1 DEF TypeOK, Set
<1>3. /\ refcnt'[i] = Cardinality(Users(i)') /\ refcnt'[i] \in 0 .. Cardinality(Procs)
      /\ \A j \in Bufs : j # i => Users(j)' = Users(j)
  <2>1. b \in [Procs -> 0 .. NBUF] /\ b' = [b EXCEPT ![p] = i]
    BY Zenon, <1>1 DEF TypeOK, Set
  <2>2. /\ Cardinality(Users(i)') = Cardinality(Users(i)) + 1
        /\ Cardinality(Users(i)) + 1 \in 0 .. Cardinality(Procs)
        /\ \A j \in Bufs : j # i => Users(j)' = Users(j)
    BY Zenon, <1>1, <2>1, UserComes
  <2> QED BY Zenon, <1>1, <1>2, <2>2
<1>4. TypeOK'
  <2>1. refcnt' \in [Bufs -> 0 .. Cardinality(Procs)]
    BY Zenon, <1>1, <1>2, <1>3 DEF TypeOK
  <2>2. pc' \in [Procs -> PC] /\ b' \in [Procs -> 0 .. NBUF]
    BY Zenon, <1>1, BufFacts DEF TypeOK, Set, PC
  <2> QED BY Zenon, <1>1, <2>1, <2>2 DEF TypeOK
<1>5. UniqueInv'
  BY Zenon DEF IInv, UniqueInv
<1>6. OwnerInv'
  BY ZenonT(40), <1>2 DEF IInv, OwnerInv, Owning
<1>7. QueueInv' /\ DiskInv'
  BY Zenon, <1>1, <1>2, QueueFrame
<1>8. ASSUME NEW j \in Bufs PROVE BufInv(j)'
  <2>1. BufInv(j)
    BY Zenon DEF IInv
  <2> QED BY Zenon, <1>2, <1>3, <2>1 DEF BufInv
<1>9. ASSUME NEW q \in Procs PROVE ProcInv(q)'
  <2>1. CASE q = p
    BY Zenon, <1>1, <1>2, <2>1, BufFacts DEF ProcInv, Owning
  <2>2. CASE q # p
    BY Zenon, <1>2, <2>2, ProcFrame DEF IInv
  <2> QED BY Zenon, <2>1, <2>2
<1> QED BY Zenon, <1>4, <1>5, <1>6, <1>7, <1>8, <1>9 DEF IInv

\* bget gives a clean buffer that nobody uses to a block that has none.
LEMMA BgetRecycle ==
  ASSUME IInv, NEW p \in Procs, NEW k \in Blocks, NEW i \in Bufs, pc[p] = "idle",
         \A j \in Bufs : blockno[j] # k, Recyclable(i), b' = Set(b, p, i),
         blockno' = Set(blockno, i, k), valid' = Set(valid, i, FALSE),
         dirty' = Set(dirty, i, FALSE), refcnt' = Set(refcnt, i, 1),
         pc' = Set(pc, p, "acquire"),
         UNCHANGED <<data, locked, lru, idequeue, active, sent, disk, faulty>>
  PROVE  IInv'
<1>1. /\ TypeOK /\ b[p] = 0 /\ refcnt[i] = 0 /\ Cardinality(Users(i)) = 0 /\ k # NoBlock
      /\ \A q \in Procs : b[q] # i
  <2>1. TypeOK /\ b[p] = 0 /\ refcnt[i] = 0 /\ Cardinality(Users(i)) = 0 /\ k # NoBlock
    BY Zenon, BufFacts DEF IInv, ProcInv, BufInv, Recyclable
  <2>2. Users(i) = {}
    BY Zenon, <2>1, UsersFinite
  <2> QED BY Zenon, <2>1, <2>2 DEF Users
<1>2. /\ pc'[p] = "acquire" /\ b'[p] = i /\ refcnt'[i] = 1 /\ blockno'[i] = k
      /\ ~valid'[i] /\ ~dirty'[i]
      /\ \A q \in Procs : q # p => pc'[q] = pc[q] /\ b'[q] = b[q]
      /\ \A j \in Bufs : j # i =>
           /\ refcnt'[j] = refcnt[j] /\ blockno'[j] = blockno[j]
           /\ valid'[j] = valid[j] /\ dirty'[j] = dirty[j]
  BY Zenon, <1>1 DEF TypeOK, Set
<1>3. /\ refcnt'[i] = Cardinality(Users(i)') /\ refcnt'[i] \in 0 .. Cardinality(Procs)
      /\ \A j \in Bufs : j # i => Users(j)' = Users(j)
  <2>1. b \in [Procs -> 0 .. NBUF] /\ b' = [b EXCEPT ![p] = i]
    BY Zenon, <1>1 DEF TypeOK, Set
  <2>2. /\ Cardinality(Users(i)') = Cardinality(Users(i)) + 1
        /\ Cardinality(Users(i)) + 1 \in 0 .. Cardinality(Procs)
        /\ \A j \in Bufs : j # i => Users(j)' = Users(j)
    BY Zenon, <1>1, <2>1, UserComes
  <2> QED BY <1>1, <1>2, <2>2
<1>4. TypeOK'
  <2>1. refcnt' \in [Bufs -> 0 .. Cardinality(Procs)]
    BY Zenon, <1>1, <1>2, <1>3 DEF TypeOK, Set
  <2>2. pc' \in [Procs -> PC] /\ b' \in [Procs -> 0 .. NBUF]
    BY Zenon, <1>1, BufFacts DEF TypeOK, Set, PC
  <2>3. /\ blockno' \in [Bufs -> Blocks \cup {NoBlock}] /\ valid' \in [Bufs -> BOOLEAN]
        /\ dirty' \in [Bufs -> BOOLEAN]
    BY Zenon, <1>1 DEF TypeOK, Set
  <2> QED BY Zenon, <1>1, <2>1, <2>2, <2>3 DEF TypeOK
<1>5. UniqueInv'
  <2>1. \A j, l \in Bufs : blockno[j] = blockno[l] /\ blockno[j] # NoBlock => j = l
    BY Zenon DEF IInv, UniqueInv
  <2>2. \A j \in Bufs : j # i => blockno'[j] = blockno[j] /\ blockno'[j] # k
    BY Zenon, <1>2
  <2> QED BY <1>2, <2>1, <2>2 DEF UniqueInv
<1>6. OwnerInv'
  BY <1>2 DEF IInv, OwnerInv, Owning
<1>7. QueueInv' /\ DiskInv'
  <2>1. ASSUME NEW q \in Procs, pc[q] = "rwsleep" PROVE b[q] \in Bufs /\ b[q] # i /\ q # p
    BY <1>1, <2>1 DEF IInv, ProcInv, TypeOK, Bufs
  <2> QED BY ZenonT(60), <1>2, <2>1, QueueFrame
<1>8. ASSUME NEW j \in Bufs PROVE BufInv(j)'
  <2>1. BufInv(j)
    BY Zenon DEF IInv
  <2> QED BY Zenon, <1>1, <1>2, <1>3, <2>1 DEF BufInv
<1>9. ASSUME NEW q \in Procs PROVE ProcInv(q)'
  <2>1. CASE q = p
    BY ZenonT(60), <1>1, <1>2, <2>1, BufFacts DEF ProcInv, Owning
  <2>2. CASE q # p
    <3>1. b[q] # 0 => b[q] \in Bufs /\ b[q] # i
      BY <1>1 DEF TypeOK, Bufs
    <3> QED BY Zenon, <1>2, <2>2, <3>1, ProcFrame DEF IInv
  <2> QED BY Zenon, <2>1, <2>2
<1> QED BY Zenon, <1>4, <1>5, <1>6, <1>7, <1>8, <1>9 DEF IInv

\* bget, whichever way it ends: the scan of the list sees every buffer.
LEMMA BgetKeeps ==
  ASSUME IInv, NEW p \in Procs, NEW k \in Blocks, Bget(p, k)
  PROVE  IInv'
<1> DEFINE cached == {i \in Bufs : Holds(lru[i], k)}
           unused == {i \in Bufs : Recyclable(lru[i])}
<1>1. TypeOK /\ pc[p] = "idle" /\ AllOnList(lru)
  BY Zenon DEF IInv, TypeOK, Bget
<1>2. ASSUME cached = {} PROVE \A j \in Bufs : blockno[j] # k
  BY Zenon, <1>1, <1>2 DEF AllOnList, Holds
<1>3. CASE \E i \in cached :
             /\ b' = Set(b, p, lru[i]) /\ refcnt' = [refcnt EXCEPT ![lru[i]] = @ + 1]
             /\ pc' = Set(pc, p, "acquire") /\ UNCHANGED <<blockno, valid, dirty>>
  <2>1. PICK i \in cached :
          /\ b' = Set(b, p, lru[i]) /\ refcnt' = [refcnt EXCEPT ![lru[i]] = @ + 1]
          /\ pc' = Set(pc, p, "acquire") /\ UNCHANGED <<blockno, valid, dirty>>
    BY Zenon, <1>3
  <2>2. lru[i] \in Bufs /\ blockno[lru[i]] = k
    BY Zenon, <1>1 DEF Holds, AllOnList
  <2>3. UNCHANGED <<data, locked, lru, idequeue, active, sent, disk, faulty>>
    BY Zenon DEF Bget
  <2> QED BY Zenon, <1>1, <2>1, <2>2, <2>3, BgetHit
<1>4. CASE /\ cached = {}
           /\ \E i \in unused :
                /\ b' = Set(b, p, lru[i]) /\ blockno' = Set(blockno, lru[i], k)
                /\ valid' = Set(valid, lru[i], FALSE) /\ dirty' = Set(dirty, lru[i], FALSE)
                /\ refcnt' = Set(refcnt, lru[i], 1) /\ pc' = Set(pc, p, "acquire")
  <2>1. PICK i \in unused :
          /\ b' = Set(b, p, lru[i]) /\ blockno' = Set(blockno, lru[i], k)
          /\ valid' = Set(valid, lru[i], FALSE) /\ dirty' = Set(dirty, lru[i], FALSE)
          /\ refcnt' = Set(refcnt, lru[i], 1) /\ pc' = Set(pc, p, "acquire")
    BY Zenon, <1>4
  <2>2. lru[i] \in Bufs /\ Recyclable(lru[i])
    BY Zenon, <1>1 DEF AllOnList
  <2>3. UNCHANGED <<data, locked, lru, idequeue, active, sent, disk, faulty>>
    BY Zenon DEF Bget
  <2> QED BY Zenon, <1>1, <1>2, <1>4, <2>1, <2>2, <2>3, BgetRecycle
<1>5. CASE pc' = Set(pc, p, "panic") /\ UNCHANGED <<b, blockno, refcnt, valid, dirty>>
  <2>1. UNCHANGED <<b, blockno, refcnt, valid, dirty, data, locked, lru, idequeue, active, sent,
                    disk, faulty>>
    BY Zenon, <1>5 DEF Bget
  <2>2. pc'[p] = "panic" /\ b[p] = 0 /\ \A q \in Procs : q # p => pc'[q] = pc[q]
    BY Zenon, <1>1, <1>5 DEF TypeOK, Set, IInv, ProcInv
  <2>3. TypeOK'
    <3>1. pc' \in [Procs -> PC]
      BY Zenon, <1>1, <1>5 DEF TypeOK, Set, PC
    <3> QED BY Zenon, <1>1, <2>1, <3>1 DEF TypeOK
  <2>4. UniqueInv'
    BY Zenon, <2>1 DEF IInv, UniqueInv
  <2>5. OwnerInv'
    BY Zenon, <2>1, <2>2 DEF IInv, OwnerInv, Owning
  <2>6. QueueInv' /\ DiskInv'
    BY Zenon, <1>1, <2>1, <2>2, QueueFrame
  <2>7. ASSUME NEW j \in Bufs PROVE BufInv(j)'
    BY Zenon, <2>1, BufFrame DEF IInv
  <2>8. ASSUME NEW q \in Procs PROVE ProcInv(q)'
    <3>1. CASE q = p
      BY Zenon, <2>1, <2>2, <3>1 DEF ProcInv, Owning
    <3>2. CASE q # p
      BY Zenon, <2>1, <2>2, <3>2, ProcFrame DEF IInv
    <3> QED BY Zenon, <3>1, <3>2
  <2> QED BY Zenon, <2>3, <2>4, <2>5, <2>6, <2>7, <2>8 DEF IInv
<1> QED BY Zenon, <1>3, <1>4, <1>5 DEF Bget

\* acquiresleep takes the lock when nobody has it, and sleeps otherwise.
LEMMA AcquireSleepKeeps ==
  ASSUME IInv, NEW p \in Procs, AcquireSleep(p)
  PROVE  IInv'
<1>1. /\ TypeOK /\ pc[p] = "acquire" /\ b[p] \in Bufs /\ blockno[b[p]] # NoBlock
      /\ dirty[b[p]] => valid[b[p]]
  BY Zenon, HasBuffer, BufFacts DEF AcquireSleep, BufInv
<1>2. UNCHANGED <<blockno, refcnt, valid, dirty, data, lru, idequeue, active, sent, b, disk, faulty>>
  BY Zenon DEF AcquireSleep
<1>3. \A q \in Procs : q # p => pc'[q] = pc[q]
  BY Zenon, <1>1 DEF AcquireSleep, TypeOK, Set
<1>4. /\ \/ pc'[p] = "locksleep" /\ UNCHANGED locked
         \/ /\ ~locked[b[p]] /\ locked'[b[p]] /\ pc'[p] = IF valid[b[p]] THEN "hold" ELSE "iderw"
            /\ \A i \in Bufs : i # b[p] => locked'[i] = locked[i]
      /\ pc' \in [Procs -> PC] /\ locked' \in [Bufs -> BOOLEAN]
  BY ZenonT(60), <1>1 DEF AcquireSleep, TypeOK, Set, PC
<1>5. TypeOK'
  BY Zenon, <1>1, <1>2, <1>4 DEF TypeOK
<1>6. UniqueInv'
  BY Zenon, <1>2 DEF IInv, UniqueInv
<1>7. OwnerInv'
  <2>1. \A q \in Procs : pc[q] \in Owning => locked[b[q]]
    BY Zenon DEF IInv, ProcInv
  <2>2. pc'[p] \in Owning => \A q \in Procs : pc[q] \in Owning => b[q] # b[p]
    BY Zenon, <1>4, <2>1 DEF Owning
  <2>3. \A q, r \in Procs : pc[q] \in Owning /\ pc[r] \in Owning /\ b[q] = b[r] => q = r
    BY Zenon DEF IInv, OwnerInv
  <2> QED BY Zenon, <1>2, <1>3, <2>2, <2>3 DEF OwnerInv
<1>8. QueueInv' /\ DiskInv'
  BY Zenon, <1>1, <1>2, <1>3, QueueFrame
<1>9. ASSUME NEW j \in Bufs PROVE BufInv(j)'
  BY Zenon, <1>2, BufFrame DEF IInv
<1>10. ASSUME NEW q \in Procs PROVE ProcInv(q)'
  <2>1. ProcInv(q)
    BY Zenon DEF IInv
  <2>2. CASE q = p
    BY Zenon, <1>1, <1>2, <1>4, <2>1, <2>2 DEF ProcInv, Owning, Busy
  <2>3. CASE q # p
    <3>1. b[q] # 0 => b[q] \in Bufs
      BY <1>1 DEF TypeOK, Bufs
    <3>2. pc[q] \in Owning => locked[b[q]] /\ b[q] # 0
      BY Zenon, <2>1 DEF ProcInv, Owning
    <3>3. pc[q] \in Owning => locked'[b[q]] = locked[b[q]]
      BY Zenon, <1>4, <3>1, <3>2
    <3> QED BY Zenon, <1>2, <1>3, <2>1, <2>3, <3>3, ProcFrame
  <2> QED BY Zenon, <2>2, <2>3
<1> QED BY Zenon, <1>5, <1>6, <1>7, <1>8, <1>9, <1>10 DEF IInv

\* A change of the block by the process that has the buffer's lock, left to the log or
\* followed by bwrite.
LEMMA WriteKeeps ==
  ASSUME IInv, NEW p \in Procs, NEW v \in Vals, LogWrite(p, v) \/ Bwrite(p, v)
  PROVE  IInv'
<1>1. TypeOK /\ pc[p] = "hold" /\ b[p] \in Bufs /\ valid[b[p]]
  BY Zenon, HasBuffer DEF LogWrite, Bwrite, ProcInv
<1>2. UNCHANGED <<blockno, refcnt, valid, locked, lru, idequeue, active, sent, b, disk, faulty>>
  BY Zenon DEF LogWrite, Bwrite
<1>3. data' = Set(data, b[p], v) /\ dirty' = Set(dirty, b[p], TRUE)
  BY Zenon DEF LogWrite, Bwrite
<1>4. /\ dirty'[b[p]]
      /\ \A i \in Bufs : i # b[p] => data'[i] = data[i] /\ dirty'[i] = dirty[i]
      /\ data' \in [Bufs -> Vals] /\ dirty' \in [Bufs -> BOOLEAN]
  BY Zenon, <1>1, <1>3 DEF TypeOK, Set
<1>5. /\ pc'[p] \in {"hold", "iderw"} /\ \A q \in Procs : q # p => pc'[q] = pc[q]
      /\ pc' \in [Procs -> PC]
  BY Zenon, <1>1 DEF TypeOK, LogWrite, Bwrite, Set, PC
<1>6. \A q \in Procs : q # p /\ pc[q] \in Owning => b[q] # b[p] /\ b[q] \in Bufs
  BY <1>1 DEF IInv, OwnerInv, ProcInv, Owning, TypeOK, Bufs
<1>7. TypeOK'
  BY Zenon, <1>1, <1>2, <1>4, <1>5 DEF TypeOK
<1>8. UniqueInv'
  BY Zenon, <1>2 DEF IInv, UniqueInv
<1>9. OwnerInv'
  BY ZenonT(60), <1>1, <1>2, <1>5 DEF IInv, OwnerInv, Owning
<1>10. QueueInv' /\ DiskInv'
  <2>1. \A q \in Procs : pc[q] = "rwsleep" => q # p /\ b[q] # b[p] /\ b[q] \in Bufs
    BY Zenon, <1>1, <1>6 DEF Owning
  <2> QED BY Zenon, <1>2, <1>4, <1>5, <2>1, QueueFrame
<1>11. ASSUME NEW j \in Bufs PROVE BufInv(j)'
  <2>1. BufInv(j)
    BY Zenon DEF IInv
  <2>2. CASE j = b[p]
    BY Zenon, <1>1, <1>2, <1>4, <2>1, <2>2 DEF BufInv, Users
  <2>3. CASE j # b[p]
    BY Zenon, <1>2, <1>4, <2>1, <2>3, BufFrame
  <2> QED BY Zenon, <2>2, <2>3
<1>12. ASSUME NEW q \in Procs PROVE ProcInv(q)'
  <2>1. ProcInv(q)
    BY Zenon DEF IInv
  <2>2. CASE q = p
    BY Zenon, <1>1, <1>2, <1>4, <1>5, <2>1, <2>2 DEF ProcInv, Owning, Busy
  <2>3. CASE q # p
    BY ZenonT(60), <1>2, <1>4, <1>5, <1>6, <2>1, <2>3, ProcFrame
  <2> QED BY Zenon, <2>2, <2>3
<1> QED BY Zenon, <1>7, <1>8, <1>9, <1>10, <1>11, <1>12 DEF IInv

\* releasesleep: the process gives the lock up and those who wait for it try again.
LEMMA ReleaseSleepKeeps ==
  ASSUME IInv, NEW p \in Procs, ReleaseSleep(p)
  PROVE  IInv'
<1>1. TypeOK /\ pc[p] = "hold" /\ b[p] \in Bufs /\ blockno[b[p]] # NoBlock
  BY Zenon, HasBuffer, BufFacts DEF ReleaseSleep
<1>2. UNCHANGED <<blockno, refcnt, valid, dirty, data, lru, idequeue, active, sent, b, disk, faulty>>
  BY Zenon DEF ReleaseSleep
<1>3. /\ pc'[p] = "deref"
      /\ \A q \in Procs : q # p =>
           pc'[q] = IF pc[q] = "locksleep" /\ b[q] = b[p] THEN "acquire" ELSE pc[q]
      /\ pc' \in [Procs -> PC]
  BY Zenon, <1>1 DEF TypeOK, ReleaseSleep, Wakeup, Set, PC
<1>4. /\ \A i \in Bufs : i # b[p] => locked'[i] = locked[i]
      /\ locked' \in [Bufs -> BOOLEAN]
  BY Zenon, <1>1 DEF TypeOK, ReleaseSleep, Set
<1>5. \A q \in Procs : pc'[q] \in Owning =>
        q # p /\ pc'[q] = pc[q] /\ b[q] # b[p] /\ b[q] \in Bufs
  <2>1. \A q \in Procs : pc'[q] \in Owning => q # p /\ pc'[q] = pc[q]
    BY Zenon, <1>3 DEF Owning
  <2>2. \A q \in Procs : pc[q] \in Owning /\ b[q] = b[p] => q = p
    BY Zenon, <1>1 DEF IInv, OwnerInv, Owning
  <2>3. \A q \in Procs : pc[q] \in Owning => b[q] \in Bufs
    BY Zenon, HasBuffer DEF Owning
  <2> QED BY Zenon, <2>1, <2>2, <2>3
<1>6. TypeOK'
  BY Zenon, <1>1, <1>2, <1>3, <1>4 DEF TypeOK
<1>7. UniqueInv'
  BY Zenon, <1>2 DEF IInv, UniqueInv
<1>8. OwnerInv'
  BY Zenon, <1>2, <1>5 DEF IInv, OwnerInv
<1>9. QueueInv' /\ DiskInv'
  BY Zenon, <1>1, <1>2, <1>3, QueueFrame
<1>10. ASSUME NEW j \in Bufs PROVE BufInv(j)'
  BY Zenon, <1>2, BufFrame DEF IInv
<1>11. ASSUME NEW q \in Procs PROVE ProcInv(q)'
  <2>1. ProcInv(q)
    BY Zenon DEF IInv
  <2>2. CASE pc'[q] \in Owning
    BY Zenon, <1>2, <1>4, <1>5, <2>1, <2>2, ProcFrame
  <2>3. CASE pc'[q] \notin Owning
    <3>1. pc'[q] \notin {"hold", "iderw", "rwsleep", "rwtest"}
      BY Zenon, <2>3 DEF Owning
    <3>2. b'[q] = 0 <=> pc'[q] \in {"idle", "panic"}
      BY Zenon, <1>1, <1>2, <1>3, <2>1, BufFacts DEF ProcInv
    <3> QED BY Zenon, <1>2, <2>1, <2>3, <3>1, <3>2 DEF ProcInv
  <2> QED BY Zenon, <2>2, <2>3
<1> QED BY Zenon, <1>6, <1>7, <1>8, <1>9, <1>10, <1>11 DEF IInv

\* brelse: one user less, and the list keeps every buffer.
LEMMA BrelseKeeps ==
  ASSUME IInv, NEW p \in Procs, Brelse(p)
  PROVE  IInv'
<1>1. PICK i \in Bufs : b[p] = i
  BY Zenon, HasBuffer DEF Brelse
<1>2. TypeOK /\ pc[p] = "deref" /\ \A j \in Bufs : refcnt[j] = Cardinality(Users(j))
  BY Zenon DEF IInv, Brelse, BufInv
<1>3. UNCHANGED <<blockno, valid, dirty, data, locked, idequeue, active, sent, disk, faulty>>
  BY Zenon DEF Brelse
<1>4. /\ pc'[p] = "idle" /\ b'[p] = 0 /\ refcnt'[i] = refcnt[i] - 1
      /\ \A q \in Procs : q # p => pc'[q] = pc[q] /\ b'[q] = b[q]
      /\ \A j \in Bufs : j # i => refcnt'[j] = refcnt[j]
  BY Zenon, <1>1, <1>2 DEF Brelse, TypeOK, Set
<1>5. /\ refcnt'[i] \in 0 .. Cardinality(Procs)
      /\ \A j \in Bufs : refcnt'[j] = Cardinality(Users(j)')
  <2>1. b \in [Procs -> 0 .. NBUF] /\ b' = [b EXCEPT ![p] = 0]
    BY Zenon, <1>2 DEF TypeOK, Brelse, Set
  <2>2. /\ Cardinality(Users(i)') = Cardinality(Users(i)) - 1
        /\ Cardinality(Users(i)) - 1 \in 0 .. Cardinality(Procs)
        /\ \A j \in Bufs : j # i => Users(j)' = Users(j)
    BY Zenon, <1>1, <2>1, UserGoes
  <2> QED BY Zenon, <1>2, <1>4, <2>2
<1>6. TypeOK'
  <2>1. refcnt' \in [Bufs -> 0 .. Cardinality(Procs)]
    BY Zenon, <1>1, <1>2, <1>4, <1>5 DEF TypeOK, Brelse
  <2>2. pc' \in [Procs -> PC] /\ b' \in [Procs -> 0 .. NBUF]
    BY <1>2, BufFacts DEF TypeOK, Brelse, Set, PC
  <2>3. AllOnList(lru')
    BY Zenon, <1>1, <1>2, ToFrontKeeps DEF TypeOK, Brelse
  <2> QED BY Zenon, <1>2, <1>3, <2>1, <2>2, <2>3 DEF TypeOK
<1>7. UniqueInv'
  BY Zenon, <1>3 DEF IInv, UniqueInv
<1>8. OwnerInv'
  BY <1>4 DEF IInv, OwnerInv, Owning
<1>9. QueueInv' /\ DiskInv'
  BY Zenon, <1>2, <1>3, <1>4, QueueFrame
<1>10. ASSUME NEW j \in Bufs PROVE BufInv(j)'
  <2>1. BufInv(j)
    BY Zenon DEF IInv
  <2> QED BY Zenon, <1>3, <1>5, <2>1 DEF BufInv
<1>11. ASSUME NEW q \in Procs PROVE ProcInv(q)'
  <2>1. CASE q = p
    BY Zenon, <1>4, <2>1 DEF ProcInv, Owning
  <2>2. CASE q # p
    BY Zenon, <1>3, <1>4, <2>2, ProcFrame DEF IInv
  <2> QED BY Zenon, <2>1, <2>2
<1> QED BY Zenon, <1>6, <1>7, <1>8, <1>9, <1>10, <1>11 DEF IInv

\* iderw's sanity checks never fail, and it queues a buffer that is not queued.
LEMMA IderwKeeps ==
  ASSUME IInv, NEW p \in Procs, Iderw(p)
  PROVE  IInv'
<1>1. PICK i \in Bufs : b[p] = i
  BY Zenon, HasBuffer DEF Iderw
<1>2. /\ TypeOK /\ pc[p] = "iderw" /\ ProcInv(p) /\ locked[i] /\ Busy(i)
      /\ idequeue \in Seq(Bufs) /\ Len(idequeue) \in Nat
  <2>1. TypeOK /\ pc[p] = "iderw" /\ ProcInv(p)
    BY Zenon DEF IInv, Iderw
  <2>2. idequeue \in Seq(Bufs) /\ Len(idequeue) \in Nat
    BY <2>1 DEF TypeOK
  <2> QED BY Zenon, <1>1, <2>1, <2>2 DEF ProcInv, Owning
<1>3. UNCHANGED <<blockno, refcnt, valid, dirty, data, locked, lru, b, disk, faulty>>
  BY Zenon DEF Iderw, bufvars
<1>4. /\ idequeue' = Append(idequeue, i) /\ pc' = Set(pc, p, "rwsleep")
      /\ idequeue = <<>> => active' = {i} /\ sent' = IF dirty[i] THEN {data[i]} ELSE {}
      /\ idequeue # <<>> => UNCHANGED <<active, sent>>
  BY Zenon, <1>1, <1>2 DEF Iderw, Idestart
<1>5. /\ pc'[p] = "rwsleep" /\ \A q \in Procs : q # p => pc'[q] = pc[q]
      /\ pc' \in [Procs -> PC]
  BY Zenon, <1>2, <1>4 DEF TypeOK, Set, PC
<1>6. /\ idequeue' \in Seq(Bufs) /\ Len(idequeue') = Len(idequeue) + 1 /\ idequeue' # <<>>
      /\ \A n \in 1 .. Len(idequeue) : idequeue'[n] = idequeue[n]
      /\ idequeue'[Len(idequeue) + 1] = i
  BY <1>2, <1>4
<1>7. \A n \in 1 .. Len(idequeue') :
        n = Len(idequeue) + 1 \/ (n \in 1 .. Len(idequeue) /\ idequeue'[n] = idequeue[n])
  BY <1>2, <1>6
<1>8. Len(idequeue) + 1 \in 1 .. Len(idequeue') /\ 1 .. Len(idequeue) \subseteq 1 .. Len(idequeue')
  BY <1>2, <1>6
<1>9. \A n \in 1 .. Len(idequeue) : idequeue[n] # i
  <2>1. \A q \in Procs : pc[q] = "rwsleep" => b[q] # i
    BY Zenon, <1>1, <1>2 DEF IInv, OwnerInv, Owning
  <2> QED BY Zenon, <2>1 DEF IInv, QueueInv
<1>10. TypeOK'
  <2>1. active' \subseteq Bufs /\ sent' \subseteq Vals
    BY Zenon, <1>2, <1>4 DEF TypeOK
  <2> QED BY Zenon, <1>2, <1>3, <1>5, <1>6, <2>1 DEF TypeOK
<1>11. UniqueInv'
  BY Zenon, <1>3 DEF IInv, UniqueInv
<1>12. OwnerInv'
  <2>1. \A q \in Procs : pc'[q] \in Owning => pc[q] \in Owning
    BY Zenon, <1>2, <1>5 DEF Owning
  <2> QED BY Zenon, <1>3, <2>1 DEF IInv, OwnerInv
<1>13. QueueInv'
  <2>1. QueueInv
    BY Zenon DEF IInv
  <2>2. \A n \in 1 .. Len(idequeue') : ~valid'[idequeue'[n]] \/ dirty'[idequeue'[n]]
    BY Zenon, <1>2, <1>3, <1>6, <1>7, <2>1 DEF QueueInv, Busy
  <2>3. \A n \in 1 .. Len(idequeue') : \E q \in Procs : pc'[q] = "rwsleep" /\ b'[q] = idequeue'[n]
    BY SMTT(30), <1>1, <1>2, <1>3, <1>5, <1>6, <1>7, <2>1 DEF QueueInv
  <2>4. \A m, n \in 1 .. Len(idequeue') : idequeue'[m] = idequeue'[n] => m = n
    BY <1>6, <1>7, <1>9, <2>1 DEF QueueInv
  <2> QED BY Zenon, <2>2, <2>3, <2>4 DEF QueueInv, Busy
<1>14. DiskInv'
  <2>1. DiskInv
    BY Zenon DEF IInv
  <2>2. CASE idequeue = <<>>
    <3>1. idequeue'[1] = i
      BY <1>6, <2>2
    <3> QED BY Zenon, <1>3, <1>4, <1>6, <2>2, <3>1 DEF DiskInv
  <2>3. CASE idequeue # <<>>
    <3>1. idequeue'[1] = idequeue[1]
      BY <1>2, <1>6, <2>3
    <3> QED BY Zenon, <1>3, <1>4, <1>6, <2>1, <2>3, <3>1 DEF DiskInv
  <2> QED BY Zenon, <2>2, <2>3
<1>15. ASSUME NEW j \in Bufs PROVE BufInv(j)'
  BY Zenon, <1>3, BufFrame DEF IInv
<1>16. ASSUME NEW q \in Procs PROVE ProcInv(q)'
  <2>1. ProcInv(q)
    BY Zenon DEF IInv
  <2>2. CASE q = p
    BY Zenon, <1>1, <1>2, <1>3, <1>5, <1>6, <1>8, <2>1, <2>2 DEF ProcInv, Owning
  <2>3. CASE q # p
    <3>1. pc'[q] = "rwsleep" => \E n \in 1 .. Len(idequeue') : idequeue'[n] = b'[q]
      BY ZenonT(60), <1>3, <1>5, <1>6, <1>8, <2>1, <2>3 DEF ProcInv
    <3> QED BY Zenon, <1>3, <1>5, <2>1, <2>3, <3>1 DEF ProcInv, Busy
  <2> QED BY Zenon, <2>2, <2>3
<1> QED BY Zenon, <1>10, <1>11, <1>12, <1>13, <1>14, <1>15, <1>16 DEF IInv

\* A process that iderw's sleep returns to finds its request served.
LEMMA IderwTestKeeps ==
  ASSUME IInv, NEW p \in Procs, IderwTest(p)
  PROVE  IInv'
<1>1. TypeOK /\ pc[p] = "rwtest" /\ b[p] \in Bufs /\ valid[b[p]] /\ ~dirty[b[p]]
  BY Zenon, HasBuffer DEF IderwTest, ProcInv
<1>2. UNCHANGED <<blockno, refcnt, valid, dirty, data, locked, lru, idequeue, active, sent, b, disk,
                  faulty>>
  BY Zenon DEF IderwTest, bufvars
<1>3. /\ pc'[p] = "hold" /\ \A q \in Procs : q # p => pc'[q] = pc[q]
      /\ pc' \in [Procs -> PC]
  BY Zenon, <1>1 DEF IderwTest, Busy, TypeOK, Set, PC
<1>4. TypeOK'
  BY Zenon, <1>1, <1>2, <1>3 DEF TypeOK
<1>5. UniqueInv'
  BY Zenon, <1>2 DEF IInv, UniqueInv
<1>6. OwnerInv'
  <2>1. \A q \in Procs : pc'[q] \in Owning => pc[q] \in Owning
    BY Zenon, <1>1, <1>3 DEF Owning
  <2> QED BY Zenon, <1>2, <2>1 DEF IInv, OwnerInv
<1>7. QueueInv' /\ DiskInv'
  BY Zenon, <1>1, <1>2, <1>3, QueueFrame
<1>8. ASSUME NEW j \in Bufs PROVE BufInv(j)'
  BY Zenon, <1>2, BufFrame DEF IInv
<1>9. ASSUME NEW q \in Procs PROVE ProcInv(q)'
  <2>1. ProcInv(q)
    BY Zenon DEF IInv
  <2>2. CASE q = p
    BY Zenon, <1>1, <1>2, <1>3, <2>1, <2>2 DEF ProcInv, Owning
  <2>3. CASE q # p
    BY Zenon, <1>2, <1>3, <2>1, <2>3, ProcFrame
  <2> QED BY Zenon, <2>2, <2>3
<1> QED BY Zenon, <1>4, <1>5, <1>6, <1>7, <1>8, <1>9 DEF IInv

\* What ideintr finds: the first request, and the one process that waits for it.
LEMMA FirstRequest ==
  ASSUME IInv, Ideintr
  PROVE  /\ idequeue # <<>> /\ idequeue \in Seq(Bufs) /\ Len(idequeue) \in Nat \ {0}
         /\ Head(idequeue) = idequeue[1] /\ idequeue[1] \in Bufs
         /\ blockno[idequeue[1]] \in Blocks /\ Busy(idequeue[1])
         /\ sent = IF dirty[idequeue[1]] THEN {data[idequeue[1]]} ELSE {}
         /\ \E p \in Procs : pc[p] = "rwsleep" /\ b[p] = idequeue[1]
<1>1. idequeue \in Seq(Bufs) /\ active # {} /\ DiskInv /\ QueueInv
  BY Zenon DEF IInv, TypeOK, Ideintr
<1>2. idequeue # <<>> /\ Len(idequeue) \in Nat \ {0}
  BY <1>1 DEF DiskInv
<1>3. idequeue[1] \in Bufs /\ Head(idequeue) = idequeue[1] /\ 1 \in 1 .. Len(idequeue)
  BY <1>1, <1>2
<1>4. Busy(idequeue[1]) /\ \E p \in Procs : pc[p] = "rwsleep" /\ b[p] = idequeue[1]
  BY Zenon, <1>1, <1>3 DEF QueueInv
<1>5. blockno[idequeue[1]] \in Blocks
  BY Zenon, <1>4, HasBuffer
<1> QED BY Zenon, <1>1, <1>2, <1>3, <1>4, <1>5 DEF DiskInv

\* ideintr finishes the first request, wakes its process and starts the next one.
LEMMA IdeintrKeeps ==
  ASSUME IInv, Ideintr
  PROVE  IInv'
<1>1. PICK i \in Bufs : i = idequeue[1]
  BY Zenon, FirstRequest
<1>2. /\ TypeOK /\ idequeue # <<>> /\ Len(idequeue) \in Nat \ {0} /\ Head(idequeue) = i
      /\ blockno[i] \in Blocks /\ sent = IF dirty[i] THEN {data[i]} ELSE {}
      /\ idequeue \in Seq(Bufs)
  BY Zenon, <1>1, FirstRequest DEF IInv
<1>3. PICK p \in Procs : pc[p] = "rwsleep" /\ b[p] = i
  BY Zenon, <1>1, FirstRequest
<1>4. UNCHANGED <<blockno, refcnt, locked, lru, b, faulty>>
  BY Zenon DEF Ideintr
<1>5. /\ valid'[i] /\ ~dirty'[i]
      /\ \A j \in Bufs : j # i => valid'[j] = valid[j] /\ dirty'[j] = dirty[j]
      /\ valid' \in [Bufs -> BOOLEAN] /\ dirty' \in [Bufs -> BOOLEAN]
  BY Zenon, <1>2 DEF Ideintr, TypeOK, Set
<1>6. /\ pc'[p] = "rwtest" /\ pc' \in [Procs -> PC]
      /\ \A q \in Procs : q # p => pc'[q] = pc[q]
  <2>1. pc' = [q \in Procs |-> IF pc[q] = "rwsleep" /\ b[q] = i THEN "rwtest" ELSE pc[q]]
    BY Zenon, <1>2 DEF Ideintr, Wakeup
  <2>2. \A q \in Procs : pc[q] = "rwsleep" /\ b[q] = i => q = p
    BY Zenon, <1>3 DEF IInv, OwnerInv, Owning
  <2> QED BY Zenon, <1>2, <1>3, <2>1, <2>2 DEF TypeOK, PC
<1>7. /\ data' \in [Bufs -> Vals] /\ disk' \in [Blocks -> Vals]
      /\ \A j \in Bufs : j # i => data'[j] = data[j]
      /\ \A k \in Blocks : k # blockno[i] => disk'[k] = disk[k]
      /\ ~faulty => data'[i] = disk'[blockno[i]]
  <2>1. CASE dirty[i]
    <3>1. disk' = Set(disk, blockno[i], data[i]) /\ UNCHANGED data
      BY Zenon, <1>2, <2>1 DEF Ideintr
    <3> QED BY Zenon, <1>2, <3>1 DEF TypeOK, Set
  <2>2. CASE ~dirty[i]
    <3>1. UNCHANGED disk /\ \E d \in Delivered(i) : data' = Set(data, i, d)
      BY Zenon, <1>2, <2>2 DEF Ideintr
    <3>2. Delivered(i) \subseteq Vals /\ (~faulty => Delivered(i) = {disk[blockno[i]]})
      BY <1>2 DEF Delivered, TypeOK
    <3> QED BY ZenonT(40), <1>2, <3>1, <3>2 DEF TypeOK, Set
  <2> QED BY Zenon, <2>1, <2>2
<1>8. /\ idequeue' \in Seq(Bufs) /\ Len(idequeue') = Len(idequeue) - 1
      /\ \A n \in 1 .. Len(idequeue') : idequeue'[n] = idequeue[n + 1]
  BY <1>2 DEF Ideintr
<1>9. ASSUME NEW n \in 1 .. Len(idequeue')
      PROVE  n + 1 \in 1 .. Len(idequeue) /\ idequeue'[n] = idequeue[n + 1] /\ idequeue'[n] \in Bufs \ {i}
  <2>1. n + 1 \in 1 .. Len(idequeue) /\ n + 1 # 1 /\ 1 \in 1 .. Len(idequeue)
    BY <1>2, <1>8
  <2>2. idequeue[n + 1] \in Bufs /\ idequeue[n + 1] # i
    BY <1>1, <1>2, <2>1 DEF IInv, QueueInv
  <2> QED BY Zenon, <1>8, <2>1, <2>2
<1>10. TypeOK'
  <2>1. idequeue' # <<>> => Head(idequeue') \in Bufs
    BY <1>8
  <2>2. active' \subseteq Bufs /\ sent' \subseteq Vals
    <3>1. StartNext(idequeue') /\ data \in [Bufs -> Vals]
      BY Zenon, <1>2 DEF Ideintr, TypeOK
    <3>2. CASE idequeue' = <<>>
      BY Zenon, <3>1, <3>2 DEF StartNext
    <3>3. CASE idequeue' # <<>>
      <4>1. PICK j \in Bufs : j = Head(idequeue')
        BY Zenon, <2>1, <3>3
      <4>2. active' = {j} /\ sent' = IF dirty[j] THEN {data[j]} ELSE {}
        BY Zenon, <3>1, <3>3, <4>1 DEF StartNext, Idestart
      <4>3. data[j] \in Vals
        BY Zenon, <3>1
      <4> QED BY Zenon, <4>2, <4>3
    <3> QED BY Zenon, <3>2, <3>3
  <2> QED BY Zenon, <1>2, <1>4, <1>5, <1>6, <1>7, <1>8, <2>2 DEF TypeOK
<1>11. UniqueInv'
  BY Zenon, <1>4 DEF IInv, UniqueInv
<1>12. OwnerInv'
  <2>1. \A q \in Procs : pc'[q] \in Owning => pc[q] \in Owning
    BY Zenon, <1>3, <1>6 DEF Owning
  <2> QED BY Zenon, <1>4, <2>1 DEF IInv, OwnerInv
<1>13. QueueInv'
  <2>1. QueueInv
    BY Zenon DEF IInv
  <2>2. \A n \in 1 .. Len(idequeue') : ~valid'[idequeue'[n]] \/ dirty'[idequeue'[n]]
    <3>1. ASSUME NEW n \in 1 .. Len(idequeue') PROVE ~valid'[idequeue'[n]] \/ dirty'[idequeue'[n]]
      <4>1. PICK j \in Bufs : j = idequeue'[n] /\ j = idequeue[n + 1] /\ j # i /\ n + 1 \in 1 .. Len(idequeue)
        BY Zenon, <1>9
      <4>2. Busy(j)
        BY Zenon, <2>1, <4>1 DEF QueueInv
      <4>3. valid'[j] = valid[j] /\ dirty'[j] = dirty[j]
        BY Zenon, <1>5, <4>1
      <4> QED BY Zenon, <4>1, <4>2, <4>3 DEF Busy
    <3> QED BY Zenon, <3>1
  <2>3. ASSUME NEW n \in 1 .. Len(idequeue')
        PROVE  \E q \in Procs : pc'[q] = "rwsleep" /\ b'[q] = idequeue'[n]
    <3>1. PICK q \in Procs : pc[q] = "rwsleep" /\ b[q] = idequeue[n + 1]
      BY Zenon, <1>9, <2>1 DEF QueueInv
    <3>2. q # p /\ b[q] = idequeue'[n]
      BY Zenon, <1>3, <1>9, <3>1
    <3> QED BY Zenon, <1>4, <1>6, <3>1, <3>2
  <2>4. ASSUME NEW m \in 1 .. Len(idequeue'), NEW n \in 1 .. Len(idequeue'), idequeue'[m] = idequeue'[n]
        PROVE  m = n
    <3>1. m + 1 = n + 1
      BY ZenonT(60), <1>9, <2>1, <2>4 DEF QueueInv
    <3> QED BY <1>2, <1>8, <3>1
  <2> QED BY Zenon, <2>2, <2>3, <2>4 DEF QueueInv, Busy
<1>14. DiskInv'
  <2>1. CASE idequeue' = <<>>
    BY Zenon, <2>1 DEF Ideintr, StartNext, DiskInv
  <2>2. CASE idequeue' # <<>>
    <3>1. 1 \in 1 .. Len(idequeue') /\ Head(idequeue') = idequeue'[1]
      BY <1>8, <2>2
    <3>2. idequeue'[1] \in Bufs \ {i}
      BY Zenon, <1>9, <3>1
    <3>3. /\ active' = {idequeue'[1]}
          /\ sent' = IF dirty[idequeue'[1]] THEN {data[idequeue'[1]]} ELSE {}
      BY Zenon, <2>2, <3>1 DEF Ideintr, StartNext, Idestart
    <3> QED BY ZenonT(60), <1>5, <1>7, <2>2, <3>2, <3>3 DEF DiskInv
  <2> QED BY Zenon, <2>1, <2>2
<1>15. ASSUME NEW j \in Bufs PROVE BufInv(j)'
  <2>1. BufInv(j) /\ blockno[j] \in Blocks \cup {NoBlock}
    BY Zenon, <1>2 DEF IInv, TypeOK
  <2>2. CASE j = i
    BY Zenon, <1>2, <1>4, <1>5, <1>7, <2>1, <2>2, BufFacts DEF BufInv, Users
  <2>3. CASE j # i
    <3>1. blockno[j] # NoBlock => blockno[j] # blockno[i]
      BY Zenon, <2>3 DEF IInv, UniqueInv
    <3> QED BY Zenon, <1>4, <1>5, <1>7, <2>1, <2>3, <3>1 DEF BufInv, Users
  <2> QED BY Zenon, <2>2, <2>3
<1>16. ASSUME NEW q \in Procs PROVE ProcInv(q)'
  <2>1. ProcInv(q)
    BY Zenon DEF IInv
  <2>2. CASE q = p
    BY Zenon, <1>3, <1>4, <1>5, <1>6, <2>1, <2>2 DEF ProcInv, Owning
  <2>3. CASE q # p
    <3>1. pc[q] \in Owning => b[q] \in Bufs /\ b[q] # i
      BY Zenon, <1>3, <2>3, HasBuffer DEF IInv, OwnerInv, Owning
    <3>2. pc[q] = "rwsleep" => \E n \in 1 .. Len(idequeue') : idequeue'[n] = b[q]
      <4>1. SUFFICES ASSUME pc[q] = "rwsleep"
                     PROVE  \E n \in 1 .. Len(idequeue') : idequeue'[n] = b[q]
        OBVIOUS
      <4>2. PICK m \in 1 .. Len(idequeue) : idequeue[m] = b[q]
        BY Zenon, <2>1, <4>1 DEF ProcInv
      <4>3. b[q] # i
        BY Zenon, <3>1, <4>1 DEF Owning
      <4>4. m - 1 \in 1 .. Len(idequeue') /\ (m - 1) + 1 = m
        BY <1>1, <1>2, <1>8, <4>2, <4>3
      <4>5. idequeue'[m - 1] = idequeue[m]
        BY Zenon, <1>8, <4>4
      <4> QED BY Zenon, <4>2, <4>4, <4>5
    <3>3. pc'[q] = pc[q]
      BY Zenon, <1>6, <2>3
    <3> QED BY ZenonT(60), <1>4, <1>5, <2>1, <3>1, <3>2, <3>3 DEF ProcInv, Busy, Owning
  <2> QED BY Zenon, <2>2, <2>3
<1> QED BY Zenon, <1>10, <1>11, <1>12, <1>13, <1>14, <1>15, <1>16 DEF IInv

\* binit establishes the invariant.
LEMMA InitIInv ==
  ASSUME Init PROVE IInv
<1>1. /\ b = [p \in Procs |-> 0] /\ pc = [p \in Procs |-> "idle"] /\ idequeue = <<>>
      /\ active = {} /\ sent = {} /\ blockno = [i \in Bufs |-> NoBlock]
      /\ refcnt = [i \in Bufs |-> 0] /\ valid = [i \in Bufs |-> FALSE]
      /\ dirty = [i \in Bufs |-> FALSE] /\ locked = [i \in Bufs |-> FALSE]
      /\ lru = [i \in Bufs |-> NBUF + 1 - i]
      /\ disk \in [Blocks -> Vals] /\ faulty \in BOOLEAN
  BY Zenon DEF Init
<1>2. TypeOK
  <2>1. lru \in [Bufs -> Bufs]
    BY <1>1, BufFacts DEF Bufs
  <2>2. AllOnList(lru)
    <3>1. ASSUME NEW j \in Bufs PROVE NBUF + 1 - j \in Bufs /\ NBUF + 1 - (NBUF + 1 - j) = j
      BY BufFacts DEF Bufs
    <3> QED BY Zenon, <1>1, <2>1, <3>1 DEF AllOnList
  <2>3. data \in [Bufs -> Vals]
    BY Zenon DEF Init
  <2>4. refcnt \in [Bufs -> 0 .. Cardinality(Procs)] /\ b \in [Procs -> 0 .. NBUF]
    BY <1>1, BufFacts
  <2>5. pc \in [Procs -> PC]
    BY Zenon, <1>1 DEF PC
  <2>6. idequeue \in Seq(Bufs) /\ active \subseteq Bufs /\ sent \subseteq Vals
    BY <1>1
  <2> QED BY ZenonT(60), <1>1, <2>1, <2>2, <2>3, <2>4, <2>5, <2>6 DEF TypeOK
<1>3. UniqueInv /\ OwnerInv /\ DiskInv
  BY Zenon, <1>1 DEF UniqueInv, OwnerInv, DiskInv, Owning
<1>4. QueueInv
  <2>1. 1 .. Len(idequeue) = {}
    BY <1>1
  <2> QED BY Zenon, <2>1 DEF QueueInv
<1>5. ASSUME NEW i \in Bufs PROVE BufInv(i)
  <2>1. Users(i) = {}
    BY Zenon, <1>1, BufFacts DEF Users
  <2> QED BY Zenon, <1>1, <2>1, FS_EmptySet DEF BufInv
<1>6. ASSUME NEW p \in Procs PROVE ProcInv(p)
  BY Zenon, <1>1 DEF ProcInv, Owning
<1> QED BY Zenon, <1>2, <1>3, <1>4, <1>5, <1>6 DEF IInv

\* Every step keeps it.
LEMMA NextIInv ==
  ASSUME IInv, [Next]_vars PROVE IInv'
<1>1. CASE UNCHANGED vars
  <2>1. UNCHANGED <<blockno, refcnt, valid, dirty, data, locked, lru, idequeue, active, sent, pc, b,
                    disk, faulty>>
    BY Zenon, <1>1 DEF vars, bufvars
  <2>2. TypeOK'
    BY Zenon, <2>1 DEF IInv, TypeOK
  <2>3. UniqueInv' /\ OwnerInv'
    BY Zenon, <2>1 DEF IInv, UniqueInv, OwnerInv
  <2>4. QueueInv' /\ DiskInv'
    BY Zenon, <2>1, QueueFrame
  <2>5. ASSUME NEW i \in Bufs PROVE BufInv(i)'
    BY Zenon, <2>1, BufFrame DEF IInv
  <2>6. ASSUME NEW p \in Procs PROVE ProcInv(p)'
    BY Zenon, <2>1, ProcFrame DEF IInv
  <2> QED BY Zenon, <2>2, <2>3, <2>4, <2>5, <2>6 DEF IInv
<1>2. ASSUME NEW p \in Procs, InKernel(p) \/ ReleaseSleep(p) PROVE IInv'
  BY Zenon, <1>2, AcquireSleepKeeps, IderwKeeps, IderwTestKeeps, BrelseKeeps, ReleaseSleepKeeps DEF InKernel
<1>3. ASSUME NEW p \in Procs, NEW v \in Vals, LogWrite(p, v) \/ Bwrite(p, v) PROVE IInv'
  BY Zenon, <1>3, WriteKeeps
<1> QED BY Zenon, <1>1, <1>2, <1>3, BgetKeeps, IdeintrKeeps DEF Next, Panic

\* The invariant holds in every reachable state of bio.c, sleeplock.c and ide.c.
THEOREM Invariance == Spec => []IInv
<1>1. Init => IInv
  BY Zenon, InitIInv
<1>2. IInv /\ [Next]_vars => IInv'
  BY Zenon, NextIInv
<1> QED BY <1>1, <1>2, PTL DEF Spec

\* bget never leaves a block in two buffers, however many processes miss together.
THEOREM OneBuffer == Spec => []OneBufferPerBlock
<1>1. IInv => OneBufferPerBlock
  BY Zenon DEF IInv, UniqueInv, OneBufferPerBlock
<1> QED BY <1>1, Invariance, PTL

\* The checks at the top of iderw: it is only called for a locked buffer that has
\* something to read or write.  Nobody stops but in bget, for want of a buffer.
RequestsMakeSense == \A p \in Procs :
  /\ pc[p] = "iderw" => locked[b[p]] /\ Busy(b[p])
  /\ pc[p] = "panic" => b[p] = 0

\* iderw's panics for an unlocked buffer and for nothing to do never happen.
THEOREM IderwSane == Spec => []RequestsMakeSense
<1>1. IInv => RequestsMakeSense
  BY Zenon DEF IInv, ProcInv, Owning, RequestsMakeSense
<1> QED BY <1>1, Invariance, PTL

\* b->refcnt, which decides what bget may recycle, is the number of processes
\* between bget and the end of brelse.
UsesCounted == \A i \in Bufs : refcnt[i] = Cardinality({p \in Procs : b[p] = i})

\* refcnt is exact in every reachable state.
THEOREM RefcntExact == Spec => []UsesCounted
<1>1. IInv => UsesCounted
  BY Zenon DEF IInv, BufInv, Users, UsesCounted
<1> QED BY <1>1, Invariance, PTL

-----------------------------------------------------------------------------
(* The cache implements BlockStore.                                        *)

\* Buffer i is in use by p in the sense of the abstract store.
InUse(p, i) == pc[p] \in Owning /\ b[p] = i /\ valid[i]

\* The contents of a block, now and after a step, without CHOOSE.
LEMMA ContentsNow ==
  ASSUME IInv, NEW k \in Blocks
  PROVE  /\ \A i \in Bufs : blockno[i] = k /\ valid[i] => Contents[k] = data[i]
         /\ (\A i \in Bufs : ~(blockno[i] = k /\ valid[i])) => Contents[k] = disk[k]
<1>1. UniqueInv /\ k # NoBlock
  BY Zenon, BufFacts DEF IInv
<1>2. ASSUME NEW i \in Bufs, blockno[i] = k, valid[i] PROVE Contents[k] = data[i]
  <2>1. (CHOOSE j \in Bufs : blockno[j] = k /\ valid[j]) = i
    BY Zenon, <1>1, <1>2 DEF UniqueInv
  <2>2. Contents[k] = data[CHOOSE j \in Bufs : blockno[j] = k /\ valid[j]]
    BY Zenon, <1>2 DEF Contents
  <2> QED BY Zenon, <2>1, <2>2
<1>3. ASSUME \A i \in Bufs : ~(blockno[i] = k /\ valid[i]) PROVE Contents[k] = disk[k]
  BY Zenon, <1>3 DEF Contents
<1> QED BY Zenon, <1>2, <1>3

\* As ContentsNow, for the state after the step.
LEMMA ContentsNext ==
  ASSUME IInv', NEW k \in Blocks
  PROVE  /\ \A i \in Bufs : blockno'[i] = k /\ valid'[i] => Contents'[k] = data'[i]
         /\ (\A i \in Bufs : ~(blockno'[i] = k /\ valid'[i])) => Contents'[k] = disk'[k]
<1>1. UniqueInv' /\ k # NoBlock
  BY Zenon, BufFacts DEF IInv
<1>2. ASSUME NEW i \in Bufs, blockno'[i] = k, valid'[i] PROVE Contents'[k] = data'[i]
  <2>1. (CHOOSE j \in Bufs : blockno'[j] = k /\ valid'[j]) = i
    BY Zenon, <1>1, <1>2 DEF UniqueInv
  <2>2. Contents'[k] = data'[CHOOSE j \in Bufs : blockno'[j] = k /\ valid'[j]]
    BY Zenon, <1>2 DEF Contents
  <2> QED BY Zenon, <2>1, <2>2
<1>3. ASSUME \A i \in Bufs : ~(blockno'[i] = k /\ valid'[i]) PROVE Contents'[k] = disk'[k]
  BY Zenon, <1>3 DEF Contents
<1> QED BY Zenon, <1>2, <1>3

\* A block keeps its contents in a step that leaves its buffer, or its place on the
\* disk, alone.
LEMMA ContentsKept ==
  ASSUME IInv, IInv', NEW k \in Blocks,
         \A i \in Bufs : blockno'[i] = k /\ valid'[i] <=> blockno[i] = k /\ valid[i],
         \A i \in Bufs : blockno[i] = k /\ valid[i] => data'[i] = data[i],
         (\A i \in Bufs : ~(blockno[i] = k /\ valid[i])) => disk'[k] = disk[k]
  PROVE  Contents'[k] = Contents[k]
<1>1. CASE \E i \in Bufs : blockno[i] = k /\ valid[i]
  BY <1>1, ContentsNow, ContentsNext
<1>2. CASE \A i \in Bufs : ~(blockno[i] = k /\ valid[i])
  BY Zenon, <1>2, ContentsNow, ContentsNext
<1> QED BY Zenon, <1>1, <1>2

\* A step changes the abstract contents of no block, or of one.
LEMMA ContentsUpdate ==
  ASSUME NEW k0 \in Blocks, \A k \in Blocks : k # k0 => Contents'[k] = Contents[k]
  PROVE  /\ Contents' = [Contents EXCEPT ![k0] = Contents'[k0]]
         /\ Contents'[k0] = Contents[k0] => Contents' = Contents
<1>1. /\ Contents' = [k \in Blocks |-> Contents'[k]] /\ Contents = [k \in Blocks |-> Contents[k]]
  BY Zenon DEF Contents
<1> HIDE DEF Contents
<1> QED BY Zenon, <1>1

\* The contents of every block stay.
LEMMA ContentsSame ==
  ASSUME \A k \in Blocks : Contents'[k] = Contents[k]
  PROVE  Contents' = Contents
<1>1. /\ Contents' = [k \in Blocks |-> Contents'[k]] /\ Contents = [k \in Blocks |-> Contents[k]]
  BY Zenon DEF Contents
<1> HIDE DEF Contents
<1> QED BY Zenon, <1>1

\* Which blocks a process uses, now and after a step.
LEMMA UsingIs ==
  ASSUME NEW p \in Procs
  PROVE  /\ Using[p] = IF InUse(p, b[p]) THEN {blockno[b[p]]} ELSE {}
         /\ Using'[p] = IF pc'[p] \in Owning /\ valid'[b'[p]] THEN {blockno'[b'[p]]} ELSE {}
BY Zenon DEF Using, InUse, Owning

\* A step changes the blocks that one process uses, at most.
LEMMA UsingUpdate ==
  ASSUME NEW p \in Procs, \A q \in Procs : q # p => Using'[q] = Using[q]
  PROVE  /\ Using' = [Using EXCEPT ![p] = Using'[p]]
         /\ Using'[p] = Using[p] => Using' = Using
<1>1. /\ Using' = [q \in Procs |-> Using'[q]] /\ Using = [q \in Procs |-> Using[q]]
  BY Zenon DEF Using
<1> HIDE DEF Using
<1> QED BY Zenon, <1>1

\* A process uses what it did if its place, its buffer and that buffer stay.
LEMMA UsingKept ==
  ASSUME IInv, NEW q \in Procs, pc'[q] \in Owning <=> pc[q] \in Owning,
         pc[q] \in Owning => b'[q] = b[q] /\ blockno'[b[q]] = blockno[b[q]] /\ valid'[b[q]] = valid[b[q]]
  PROVE  Using'[q] = Using[q]
<1>1. Using[q] = IF pc[q] \in Owning /\ valid[b[q]] THEN {blockno[b[q]]} ELSE {}
  BY Zenon, UsingIs DEF InUse
<1>2. Using'[q] = IF pc'[q] \in Owning /\ valid'[b'[q]] THEN {blockno'[b'[q]]} ELSE {}
  BY Zenon, UsingIs
<1> QED BY Zenon, <1>1, <1>2

\* Nobody uses a block whose buffer nobody uses: it has no other.
LEMMA NobodyUses ==
  ASSUME IInv, NEW i \in Bufs, blockno[i] # NoBlock, \A q \in Procs : ~InUse(q, i)
  PROVE  \A q \in Procs : blockno[i] \notin Using[q]
<1>1. SUFFICES ASSUME NEW q \in Procs, blockno[i] \in Using[q] PROVE FALSE
  OBVIOUS
<1>2. InUse(q, b[q]) /\ blockno[b[q]] = blockno[i]
  <2>1. Using[q] = IF InUse(q, b[q]) THEN {blockno[b[q]]} ELSE {}
    BY Zenon, UsingIs
  <2> QED BY Zenon, <1>1, <2>1
<1>3. b[q] \in Bufs
  BY Zenon, <1>2, HasBuffer DEF InUse, Owning
<1>4. b[q] = i
  BY Zenon, <1>2, <1>3 DEF IInv, UniqueInv
<1> QED BY Zenon, <1>2, <1>4

\* bget is invisible, unless it gives away a buffer that a failed read left with other
\* contents than the disk's.
LEMMA BgetStep ==
  ASSUME IInv, IInv', NEW p \in Procs, NEW k \in Blocks, Bget(p, k)
  PROVE  [Store!Next]_(Store!svars)
<1>1. /\ pc[p] = "idle" /\ UNCHANGED <<data, disk, faulty>> /\ TypeOK
      /\ pc'[p] \in {"acquire", "panic"} /\ \A q \in Procs : q # p => pc'[q] = pc[q]
  BY DEF Bget, IInv, TypeOK, Set
<1>2. CASE UNCHANGED <<blockno, valid>>
  <2>1. Contents' = Contents
    BY Zenon, <1>1, <1>2, ContentsKept, ContentsSame
  <2>2. \A q \in Procs : q # p => Using'[q] = Using[q]
    <3>1. \A q \in Procs : q # p => b'[q] = b[q]
      BY ZenonT(60), <1>1 DEF Bget, TypeOK, Set
    <3> QED BY Zenon, <1>1, <1>2, <3>1, UsingKept
  <2>3. Using'[p] = {} /\ Using[p] = {}
    BY Zenon, <1>1, UsingIs DEF Owning, InUse
  <2>4. Using' = Using
    BY Zenon, <2>2, <2>3, UsingUpdate
  <2> QED BY Zenon, <1>1, <2>1, <2>4 DEF Store!svars
<1>3. CASE ~UNCHANGED <<blockno, valid>>
  <2>1. PICK i \in Bufs :
          /\ b' = Set(b, p, i) /\ blockno' = Set(blockno, i, k) /\ valid' = Set(valid, i, FALSE)
          /\ refcnt[i] = 0 /\ ~dirty[i] /\ \A j \in Bufs : blockno[j] # k
    <3>1. AllOnList(lru)
      BY Zenon, <1>1 DEF TypeOK
    <3>2. PICK n \in Bufs :
            /\ Recyclable(lru[n]) /\ {m \in Bufs : Holds(lru[m], k)} = {}
            /\ b' = Set(b, p, lru[n]) /\ blockno' = Set(blockno, lru[n], k)
            /\ valid' = Set(valid, lru[n], FALSE)
      BY Zenon, <1>3 DEF Bget
    <3>3. \A j \in Bufs : blockno[j] # k
      BY Zenon, <3>1, <3>2 DEF AllOnList, Holds
    <3> QED BY Zenon, <3>1, <3>2, <3>3 DEF Recyclable, AllOnList
  <2>2. \A q \in Procs : b[q] # i
    <3>1. Users(i) = {}
      BY Zenon, <2>1, UsersFinite DEF IInv, BufInv
    <3> QED BY Zenon, <3>1 DEF Users
  <2>3. /\ \A j \in Bufs : j # i => blockno'[j] = blockno[j] /\ valid'[j] = valid[j]
        /\ blockno'[i] = k /\ ~valid'[i] /\ \A q \in Procs : q # p => b'[q] = b[q]
    BY Zenon, <1>1, <2>1 DEF TypeOK, Set
  <2>4. Using' = Using
    <3>1. ASSUME NEW q \in Procs, q # p PROVE Using'[q] = Using[q]
      <4>1. pc[q] \in Owning => b[q] \in Bufs /\ b[q] # i
        BY Zenon, <2>2, HasBuffer DEF Owning
      <4> QED BY Zenon, <1>1, <2>3, <3>1, <4>1, UsingKept
    <3>2. Using'[p] = {} /\ Using[p] = {}
      BY Zenon, <1>1, UsingIs DEF Owning, InUse
    <3> QED BY Zenon, <3>1, <3>2, UsingUpdate
  <2>5. ASSUME NEW k1 \in Blocks, ~(blockno[i] = k1 /\ valid[i]) PROVE Contents'[k1] = Contents[k1]
    <3>1. \A j \in Bufs : blockno'[j] = k1 /\ valid'[j] <=> blockno[j] = k1 /\ valid[j]
      BY Zenon, <2>3, <2>5
    <3> QED BY Zenon, <1>1, <3>1, ContentsKept
  <2>6. CASE ~valid[i]
    BY ZenonT(60), <1>1, <2>4, <2>5, <2>6, ContentsSame DEF Store!svars
  <2>7. CASE valid[i]
    <3>1. PICK k0 \in Blocks : blockno[i] = k0
      BY <1>1, <2>7 DEF IInv, BufInv, TypeOK
    <3>2. Contents' = [Contents EXCEPT ![k0] = Contents'[k0]]
          /\ (Contents'[k0] = Contents[k0] => Contents' = Contents)
      BY Zenon, <2>5, <3>1, ContentsUpdate
    <3>3. Contents[k0] = data[i] /\ Contents'[k0] = disk[k0]
      <4>1. Contents[k0] = data[i]
        BY Zenon, <2>7, <3>1, ContentsNow
      <4>2. \A j \in Bufs : ~(blockno'[j] = k0 /\ valid'[j])
        BY ZenonT(40), <2>3, <3>1, BufFacts DEF IInv, UniqueInv
      <4> QED BY Zenon, <1>1, <4>1, <4>2, ContentsNext
    <3>4. CASE ~faulty
      <4>1. data[i] = disk[k0]
        BY Zenon, <2>1, <2>7, <3>1, <3>4 DEF IInv, BufInv
      <4> QED BY Zenon, <1>1, <2>4, <3>2, <3>3, <4>1 DEF Store!svars
    <3>5. CASE faulty
      <4>1. \A q \in Procs : k0 \notin Using[q]
        BY Zenon, <2>2, <3>1, BufFacts, NobodyUses DEF InUse
      <4>2. disk[k0] \in Vals
        BY Zenon, <1>1, <3>1 DEF TypeOK
      <4>3. Contents' = [Contents EXCEPT ![k0] = disk[k0]]
        BY Zenon, <3>2, <3>3
      <4>4. Store!Misread(p, k0, disk[k0])
        BY Zenon, <1>1, <2>4, <3>5, <4>1, <4>3 DEF Store!Misread
      <4> QED BY Zenon, <4>2, <4>4 DEF Store!Next
    <3> QED BY ZenonT(60), <3>4, <3>5
  <2> QED BY Zenon, <2>6, <2>7
<1> QED BY ZenonT(60), <1>2, <1>3

\* acquiresleep is where a process gets a block that is cached.
LEMMA AcquireSleepStep ==
  ASSUME IInv, IInv', NEW p \in Procs, AcquireSleep(p)
  PROVE  [Store!Next]_(Store!svars)
<1>1. PICK i \in Bufs : b[p] = i
  BY Zenon, HasBuffer DEF AcquireSleep
<1>2. /\ pc[p] = "acquire" /\ UNCHANGED <<blockno, valid, data, disk, b, faulty>>
      /\ blockno[i] \in Blocks /\ \A q \in Procs : q # p => pc'[q] = pc[q]
      /\ \/ pc'[p] = "locksleep"
         \/ ~locked[i] /\ pc'[p] = IF valid[i] THEN "hold" ELSE "iderw"
  BY Zenon, <1>1, HasBuffer DEF AcquireSleep, IInv, TypeOK, Set
<1>3. Contents' = Contents
  BY Zenon, <1>2, ContentsKept, ContentsSame
<1>4. \A q \in Procs : q # p => Using'[q] = Using[q]
  BY Zenon, <1>2, UsingKept
<1>5. Using[p] = {}
  BY Zenon, <1>2, UsingIs DEF Owning, InUse
<1>6. CASE pc'[p] = "hold"
  <2>1. Using'[p] = {blockno[i]} /\ ~locked[i] /\ valid[i]
    BY Zenon, <1>1, <1>2, <1>6, UsingIs DEF Owning
  <2>2. Using' = [Using EXCEPT ![p] = @ \cup {blockno[i]}]
    <3>1. Using'[p] = Using[p] \cup {blockno[i]}
      BY ZenonT(60), <1>5, <2>1
    <3> QED BY Zenon, <1>4, <3>1, UsingUpdate
  <2>3. \A q \in Procs : ~InUse(q, i)
    BY <2>1 DEF IInv, ProcInv, InUse
  <2>4. \A q \in Procs : blockno[i] \notin Using[q]
    BY Zenon, <1>2, <2>3, BufFacts, NobodyUses
  <2> QED BY Zenon, <1>2, <1>3, <2>2, <2>4 DEF Store!Next, Store!Bread
<1>7. CASE pc'[p] # "hold"
  <2>1. Using'[p] = {}
    BY Zenon, <1>1, <1>2, <1>7, UsingIs DEF Owning
  <2>2. Using' = Using
    BY Zenon, <1>4, <1>5, <2>1, UsingUpdate
  <2> QED BY Zenon, <1>2, <1>3, <2>2 DEF Store!svars
<1> QED BY Zenon, <1>6, <1>7

\* A write changes the block of the process that uses it.
LEMMA WriteStep ==
  ASSUME IInv, IInv', NEW p \in Procs, NEW v \in Vals, LogWrite(p, v) \/ Bwrite(p, v)
  PROVE  [Store!Next]_(Store!svars)
<1>1. PICK i \in Bufs : b[p] = i
  BY ZenonT(60), HasBuffer DEF LogWrite, Bwrite
<1>2. /\ pc[p] = "hold" /\ UNCHANGED <<blockno, valid, disk, b, faulty>> /\ valid[i]
      /\ pc'[p] \in {"hold", "iderw"} /\ \A q \in Procs : q # p => pc'[q] = pc[q]
      /\ data'[i] = v /\ \A j \in Bufs : j # i => data'[j] = data[j]
  BY <1>1 DEF LogWrite, Bwrite, IInv, TypeOK, ProcInv, Set
<1>3. PICK k \in Blocks : blockno[i] = k
  BY Zenon, <1>1, <1>2, HasBuffer
<1>4. Contents' = [Contents EXCEPT ![k] = v]
  <2>1. ASSUME NEW k1 \in Blocks, k1 # k PROVE Contents'[k1] = Contents[k1]
    BY Zenon, <1>2, <1>3, <2>1, ContentsKept
  <2>2. Contents'[k] = v
    BY Zenon, <1>2, <1>3, ContentsNext
  <2> QED BY Zenon, <2>1, <2>2, ContentsUpdate
<1>5. Using' = Using
  <2>1. \A q \in Procs : Using'[q] = Using[q]
    BY Zenon, <1>2, UsingKept DEF Owning
  <2> QED BY Zenon, <2>1, UsingUpdate
<1>6. k \in Using[p]
  BY Zenon, <1>1, <1>2, <1>3, UsingIs DEF InUse, Owning
<1>7. Store!Change(p, k, v)
  BY Zenon, <1>2, <1>4, <1>5, <1>6 DEF Store!Change
<1> QED BY Zenon, <1>7 DEF Store!Next

\* releasesleep gives the block back.
LEMMA ReleaseSleepStep ==
  ASSUME IInv, IInv', NEW p \in Procs, ReleaseSleep(p)
  PROVE  [Store!Next]_(Store!svars)
<1>1. PICK i \in Bufs : b[p] = i
  BY Zenon, HasBuffer DEF ReleaseSleep
<1>2. /\ pc[p] = "hold" /\ UNCHANGED <<blockno, valid, data, disk, b, faulty>> /\ valid[i]
      /\ pc'[p] = "deref"
      /\ \A q \in Procs : q # p =>
           pc'[q] = IF pc[q] = "locksleep" /\ b[q] = b[p] THEN "acquire" ELSE pc[q]
  BY Zenon, <1>1 DEF ReleaseSleep, Wakeup, IInv, TypeOK, ProcInv, Set
<1>3. PICK k \in Blocks : blockno[i] = k
  BY Zenon, <1>1, <1>2, HasBuffer
<1>4. Contents' = Contents
  BY Zenon, <1>2, ContentsKept, ContentsSame
<1>5. \A q \in Procs : q # p => Using'[q] = Using[q]
  BY Zenon, <1>2, UsingKept DEF Owning
<1>6. Using[p] = {k} /\ Using'[p] = {}
  BY Zenon, <1>1, <1>2, <1>3, UsingIs DEF InUse, Owning
<1>7. Using' = [Using EXCEPT ![p] = @ \ {k}]
  <2>1. Using'[p] = Using[p] \ {k}
    BY Zenon, <1>6
  <2> QED BY Zenon, <1>5, <2>1, UsingUpdate
<1>8. Store!Brelse(p, k)
  BY Zenon, <1>2, <1>4, <1>6, <1>7 DEF Store!Brelse
<1> QED BY Zenon, <1>8 DEF Store!Next

\* brelse's bookkeeping and iderw's are invisible.
LEMMA QuietStep ==
  ASSUME IInv, IInv', NEW p \in Procs, Brelse(p) \/ Iderw(p) \/ IderwTest(p)
  PROVE  [Store!Next]_(Store!svars)
<1>1. /\ UNCHANGED <<blockno, valid, data, disk, faulty>>
      /\ \A q \in Procs : q # p => pc'[q] = pc[q] /\ b'[q] = b[q]
  BY ZenonT(60) DEF Brelse, Iderw, IderwTest, bufvars, IInv, TypeOK, Set
<1>2. Contents' = Contents
  BY Zenon, <1>1, ContentsKept, ContentsSame
<1>3. \A q \in Procs : q # p => Using'[q] = Using[q]
  BY Zenon, <1>1, UsingKept
<1>4. Using'[p] = Using[p]
  <2>1. CASE Brelse(p)
    <3>1. pc[p] = "deref" /\ pc'[p] = "idle"
      BY Zenon, <2>1 DEF Brelse, IInv, TypeOK, Set
    <3> QED BY Zenon, <3>1, UsingKept DEF Owning
  <2>2. CASE Iderw(p) \/ IderwTest(p)
    <3>1. pc[p] \in Owning /\ UNCHANGED b
      BY Zenon, <2>2 DEF Iderw, IderwTest, Owning
    <3>2. pc'[p] \in Owning
      <4>1. ProcInv(p) /\ pc \in [Procs -> PC]
        BY Zenon DEF IInv, TypeOK
      <4> QED BY Zenon, <2>2, <4>1 DEF Iderw, IderwTest, Owning, ProcInv, Set
    <3> QED BY Zenon, <1>1, <3>1, <3>2, UsingKept
  <2> QED BY Zenon, <2>1, <2>2
<1>5. Using' = Using
  BY Zenon, <1>3, <1>4, UsingUpdate
<1> QED BY Zenon, <1>1, <1>2, <1>5 DEF Store!svars

\* ideintr is where a process gets a block that was not cached; a write that the disk
\* has done is invisible.
LEMMA IdeintrStep ==
  ASSUME IInv, IInv', Ideintr
  PROVE  [Store!Next]_(Store!svars)
<1>1. PICK i \in Bufs : i = idequeue[1]
  BY Zenon, FirstRequest
<1>2. /\ Head(idequeue) = i /\ Busy(i) /\ UNCHANGED <<blockno, b, faulty>> /\ TypeOK
      /\ (dirty[i] => valid[i] /\ sent = {data[i]})
  BY Zenon, <1>1, FirstRequest DEF Ideintr, IInv, BufInv
<1>3. PICK p \in Procs : pc[p] = "rwsleep" /\ b[p] = i
  BY Zenon, <1>1, FirstRequest
<1>4. PICK k \in Blocks : blockno[i] = k
  BY Zenon, <1>1, FirstRequest
<1>5. /\ valid'[i] /\ \A j \in Bufs : j # i => valid'[j] = valid[j]
      /\ \A q \in Procs : pc'[q] = IF pc[q] = "rwsleep" /\ b[q] = i THEN "rwtest" ELSE pc[q]
  BY Zenon, <1>2 DEF Ideintr, TypeOK, Set, Wakeup
<1>6. \A q \in Procs : pc[q] \in Owning /\ b[q] = i => q = p
  BY Zenon, <1>3 DEF IInv, OwnerInv, Owning
<1>7. \A q \in Procs : pc[q] \in Owning => b[q] \in Bufs
  BY Zenon, HasBuffer DEF Owning
<1>8. \A q \in Procs : q # p => Using'[q] = Using[q]
  <2>1. \A q \in Procs : pc'[q] \in Owning <=> pc[q] \in Owning
    BY Zenon, <1>5 DEF Owning
  <2> QED BY ZenonT(60), <1>2, <1>5, <1>6, <1>7, <2>1, UsingKept
<1>9. Using'[p] = {k} /\ (valid[i] => Using[p] = {k}) /\ (~valid[i] => Using[p] = {})
  BY ZenonT(60), <1>2, <1>3, <1>4, <1>5, UsingIs DEF InUse, Owning
<1>10. CASE dirty[i]
  <2>1. disk' = Set(disk, k, data[i]) /\ UNCHANGED data
    BY Zenon, <1>2, <1>4, <1>10 DEF Ideintr
  <2>2. \A k1 \in Blocks : k1 # k => disk'[k1] = disk[k1]
    BY Zenon, <1>2, <2>1 DEF TypeOK, Set
  <2>3. ASSUME NEW k1 \in Blocks PROVE Contents'[k1] = Contents[k1]
    <3>1. \A j \in Bufs : blockno'[j] = k1 /\ valid'[j] <=> blockno[j] = k1 /\ valid[j]
      BY Zenon, <1>2, <1>5, <1>10
    <3>2. (\A j \in Bufs : ~(blockno[j] = k1 /\ valid[j])) => k1 # k
      BY Zenon, <1>2, <1>4, <1>10
    <3> QED BY Zenon, <2>1, <2>2, <3>1, <3>2, ContentsKept
  <2>4. Using' = Using
    BY ZenonT(60), <1>2, <1>8, <1>9, <1>10, UsingUpdate
  <2> QED BY Zenon, <1>2, <2>3, <2>4, ContentsSame DEF Store!svars
<1>11. CASE ~dirty[i]
  <2>1. ~valid[i] /\ UNCHANGED disk
    BY ZenonT(60), <1>2, <1>11 DEF Busy, Ideintr
  <2>2. PICK d \in Delivered(i) : data' = Set(data, i, d)
    BY ZenonT(60), <1>2, <1>11 DEF Ideintr
  <2>3. d \in Vals /\ (d = disk[k] \/ faulty) /\ data'[i] = d /\ \A j \in Bufs : j # i => data'[j] = data[j]
    BY ZenonT(60), <1>2, <1>4, <2>2 DEF Delivered, TypeOK, Set
  <2>4. Contents[k] = disk[k] /\ Contents'[k] = d
    <3>1. \A j \in Bufs : ~(blockno[j] = k /\ valid[j])
      BY Zenon, <1>4, <2>1, BufFacts DEF IInv, UniqueInv
    <3>2. Contents'[k] = data'[i]
      BY ZenonT(60), <1>2, <1>4, <1>5, ContentsNext
    <3> QED BY Zenon, <2>3, <3>1, <3>2, ContentsNow
  <2>5. ASSUME NEW k1 \in Blocks, k1 # k PROVE Contents'[k1] = Contents[k1]
    <3>1. \A j \in Bufs : blockno'[j] = k1 /\ valid'[j] <=> blockno[j] = k1 /\ valid[j]
      BY Zenon, <1>2, <1>4, <1>5, <2>5
    <3> QED BY ZenonT(60), <1>4, <2>1, <2>3, <2>5, <3>1, ContentsKept
  <2>6. Contents' = [Contents EXCEPT ![k] = d] /\ (d = disk[k] => Contents' = Contents)
    BY Zenon, <2>4, <2>5, ContentsUpdate
  <2>7. \A q \in Procs : k \notin Using[q]
    BY Zenon, <1>4, <2>1, BufFacts, NobodyUses DEF InUse
  <2>8. Using' = [Using EXCEPT ![p] = @ \cup {k}]
    <3>1. Using'[p] = Using[p] \cup {k}
      BY Zenon, <1>9, <2>1
    <3> QED BY Zenon, <1>8, <3>1, UsingUpdate
  <2>9. CASE d = disk[k]
    BY ZenonT(60), <1>2, <2>6, <2>7, <2>8, <2>9 DEF Store!Next, Store!Bread
  <2>10. CASE faulty
    <3>1. Store!Misread(p, k, d)
      BY ZenonT(60), <1>2, <2>6, <2>7, <2>8, <2>10 DEF Store!Misread
    <3> QED BY Zenon, <2>3, <3>1 DEF Store!Next
  <2> QED BY Zenon, <2>3, <2>9, <2>10
<1> QED BY Zenon, <1>10, <1>11

\* Processes see one contents per block, the one last written, one process at a time,
\* through eviction, sharing, queued requests and lazy writes.
THEOREM CacheImplementsStore == Spec => CacheIsStore
<1>1. ASSUME Init PROVE Store!Init
  <2>1. IInv
    BY Zenon, <1>1, InitIInv
  <2>2. ASSUME NEW k \in Blocks PROVE Contents[k] \in Vals
    <3>1. \A i \in Bufs : ~valid[i]
      BY Zenon, <1>1 DEF Init
    <3>2. Contents[k] = disk[k]
      BY Zenon, <2>1, <3>1, ContentsNow
    <3> QED BY Zenon, <2>1, <3>2 DEF IInv, TypeOK
  <2>3. Contents \in [Blocks -> Vals]
    <3>1. Contents = [k \in Blocks |-> Contents[k]]
      BY Zenon DEF Contents
    <3> HIDE DEF Contents
    <3> QED BY Zenon, <2>2, <3>1
  <2>4. Using = [p \in Procs |-> {}]
    BY Zenon, <1>1 DEF Init, Using
  <2> QED BY Zenon, <1>1, <2>3, <2>4 DEF Init, Store!Init
<1>2. ASSUME IInv, IInv', [Next]_vars PROVE [Store!Next]_(Store!svars)
  <2>1. CASE UNCHANGED vars
    BY Zenon, <2>1 DEF vars, bufvars, Store!svars, Contents, Using
  <2>2. ASSUME NEW p \in Procs, InKernel(p) \/ ReleaseSleep(p) PROVE [Store!Next]_(Store!svars)
    BY ZenonT(60), <1>2, <2>2, AcquireSleepStep, QuietStep, ReleaseSleepStep DEF InKernel
  <2>3. ASSUME NEW p \in Procs, NEW v \in Vals, LogWrite(p, v) \/ Bwrite(p, v)
        PROVE  [Store!Next]_(Store!svars)
    BY Zenon, <1>2, <2>3, WriteStep
  <2> QED BY ZenonT(60), <1>2, <2>1, <2>2, <2>3, BgetStep, IdeintrStep DEF Next, Panic
<1> QED BY <1>1, <1>2, Invariance, PTL DEF Spec, CacheIsStore, Store!Spec

=============================================================================
