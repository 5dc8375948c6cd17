---------------------------- MODULE BlocksProofs ----------------------------
(***************************************************************************)
(* For any sizes of block, inode, disk and log: the blocks of the files    *)
(* form trees that share nothing, what readi returns is what the writes    *)
(* put there, the disk inode keeps up with the one in memory, and a chunk  *)
(* of filewrite fits the log.                                              *)
(***************************************************************************)
EXTENDS Blocks, FiniteSetTheorems, TLAPS

\* The places of a file where block numbers are kept: addrs, then the indirect block.
Places == 0 .. MAXFILE
Ptr(I, D, i, k) ==
  IF k <= NDIRECT THEN I[i].addrs[k]
  ELSE IF I[i].addrs[NDIRECT] = 0 THEN 0 ELSE D[I[i].addrs[NDIRECT]][k - NDIRECT - 1]

\* Where bmap keeps the number of block bn.
Place(bn) == IF bn < NDIRECT THEN bn ELSE bn + 1

\* Every used block is in exactly one place, and every place that is not empty has one.
Tree(U, D, I) ==
  /\ \A i \in Files, k \in Places : Ptr(I, D, i, k) \in U \cup {0}
  /\ \A i, j \in Files, k, l \in Places :
       Ptr(I, D, i, k) # 0 /\ Ptr(I, D, i, k) = Ptr(I, D, j, l) => i = j /\ k = l
  /\ \A b \in U : \E i \in Files, k \in Places : b = Ptr(I, D, i, k)

\* Word n of a file, as readi finds it.
Words == 0 .. MAXFILE * BSIZE - 1
At(I, D, i, n) == Ptr(I, D, i, Place(n \div BSIZE))
Word(I, D, i, n) == D[At(I, D, i, n)][n % BSIZE]

Block == [0 .. BSIZE - 1 -> Nat]
Inode == [size : 0 .. MAXFILE * BSIZE, addrs : [0 .. NDIRECT -> Blks \cup {0}]]
Types ==
  /\ used \subseteq Blks /\ data \in [Blks -> Block]
  /\ ip \in [Files -> Inode] /\ dip \in [Files -> Inode]
  /\ lock \in [Files -> Threads \cup {0}]
  /\ f \in [Threads -> [ip : Files, off : Nat]]
  /\ w \in [Threads -> [left : Nat, n : Nat, tot : Nat, id : Nat]]
  /\ log \in [Threads -> SUBSET (Blks \cup {BITMAP})]
  /\ calls \in Nat /\ want \in [Files -> Seq(Nat)]

\* The inode lock is held during a chunk, which is within the file's bounds.
LockInv ==
  /\ \A i \in Files : lock[i] # 0 => f[lock[i]].ip = i /\ w[lock[i]].n > 0
  /\ \A t \in Threads :
       /\ f[t].off <= ip[f[t].ip].size
       /\ w[t].tot <= w[t].n /\ w[t].n <= w[t].left /\ w[t].n <= MaxChunk
       /\ w[t].n > 0 => lock[f[t].ip] = t /\ f[t].off + w[t].n <= MAXFILE * BSIZE
       /\ w[t].n = 0 => log[t] = {}

\* Word n is one that thread t has written in its chunk.
Written(t, n) == f[t].off <= n /\ n < f[t].off + w[t].tot

\* Every word of a file, and of a chunk under way, has its block; the words are those of
\* the finished writes, or of the chunk.
WordInv ==
  /\ \A i \in Files : Len(want[i]) = ip[i].size
  /\ \A i \in Files, n \in Words : n < ip[i].size => At(ip, data, i, n) # 0
  /\ \A t \in Threads, n \in Words : Written(t, n) =>
       At(ip, data, f[t].ip, n) # 0 /\ Word(ip, data, f[t].ip, n) = w[t].id
  /\ \A i \in Files, n \in Words :
       n < ip[i].size /\ (lock[i] # 0 => ~Written(lock[i], n)) => Word(ip, data, i, n) = want[i][n + 1]

\* The inodes differ only while a chunk that extends the file is under way.
DiskInv ==
  /\ \A i \in Files : dip[i].size = ip[i].size
  /\ \A i \in Files : dip[i] # ip[i] =>
       lock[i] # 0 /\ f[lock[i]].off + w[lock[i]].tot > ip[i].size

\* What a chunk has logged: the bitmap, the indirect block, and the blocks it covers.
LogInv ==
  \A t \in Threads : \A b \in log[t] :
    \/ b = BITMAP \/ b = Ptr(ip, data, f[t].ip, NDIRECT)
    \/ \E bn \in 0 .. MAXFILE - 1 :
         /\ f[t].off \div BSIZE <= bn /\ bn * BSIZE < f[t].off + w[t].tot
         /\ b = Ptr(ip, data, f[t].ip, Place(bn))

IInv == Types /\ Tree(used, data, ip) /\ LockInv /\ WordInv /\ DiskInv /\ LogInv

-----------------------------------------------------------------------------
(* Arithmetic of blocks                                                    *)

\* The numbers the constants give.
LEMMA Sizes0 ==
  /\ BSIZE \in Nat /\ BSIZE > 0 /\ NDIRECT \in Nat /\ MAXFILE \in Nat /\ MAXFILE = NDIRECT + BSIZE
  /\ NDIRECT \in 0 .. NDIRECT /\ NDIRECT \in Places /\ Blks \subseteq Nat /\ 0 \notin Blks
  BY BlocksAssumption DEF MAXFILE, Places, Blks

\* A product grows by a block with each factor.
LEMMA NextMultiple ==
  ASSUME NEW B \in Nat, NEW p \in Nat, NEW q \in Nat, p < q PROVE p * B + B <= q * B
<1>1. p * B + B = (p + 1) * B
  OBVIOUS
<1>2. q - (p + 1) \in Nat /\ q = (p + 1) + (q - (p + 1))
  OBVIOUS
<1>3. PICK r \in Nat : q = (p + 1) + r
  BY Zenon, <1>2
<1>4. q * B = (p + 1) * B + r * B /\ r * B >= 0
  BY <1>3
<1> QED BY <1>1, <1>4

\* Word n is word n % BSIZE of block n \div BSIZE.
LEMMA DivMod ==
  ASSUME NEW n \in Nat
  PROVE  /\ n \div BSIZE \in Nat /\ n % BSIZE \in 0 .. BSIZE - 1
         /\ n = (n \div BSIZE) * BSIZE + (n % BSIZE)
  BY Sizes0

\* The words of one block that a turn of writei's loop covers are consecutive.
LEMMA SameBlock ==
  ASSUME NEW a \in Nat, NEW n \in Nat, NEW m \in Nat, m <= BSIZE - (a % BSIZE)
  PROVE  ((n \div BSIZE) = (a \div BSIZE) /\ (n % BSIZE) \in (a % BSIZE) .. (a % BSIZE) + m - 1)
           <=> (a <= n /\ n < a + m)
<1> DEFINE p == a \div BSIZE
           q == n \div BSIZE
           x == a % BSIZE
           y == n % BSIZE
<1>1. /\ p \in Nat /\ q \in Nat /\ x \in 0 .. BSIZE - 1 /\ y \in 0 .. BSIZE - 1
      /\ a = p * BSIZE + x /\ n = q * BSIZE + y /\ BSIZE \in Nat /\ m <= BSIZE - x
  BY Zenon, DivMod, Sizes0
<1> HIDE DEF p, q, x, y
<1>2. p * BSIZE \in Nat /\ q * BSIZE \in Nat
  BY <1>1
<1>3. CASE p = q
  BY <1>1, <1>2, <1>3 DEF p, q, x, y
<1>4. CASE p < q
  <2>1. p * BSIZE + BSIZE <= q * BSIZE
    BY Zenon, <1>1, <1>4, NextMultiple
  <2> QED BY <2>1, <1>1, <1>2, <1>4 DEF p, q, x, y
<1>5. CASE q < p
  <2>1. q * BSIZE + BSIZE <= p * BSIZE
    BY Zenon, <1>1, <1>5, NextMultiple
  <2> QED BY <2>1, <1>1, <1>2, <1>5 DEF p, q, x, y
<1> QED BY <1>1, <1>3, <1>4, <1>5

\* The blocks of the words below a multiple of BSIZE are below that multiple.
LEMMA DivBelow ==
  ASSUME NEW n \in Nat, NEW k \in Nat, n < k * BSIZE PROVE n \div BSIZE < k
<1>1. PICK q \in Nat, y \in Nat : q = n \div BSIZE /\ n = q * BSIZE + y
  BY DivMod
<1>2. SUFFICES ASSUME k <= q PROVE FALSE
  BY <1>1
<1>3. k * BSIZE <= q * BSIZE
  <2>1. CASE k = q
    BY <2>1, Sizes0
  <2>2. CASE k < q
    <3>1. k * BSIZE + BSIZE <= q * BSIZE /\ BSIZE \in Nat /\ k * BSIZE \in Nat /\ q * BSIZE \in Nat
      BY <2>2, <1>1, NextMultiple, Sizes0
    <3> QED BY <3>1
  <2> QED BY <2>1, <2>2, <1>2
<1>4. q * BSIZE \in Nat /\ k * BSIZE \in Nat
  BY Sizes0
<1> QED BY <1>1, <1>3, <1>4

\* The block of a word that a file may have, and where its number is kept.
LEMMA WordPlace ==
  ASSUME NEW n \in Words
  PROVE  /\ n \in Nat /\ n \div BSIZE \in 0 .. MAXFILE - 1 /\ n % BSIZE \in 0 .. BSIZE - 1
         /\ Place(n \div BSIZE) \in Places /\ Place(n \div BSIZE) # NDIRECT
<1>1. n \in Nat /\ n < MAXFILE * BSIZE
  <2>1. MAXFILE * BSIZE \in Nat
    BY Sizes0
  <2> QED BY <2>1 DEF Words
<1>2. n \div BSIZE \in Nat /\ n \div BSIZE < MAXFILE /\ n % BSIZE \in 0 .. BSIZE - 1
  BY Zenon, <1>1, DivMod, DivBelow, Sizes0
<1>3. PICK bn \in Nat : bn = n \div BSIZE /\ bn < MAXFILE
  BY Zenon, <1>2
<1>4. Place(bn) \in Places /\ Place(bn) # NDIRECT
  BY <1>3, Sizes0 DEF Place, Places
<1> QED BY <1>1, <1>2, <1>3, <1>4, Sizes0

\* Different blocks have different places.
LEMMA PlaceInjective ==
  ASSUME NEW a \in Nat, NEW b \in Nat, Place(a) = Place(b) PROVE a = b
  BY Sizes0 DEF Place

\* A set of numbers that is not empty has a least one, so that balloc's scan finds it.
LEMMA LeastExists ==
  ASSUME NEW T, T \subseteq Nat, T # {}
  PROVE  Min(T) \in T /\ \A m \in T : Min(T) <= m
<1> DEFINE F == {1 .. n : n \in T}
           R == StrictSubsetOrdering(Nat)
<1>1. IsWellFoundedOn(R, FiniteSubsetsOf(Nat))
  BY Zenon, FS_StrictSubsetOrderingWellFounded
<1>2. \A n \in T : 1 .. n \in SUBSET Nat /\ IsFiniteSet(1 .. n)
  BY FS_Interval
<1>3. F \subseteq FiniteSubsetsOf(Nat)
  BY Zenon, <1>2 DEF FiniteSubsetsOf
<1>4. F # {}
  OBVIOUS
<1>5. PICK I \in F : \A J \in F : ~(<<J, I>> \in R)
  <2> HIDE DEF F, R
  <2> QED BY Zenon, <1>1, <1>3, <1>4, WFMin
<1>6. PICK n \in T : I = 1 .. n
  BY Zenon, <1>5
<1>7. ASSUME NEW m \in T, m < n PROVE FALSE
  <2>1. 1 .. m \in F
    OBVIOUS
  <2>2. (1 .. m) \subseteq (1 .. n) /\ 1 .. m # 1 .. n
    <3>1. m \in Nat /\ n \in Nat
      OBVIOUS
    <3>2. n \in 1 .. n /\ n \notin 1 .. m
      BY <3>1, <1>7
    <3>3. (1 .. m) \subseteq (1 .. n)
      BY <3>1, <1>7
    <3> QED BY Zenon, <3>2, <3>3
  <2>3. <<1 .. m, 1 .. n>> \in R
    BY Zenon, <2>2, <1>2 DEF StrictSubsetOrdering
  <2> QED BY Zenon, <2>1, <2>3, <1>5, <1>6
<1>8. \A m \in T : n <= m
  BY <1>7
<1>9. \E x \in T : \A y \in T : x <= y
  BY Zenon, <1>8
<1> QED BY Zenon, <1>9 DEF Min

\* The lesser and the greater of two numbers.
LEMMA MinMaxPair ==
  ASSUME NEW a \in Int, NEW b \in Int
  PROVE  /\ Min({a, b}) = IF a <= b THEN a ELSE b
         /\ Max({a, b}) = IF a <= b THEN b ELSE a
<1>1. PICK x \in {a, b} : x = IF a <= b THEN a ELSE b
  OBVIOUS
<1>2. x \in {a, b} /\ \A y \in {a, b} : x <= y
  BY <1>1
<1>3. Min({a, b}) \in {a, b} /\ \A y \in {a, b} : Min({a, b}) <= y
  BY Zenon, <1>2 DEF Min
<1>4. PICK u \in {a, b} : u = IF a <= b THEN b ELSE a
  OBVIOUS
<1>5. u \in {a, b} /\ \A y \in {a, b} : u >= y
  BY <1>4
<1>6. Max({a, b}) \in {a, b} /\ \A y \in {a, b} : Max({a, b}) >= y
  BY Zenon, <1>5 DEF Max
<1> QED BY <1>3, <1>6

-----------------------------------------------------------------------------
(* Trees of blocks                                                         *)

\* A block number at a place is a used block, or there is none.
LEMMA PtrUsed ==
  ASSUME NEW U, NEW D, NEW I, Tree(U, D, I), NEW i \in Files
  PROVE  /\ \A k \in Places : Ptr(I, D, i, k) # 0 => Ptr(I, D, i, k) \in U
         /\ I[i].addrs[NDIRECT] = Ptr(I, D, i, NDIRECT)
         /\ I[i].addrs[NDIRECT] # 0 => I[i].addrs[NDIRECT] \in U
<1>1. \A k \in Places : Ptr(I, D, i, k) # 0 => Ptr(I, D, i, k) \in U
  BY Zenon DEF Tree
<1>2. I[i].addrs[NDIRECT] = Ptr(I, D, i, NDIRECT)
  BY Sizes0 DEF Ptr
<1> QED BY Zenon, <1>1, <1>2, Sizes0

\* Place p of file i has come to hold b, and nothing else has changed.
Gains(I, D, J, E, i, p, b) == \A j \in Files, k \in Places :
  Ptr(J, E, j, k) = IF j = i /\ k = p THEN b ELSE Ptr(I, D, j, k)

\* A free block put in an empty place makes a bigger tree.
LEMMA TreeGrows ==
  ASSUME NEW U, NEW D, NEW I, Tree(U, D, I), U \subseteq Blks,
         NEW i \in Files, NEW p \in Places, NEW b \in Blks \ U, Ptr(I, D, i, p) = 0,
         NEW E, NEW J,
         Gains(I, D, J, E, i, p, b)
  PROVE  Tree(U \cup {b}, E, J)
<1> USE DEF Gains
<1>1. \A j \in Files, k \in Places : Ptr(J, E, j, k) \in (U \cup {b}) \cup {0}
  BY ZenonT(60) DEF Tree
<1>2. ASSUME NEW j \in Files, NEW l \in Files, NEW k \in Places, NEW m \in Places,
             Ptr(J, E, j, k) # 0, Ptr(J, E, j, k) = Ptr(J, E, l, m)
      PROVE  j = l /\ k = m
  <2>1. Ptr(I, D, j, k) \in U \cup {0} /\ Ptr(I, D, l, m) \in U \cup {0}
    BY Zenon DEF Tree
  <2>2. CASE (j = i /\ k = p) \/ (l = i /\ m = p)
    BY ZenonT(60), <2>1, <2>2, <1>2, Sizes0
  <2>3. CASE ~(j = i /\ k = p) /\ ~(l = i /\ m = p)
    BY <2>3, <1>2 DEF Tree
  <2> QED BY Zenon, <2>2, <2>3
<1>3. ASSUME NEW a \in U \cup {b}
      PROVE  \E j \in Files, k \in Places : a = Ptr(J, E, j, k)
  <2>1. CASE a = b
    BY Zenon, <2>1
  <2>2. CASE a \in U
    <3>1. PICK j \in Files, k \in Places : a = Ptr(I, D, j, k)
      BY Zenon, <2>2 DEF Tree
    <3>2. a # 0
      BY Zenon, <2>2, Sizes0
    <3> QED BY Zenon, <3>1, <3>2
  <2> QED BY Zenon, <2>1, <2>2
<1> QED BY <1>1, <1>2, <1>3 DEF Tree

\* A function changed in one place, and an inode in one entry.
Put(F, a, v) == [F EXCEPT ![a] = v]
SetAddr(x, p, b) == [x EXCEPT !.addrs = [x.addrs EXCEPT ![p] = b]]

\* balloc for an entry of addrs.
LEMMA AllocEntry ==
  ASSUME NEW U, NEW D \in [Blks -> Block], NEW I \in [Files -> Inode], Tree(U, D, I), U \subseteq Blks,
         NEW i \in Files, NEW p \in 0 .. NDIRECT, NEW b \in Blks \ U, Ptr(I, D, i, p) = 0,
         NEW E, E = Put(D, b, Zero),
         NEW J, J = Put(I, i, SetAddr(I[i], p, b))
  PROVE  Gains(I, D, J, E, i, p, b)
<1> USE DEF Put, SetAddr
<1>1. /\ I[i].addrs \in [0 .. NDIRECT -> Blks \cup {0}] /\ I[i].size \in 0 .. MAXFILE * BSIZE
      /\ p \in Places /\ p <= NDIRECT /\ NDIRECT \in 0 .. NDIRECT
  BY Sizes0 DEF Inode, Places
<1>2. Zero \in Block
  BY Zenon DEF Zero, Block
<1>3. E \in [Blks -> Block] /\ E[b] = Zero /\ \A a \in Blks : a # b => E[a] = D[a]
  BY Zenon, <1>2
<1>4. PICK A \in [0 .. NDIRECT -> Blks \cup {0}] : A = [I[i].addrs EXCEPT ![p] = b]
  BY Zenon, <1>1
<1>5. A[p] = b /\ \A k \in 0 .. NDIRECT : k # p => A[k] = I[i].addrs[k]
  BY Zenon, <1>1, <1>4
<1>6. [I[i] EXCEPT !.addrs = A] \in Inode /\ [I[i] EXCEPT !.addrs = A].addrs = A
  BY ZenonT(60), <1>4 DEF Inode
<1>7. J \in [Files -> Inode] /\ J[i].addrs = A /\ \A j \in Files : j # i => J[j] = I[j]
  BY Zenon, <1>4, <1>6
<1>8. I[i].addrs[p] = 0
  BY Zenon, <1>1 DEF Ptr
<1>9. ASSUME NEW j \in Files, NEW k \in Places
      PROVE  Ptr(J, E, j, k) = IF j = i /\ k = p THEN b ELSE Ptr(I, D, j, k)
  <2>1. CASE k <= NDIRECT
    <3>1. k \in 0 .. NDIRECT
      BY <2>1, Sizes0 DEF Places
    <3>2. Ptr(J, E, j, k) = J[j].addrs[k] /\ Ptr(I, D, j, k) = I[j].addrs[k]
      BY Zenon, <2>1 DEF Ptr
    <3>3. CASE j = i
      BY Zenon, <3>1, <3>2, <3>3, <1>5, <1>7
    <3>4. CASE j # i
      BY Zenon, <3>2, <3>4, <1>7
    <3> QED BY Zenon, <3>3, <3>4
  <2>2. CASE ~(k <= NDIRECT)
    <3>1. k # p
      BY Zenon, <2>2, <1>1
    <3>2. k - NDIRECT - 1 \in 0 .. BSIZE - 1
      BY SMTT(30), <2>2, Sizes0 DEF Places
    <3>3. CASE j = i /\ p = NDIRECT
      <4>1. Ptr(I, D, j, k) = 0
        BY Zenon, <2>2, <3>3, <1>8 DEF Ptr
      <4>2. J[j].addrs[NDIRECT] = b /\ E[b][k - NDIRECT - 1] = 0 /\ b # 0
        BY ZenonT(60), <3>2, <3>3, <1>3, <1>5, <1>7, Sizes0 DEF Zero
      <4> QED BY Zenon, <4>1, <4>2, <3>1, <2>2 DEF Ptr
    <3>4. CASE ~(j = i /\ p = NDIRECT)
      <4>1. J[j].addrs[NDIRECT] = I[j].addrs[NDIRECT]
        BY Zenon, <3>4, <1>1, <1>5, <1>7
      <4>2. I[j].addrs[NDIRECT] # 0 => I[j].addrs[NDIRECT] \in U
        BY Zenon, PtrUsed
      <4>3. I[j].addrs[NDIRECT] # 0 => E[I[j].addrs[NDIRECT]] = D[I[j].addrs[NDIRECT]]
        BY Zenon, <4>2, <1>3
      <4> QED BY <4>1, <4>3, <3>1, <2>2 DEF Ptr
    <3> QED BY Zenon, <3>3, <3>4
  <2> QED BY Zenon, <2>1, <2>2
<1> QED BY Zenon, <1>9 DEF Gains

\* An entry of the indirect block: what bmap finds, and what becomes of it.
FreeEntry(U, D, I, i, x, h, b, E) ==
  /\ D \in [Blks -> Block] /\ Tree(U, D, I) /\ U \subseteq Blks /\ i \in Files
  /\ x \in U /\ x = I[i].addrs[NDIRECT] /\ h \in 0 .. BSIZE - 1 /\ D[x][h] = 0 /\ b \in Blks \ U
  /\ E = Put(Put(D, b, Zero), x, Put(D[x], h, b))
GainsEntry(D, I, i, h, b, E) ==
  /\ E \in [Blks -> Block]
  /\ h + NDIRECT + 1 \in Places /\ Ptr(I, D, i, h + NDIRECT + 1) = 0
  /\ Gains(I, D, I, E, i, h + NDIRECT + 1, b)

\* balloc for an entry of the indirect block.
LEMMA AllocIndirect ==
  ASSUME NEW U, NEW D, NEW I, NEW i, NEW x, NEW h, NEW b, NEW E, FreeEntry(U, D, I, i, x, h, b, E)
  PROVE  GainsEntry(D, I, i, h, b, E)
<1> SUFFICES ASSUME D \in [Blks -> Block], Tree(U, D, I), U \subseteq Blks, i \in Files,
                    x \in U, x = I[i].addrs[NDIRECT], h \in 0 .. BSIZE - 1, D[x][h] = 0, b \in Blks \ U,
                    E = Put(Put(D, b, Zero), x, Put(D[x], h, b))
             PROVE  /\ E \in [Blks -> Block]
                    /\ h + NDIRECT + 1 \in Places /\ Ptr(I, D, i, h + NDIRECT + 1) = 0
                    /\ Gains(I, D, I, E, i, h + NDIRECT + 1, b)
  BY ZenonT(60) DEF FreeEntry, GainsEntry
<1> USE DEF Put
<1>0. h \in Nat /\ h < BSIZE
  BY Sizes0
<1>1. /\ x # 0 /\ x # b /\ x \in Blks /\ D[x] \in Block /\ Zero \in Block /\ b \in Nat
      /\ h + NDIRECT + 1 \in Places /\ ~(h + NDIRECT + 1 <= NDIRECT)
      /\ (h + NDIRECT + 1) - NDIRECT - 1 = h
  <2>1. Zero \in Block
    BY Zenon DEF Zero, Block
  <2>2. /\ h + NDIRECT + 1 \in Places /\ ~(h + NDIRECT + 1 <= NDIRECT)
        /\ (h + NDIRECT + 1) - NDIRECT - 1 = h
    BY <1>0, Sizes0 DEF Places
  <2>3. x # 0 /\ x # b /\ x \in Blks /\ b \in Nat
    BY Zenon, Sizes0
  <2> QED BY Zenon, <2>1, <2>2, <2>3
<1>2. [D[x] EXCEPT ![h] = b] \in Block
  BY Zenon, <1>1 DEF Block
<1>3. /\ E \in [Blks -> Block] /\ E[x] = [D[x] EXCEPT ![h] = b]
      /\ \A a \in Blks : a # b /\ a # x => E[a] = D[a]
  BY ZenonT(60), <1>1, <1>2
<1>4. E[x][h] = b /\ \A g \in 0 .. BSIZE - 1 : g # h => E[x][g] = D[x][g]
  BY ZenonT(60), <1>1, <1>3 DEF Block
<1>5. Ptr(I, D, i, h + NDIRECT + 1) = 0
  <2>1. PICK p \in Places : p = h + NDIRECT + 1
    BY Zenon, <1>1
  <2>2. ~(p <= NDIRECT) /\ p - NDIRECT - 1 = h
    BY Zenon, <2>1, <1>1
  <2>3. Ptr(I, D, i, p) = 0
    BY Zenon, <2>2 DEF Ptr
  <2> QED BY Zenon, <2>1, <2>3
<1>6. ASSUME NEW j \in Files, NEW k \in Places
      PROVE  Ptr(I, E, j, k) = IF j = i /\ k = h + NDIRECT + 1 THEN b ELSE Ptr(I, D, j, k)
  <2>1. CASE k <= NDIRECT
    BY Zenon, <2>1, <1>1 DEF Ptr
  <2>2. CASE ~(k <= NDIRECT)
    <3>1. k - NDIRECT - 1 \in 0 .. BSIZE - 1 /\ (k - NDIRECT - 1 = h <=> k = h + NDIRECT + 1)
      BY <2>2, Sizes0 DEF Places
    <3>2. CASE j = i
      BY ZenonT(60), <3>1, <3>2, <2>2, <1>1, <1>4 DEF Ptr
    <3>3. CASE j # i /\ I[j].addrs[NDIRECT] # 0
      <4>1. I[j].addrs[NDIRECT] \in U /\ I[j].addrs[NDIRECT] # x
        <5>1. /\ I[j].addrs[NDIRECT] = Ptr(I, D, j, NDIRECT) /\ I[i].addrs[NDIRECT] = Ptr(I, D, i, NDIRECT)
              /\ I[j].addrs[NDIRECT] \in U
          BY <3>3, PtrUsed
        <5> QED BY SMTT(30), <5>1, <3>3, Sizes0 DEF Tree
      <4>2. E[I[j].addrs[NDIRECT]] = D[I[j].addrs[NDIRECT]]
        BY Zenon, <4>1, <1>3
      <4> QED BY <4>2, <3>3, <2>2 DEF Ptr
    <3>4. CASE j # i /\ I[j].addrs[NDIRECT] = 0
      BY ZenonT(60), <3>4, <2>2 DEF Ptr
    <3> QED BY Zenon, <3>2, <3>3, <3>4
  <2> QED BY Zenon, <2>1, <2>2
<1> QED BY Zenon, <1>1, <1>3, <1>5, <1>6 DEF Gains

\* What is written in a data block is no block number.
LEMMA DataWrite ==
  ASSUME NEW U, NEW D \in [Blks -> Block], NEW I, Tree(U, D, I), U \subseteq Blks,
         NEW i \in Files, NEW p \in Places, p # NDIRECT,
         NEW b, b = Ptr(I, D, i, p), b # 0, NEW v \in Block, NEW E, E = Put(D, b, v)
  PROVE  \A j \in Files, k \in Places : Ptr(I, E, j, k) = Ptr(I, D, j, k)
<1> USE DEF Put
<1>1. b \in U
  BY Zenon, PtrUsed
<1>3. \A a \in Blks : a # b => E[a] = D[a]
  BY Zenon, <1>1
<1>4. ASSUME NEW j \in Files PROVE I[j].addrs[NDIRECT] # 0 => E[I[j].addrs[NDIRECT]] = D[I[j].addrs[NDIRECT]]
  <2>1. SUFFICES ASSUME I[j].addrs[NDIRECT] # 0 PROVE I[j].addrs[NDIRECT] \in U /\ I[j].addrs[NDIRECT] # b
    BY Zenon, <1>3
  <2>2. I[j].addrs[NDIRECT] = Ptr(I, D, j, NDIRECT) /\ I[j].addrs[NDIRECT] \in U
    BY Zenon, <2>1, PtrUsed
  <2>3. Ptr(I, D, j, NDIRECT) = Ptr(I, D, i, p) => NDIRECT = p
    BY <2>1, <2>2, Sizes0 DEF Tree
  <2> QED BY Zenon, <2>2, <2>3, <1>1
<1> QED BY <1>4 DEF Ptr

\* A disk with more blocks allocated: what was in a place stays there, and only blocks
\* of addresses have changed.
Extends(U, D, I, V, E, J) ==
  /\ V \subseteq Blks /\ E \in [Blks -> Block] /\ J \in [Files -> Inode] /\ Tree(V, E, J)
  /\ \A j \in Files : J[j].size = I[j].size
  /\ \A j \in Files, k \in Places : Ptr(I, D, j, k) # 0 => Ptr(J, E, j, k) = Ptr(I, D, j, k)
  /\ \A b \in U : b \in V /\ ((\A j \in Files : b # Ptr(I, D, j, NDIRECT)) => E[b] = D[b])

\* A block is in one place.
LEMMA OnePlace ==
  ASSUME NEW U, NEW D, NEW I, Tree(U, D, I), NEW i \in Files, NEW j \in Files,
         NEW k \in Places, NEW l \in Places, Ptr(I, D, i, k) # 0, Ptr(I, D, i, k) = Ptr(I, D, j, l)
  PROVE  i = j /\ k = l
  BY DEF Tree

\* Nothing allocated.
LEMMA ExtendsSame ==
  ASSUME NEW U, NEW D \in [Blks -> Block], NEW I \in [Files -> Inode], U \subseteq Blks, Tree(U, D, I)
  PROVE  Extends(U, D, I, U, D, I)
  BY Zenon DEF Extends

\* One allocation after another.
LEMMA ExtendsTwice ==
  ASSUME NEW U, NEW D, NEW I, NEW V, NEW E, NEW J, NEW X, NEW F, NEW K, Tree(U, D, I), U \subseteq Blks,
         Extends(U, D, I, V, E, J), Extends(V, E, J, X, F, K)
  PROVE  Extends(U, D, I, X, F, K)
<1>1. \A j \in Files : K[j].size = I[j].size
  BY Zenon DEF Extends
<1>2. \A j \in Files, k \in Places : Ptr(I, D, j, k) # 0 => Ptr(K, F, j, k) = Ptr(I, D, j, k)
  BY Zenon DEF Extends
<1>3. ASSUME NEW b \in U, \A j \in Files : b # Ptr(I, D, j, NDIRECT) PROVE F[b] = D[b]
  <2>1. E[b] = D[b] /\ b \in V
    BY Zenon, <1>3 DEF Extends
  <2>2. ASSUME NEW j \in Files, b = Ptr(J, E, j, NDIRECT) PROVE FALSE
    <3>1. PICK i \in Files, k \in Places : b = Ptr(I, D, i, k)
      BY Zenon DEF Tree
    <3>2. b # 0
      BY Zenon, Sizes0
    <3>3. b = Ptr(J, E, i, k)
      BY Zenon, <3>1, <3>2 DEF Extends
    <3>4. Tree(V, E, J) /\ NDIRECT \in Places
      BY Zenon, Sizes0 DEF Extends
    <3>5. i = j /\ k = NDIRECT
      <4>1. NDIRECT \in Places /\ Ptr(J, E, i, k) # 0 /\ Ptr(J, E, i, k) = Ptr(J, E, j, NDIRECT)
        BY Zenon, <2>2, <3>2, <3>3, <3>4
      <4> QED BY <4>1, <3>4, OnePlace
    <3> QED BY Zenon, <3>1, <3>5, <1>3
  <2>3. F[b] = E[b]
    BY Zenon, <2>1, <2>2 DEF Extends
  <2> QED BY Zenon, <2>1, <2>3
<1>4. \A b \in U : b \in X
  BY Zenon DEF Extends
<1> QED BY Zenon, <1>1, <1>2, <1>3, <1>4 DEF Extends

DiskType == [used : SUBSET Blks, data : [Blks -> Block], ip : Inode, log : SUBSET (Blks \cup {BITMAP}),
             addr : Blks \cup {0}]

\* balloc finds a free block as long as there is one.
LEMMA BallocIs ==
  ASSUME NEW s \in DiskType, Blks \ s.used # {}
  PROVE  \E b \in Blks \ s.used :
           /\ Balloc(s) \in DiskType /\ Balloc(s).addr = b /\ Balloc(s).ip = s.ip
           /\ Balloc(s).used = s.used \cup {b} /\ Balloc(s).data = [s.data EXCEPT ![b] = Zero]
           /\ Balloc(s).log = s.log \cup {BITMAP, b}
<1>1. PICK b \in Blks \ s.used : b = Min(Blks \ s.used)
  BY Zenon, LeastExists, Sizes0
<1>2. Zero \in Block
  BY Zenon DEF Zero, Block
<1>3. s.data \in [Blks -> Block] /\ s.used \subseteq Blks /\ s.log \subseteq Blks \cup {BITMAP}
  BY Zenon DEF DiskType
<1>4. Balloc(s) = [s EXCEPT !.used = s.used \cup {b}, !.data = [s.data EXCEPT ![b] = Zero],
                            !.log = s.log \cup {BITMAP, b}, !.addr = b]
  BY Zenon, <1>1 DEF Balloc
<1>5. [s.data EXCEPT ![b] = Zero] \in [Blks -> Block]
  BY Zenon, <1>2, <1>3
<1>6. s.used \cup {b} \in SUBSET Blks /\ s.log \cup {BITMAP, b} \in SUBSET (Blks \cup {BITMAP})
  BY Zenon, <1>3
<1>7. Balloc(s) \in DiskType
  BY Zenon, <1>4, <1>5, <1>6 DEF DiskType
<1>8. /\ Balloc(s).addr = b /\ Balloc(s).ip = s.ip
      /\ Balloc(s).used = s.used \cup {b} /\ Balloc(s).data = [s.data EXCEPT ![b] = Zero]
      /\ Balloc(s).log = s.log \cup {BITMAP, b}
  BY Zenon, <1>4 DEF DiskType
<1> QED BY Zenon, <1>7, <1>8

\* An entry of addrs, found or allocated.
LEMMA EntryIs ==
  ASSUME NEW I \in [Files -> Inode], NEW i \in Files, NEW s \in DiskType, s.ip = I[i],
         Tree(s.used, s.data, I), Blks \ s.used # {}, NEW p \in 0 .. NDIRECT,
         NEW e, e = Entry(s, p), NEW J, J = Put(I, i, e.ip)
  PROVE  /\ e \in DiskType /\ Extends(s.used, s.data, I, e.used, e.data, J)
         /\ e.addr = e.ip.addrs[p] /\ e.addr \in Blks /\ J[i] = e.ip
         /\ s.ip.addrs[p] # 0 => e.ip = s.ip /\ e.data = s.data /\ e.log = s.log
         /\ e.log \subseteq s.log \cup {BITMAP, e.addr}
         /\ e.used \subseteq s.used \cup {e.addr}
<1>1. /\ s.ip \in Inode /\ s.ip.addrs \in [0 .. NDIRECT -> Blks \cup {0}]
      /\ s.data \in [Blks -> Block] /\ s.used \subseteq Blks
  BY Zenon DEF DiskType, Inode
<1>2. CASE s.ip.addrs[p] # 0
  <2>1. e = [s EXCEPT !.addr = s.ip.addrs[p]] /\ s.ip.addrs[p] \in Blks
    BY Zenon, <1>1, <1>2 DEF Entry
  <2>2. /\ e \in DiskType /\ e.used = s.used /\ e.data = s.data /\ e.ip = s.ip /\ e.log = s.log
        /\ e.addr = s.ip.addrs[p]
    BY Zenon, <2>1 DEF DiskType
  <2>3. J = I
    BY Zenon, <2>2 DEF Put
  <2>4. Extends(s.used, s.data, I, e.used, e.data, J)
    BY Zenon, <2>2, <2>3, <1>1, ExtendsSame
  <2> QED BY Zenon, <2>1, <2>2, <2>3, <2>4, <1>2
<1>3. CASE s.ip.addrs[p] = 0
  <2>1. PICK a \in DiskType : a = Balloc(s)
    BY Zenon, BallocIs
  <2>2. PICK b \in Blks \ s.used : /\ a.addr = b /\ a.ip = s.ip /\ a.used = s.used \cup {b}
                                   /\ a.data = [s.data EXCEPT ![b] = Zero] /\ a.log = s.log \cup {BITMAP, b}
    BY Zenon, <2>1, BallocIs
  <2>3. e = [a EXCEPT !.ip = [a.ip EXCEPT !.addrs = [a.ip.addrs EXCEPT ![p] = b]]]
    BY Zenon, <2>1, <2>2, <1>3 DEF Entry
  <2>4. PICK A \in [0 .. NDIRECT -> Blks \cup {0}] : A = [s.ip.addrs EXCEPT ![p] = b] /\ A[p] = b
    <3>1. b \in Blks \cup {0} /\ s.ip.addrs \in [0 .. NDIRECT -> Blks \cup {0}]
      BY Zenon, <1>1
    <3>2. /\ [s.ip.addrs EXCEPT ![p] = b] \in [0 .. NDIRECT -> Blks \cup {0}]
          /\ [s.ip.addrs EXCEPT ![p] = b][p] = b
      BY Zenon, <3>1
    <3> QED BY Zenon, <3>2
  <2>5. [s.ip EXCEPT !.addrs = A] \in Inode /\ [s.ip EXCEPT !.addrs = A].addrs = A
        /\ [s.ip EXCEPT !.addrs = A].size = s.ip.size
    BY Zenon, <1>1, <2>4 DEF Inode
  <2>6. /\ e \in DiskType /\ e.ip = [s.ip EXCEPT !.addrs = A] /\ e.used = s.used \cup {b}
        /\ e.data = [s.data EXCEPT ![b] = Zero] /\ e.log = s.log \cup {BITMAP, b} /\ e.addr = b
    BY <2>2, <2>3, <2>4, <2>5 DEF DiskType
  <2>7. J = Put(I, i, SetAddr(I[i], p, b)) /\ Ptr(I, s.data, i, p) = 0
    BY <2>4, <2>6, <1>3, Sizes0 DEF SetAddr, Ptr
  <2>8. /\ e.data \in [Blks -> Block] /\ J \in [Files -> Inode] /\ p \in Places /\ Ptr(I, s.data, i, p) = 0
        /\ Gains(I, s.data, J, e.data, i, p, b)
    <3>1. PICK U, D, E : U = s.used /\ D = s.data /\ E = e.data
      OBVIOUS
    <3>2. D \in [Blks -> Block] /\ U \subseteq Blks /\ Tree(U, D, I)
      BY Zenon, <3>1, <1>1
    <3>3. E = Put(D, b, Zero) /\ b \in Blks \ U
      BY Zenon, <3>1, <2>6 DEF Put
    <3>4. Ptr(I, D, i, p) = 0
      BY Zenon, <3>1, <2>7
    <3>5. Gains(I, D, J, E, i, p, b)
      BY ONLY Zenon, I \in [Files -> Inode], i \in Files, p \in 0 .. NDIRECT, <3>2, <3>3, <3>4, <2>7, AllocEntry
    <3>6. E \in [Blks -> Block]
      BY Zenon, <3>1, <2>6 DEF DiskType
    <3>7. J \in [Files -> Inode] /\ p \in Places
      <4>1. e.ip \in Inode
        BY Zenon, <2>5, <2>6
      <4>2. J \in [Files -> Inode]
        BY Zenon, <4>1 DEF Put
      <4>3. p \in Places
        BY Sizes0 DEF Places
      <4> QED BY Zenon, <4>2, <4>3
    <3> QED BY Zenon, <3>4, <3>5, <3>6, <3>7, <3>1
  <2>9. Tree(e.used, e.data, J)
    <3>1. PICK U, D, E : U = s.used /\ D = s.data /\ E = e.data
      OBVIOUS
    <3>2. U \subseteq Blks /\ Tree(U, D, I) /\ b \in Blks \ U /\ p \in Places /\ Ptr(I, D, i, p) = 0
      BY Zenon, <3>1, <1>1, <2>8
    <3>3. Gains(I, D, J, E, i, p, b)
      BY Zenon, <3>1, <2>8
    <3>4. Tree(U \cup {b}, E, J)
      BY ONLY Zenon, <3>2, <3>3, i \in Files, TreeGrows
    <3> QED BY Zenon, <3>4, <3>1, <2>6
  <2>10. J[i] = e.ip /\ \A j \in Files : J[j].size = I[j].size
    BY Zenon, <2>5, <2>6 DEF Put
  <2>11. \A c \in s.used : c \in e.used /\ e.data[c] = s.data[c]
    BY Zenon, <2>6, <1>1
  <2>12. Extends(s.used, s.data, I, e.used, e.data, J)
    <3>1. \A j \in Files, k \in Places : Ptr(I, s.data, j, k) # 0 => Ptr(J, e.data, j, k) = Ptr(I, s.data, j, k)
      BY Zenon, <2>8 DEF Gains
    <3>2. e.used \subseteq Blks
      BY Zenon, <2>6, <1>1
    <3> QED BY Zenon, <3>1, <3>2, <2>8, <2>9, <2>10, <2>11 DEF Extends
  <2> QED BY Zenon, <2>4, <2>5, <2>6, <2>10, <2>12, <1>3
<1> QED BY Zenon, <1>2, <1>3

\* bmap: block bn of file i has a number, allocated with the indirect block if need be.
LEMMA BmapIs ==
  ASSUME NEW I \in [Files -> Inode], NEW i \in Files, NEW s \in DiskType, s.ip = I[i],
         Tree(s.used, s.data, I), Blks \ s.used # {}, \A b : Blks \ (s.used \cup {b}) # {},
         NEW bn \in 0 .. MAXFILE - 1, NEW r, r = Bmap(s, bn), NEW J, J = Put(I, i, r.ip)
  PROVE  /\ Extends(s.used, s.data, I, r.used, r.data, J) /\ J[i] = r.ip /\ r \in DiskType
         /\ r.addr = Ptr(J, r.data, i, Place(bn)) /\ r.addr \in Blks
         /\ Ptr(I, s.data, i, Place(bn)) # 0 => r.ip = s.ip
         /\ r.log \subseteq s.log \cup {BITMAP, r.addr, Ptr(J, r.data, i, NDIRECT)}
<1>1. CASE bn < NDIRECT
  <2>1. bn \in 0 .. NDIRECT /\ Place(bn) = bn /\ bn <= NDIRECT
    BY <1>1, Sizes0 DEF Place
  <2>2. r = Entry(s, bn)
    BY Zenon, <1>1 DEF Bmap
  <2>3. /\ r \in DiskType /\ Extends(s.used, s.data, I, r.used, r.data, J)
        /\ r.addr = r.ip.addrs[bn] /\ r.addr \in Blks /\ J[i] = r.ip
        /\ s.ip.addrs[bn] # 0 => r.ip = s.ip
        /\ r.log \subseteq s.log \cup {BITMAP, r.addr}
    <3>1. PICK p \in 0 .. NDIRECT : p = bn
      BY Zenon, <2>1
    <3>2. r = Entry(s, p)
      BY Zenon, <3>1, <2>2
    <3>3. /\ r \in DiskType /\ Extends(s.used, s.data, I, r.used, r.data, J)
          /\ r.addr = r.ip.addrs[p] /\ r.addr \in Blks /\ J[i] = r.ip
          /\ s.ip.addrs[p] # 0 => r.ip = s.ip /\ r.data = s.data /\ r.log = s.log
          /\ r.log \subseteq s.log \cup {BITMAP, r.addr}
          /\ r.used \subseteq s.used \cup {r.addr}
      BY ONLY SMTT(30), I \in [Files -> Inode], i \in Files, s \in DiskType, s.ip = I[i], Tree(s.used, s.data, I),
         Blks \ s.used # {}, p \in 0 .. NDIRECT, <3>2, J = Put(I, i, r.ip), EntryIs
    <3> QED BY Zenon, <3>1, <3>3
  <2>4. Ptr(J, r.data, i, bn) = r.addr /\ Ptr(I, s.data, i, bn) = s.ip.addrs[bn]
    BY Zenon, <2>1, <2>3 DEF Ptr
  <2> QED BY Zenon, <2>1, <2>3, <2>4
<1>2. CASE ~(bn < NDIRECT)
  <2> DEFINE e == Entry(s, NDIRECT)
             h == bn - NDIRECT
             K == Put(I, i, e.ip)
  <2>1. h \in 0 .. BSIZE - 1 /\ Place(bn) = h + NDIRECT + 1
    BY <1>2, Sizes0 DEF Place
  <2>2. /\ e \in DiskType /\ Extends(s.used, s.data, I, e.used, e.data, K)
        /\ e.addr = e.ip.addrs[NDIRECT] /\ e.addr \in Blks /\ K[i] = e.ip
        /\ s.ip.addrs[NDIRECT] # 0 => e.ip = s.ip /\ e.data = s.data /\ e.log = s.log
        /\ e.log \subseteq s.log \cup {BITMAP, e.addr}
        /\ e.used \subseteq s.used \cup {e.addr}
    <3>1. NDIRECT \in 0 .. NDIRECT
      BY Zenon, Sizes0
    <3>2. PICK x, y : x = e /\ y = K
      OBVIOUS
    <3>3. x = Entry(s, NDIRECT) /\ y = Put(I, i, x.ip)
      BY Zenon, <3>2
    <3> HIDE DEF e, h, K
    <3>4. /\ x \in DiskType /\ Extends(s.used, s.data, I, x.used, x.data, y)
          /\ x.addr = x.ip.addrs[NDIRECT] /\ x.addr \in Blks /\ y[i] = x.ip
          /\ s.ip.addrs[NDIRECT] # 0 => x.ip = s.ip /\ x.data = s.data /\ x.log = s.log
          /\ x.log \subseteq s.log \cup {BITMAP, x.addr}
          /\ x.used \subseteq s.used \cup {x.addr}
      BY ONLY SMTT(30), I \in [Files -> Inode], i \in Files, s \in DiskType, s.ip = I[i], Tree(s.used, s.data, I),
         Blks \ s.used # {}, <3>1, <3>3, EntryIs
    <3> QED BY Zenon, <3>2, <3>4
  <2>3. r = IF e.data[e.addr][h] # 0 THEN [e EXCEPT !.addr = e.data[e.addr][h]]
            ELSE LET a == Balloc(e)
                 IN  [a EXCEPT !.data[e.addr][h] = a.addr, !.log = @ \cup {e.addr}]
    BY Zenon, <1>2 DEF Bmap
  <2> HIDE DEF e, h, K
  <2>4. /\ K \in [Files -> Inode] /\ Tree(e.used, e.data, K) /\ e.used \subseteq Blks
        /\ e.data \in [Blks -> Block] /\ e.addr # 0 /\ e.addr = K[i].addrs[NDIRECT]
        /\ e.addr \in e.used /\ K[i].addrs[NDIRECT] = Ptr(K, e.data, i, NDIRECT)
    <3>1. /\ K \in [Files -> Inode] /\ Tree(e.used, e.data, K) /\ e.used \subseteq Blks
          /\ e.data \in [Blks -> Block]
      BY Zenon, <2>2 DEF Extends
    <3>2. e.addr # 0 /\ e.addr = K[i].addrs[NDIRECT]
      BY Zenon, <2>2, Sizes0
    <3>3. K[i].addrs[NDIRECT] = Ptr(K, e.data, i, NDIRECT) /\ (K[i].addrs[NDIRECT] # 0 => K[i].addrs[NDIRECT] \in e.used)
      BY ONLY <3>1, i \in Files, PtrUsed
    <3> QED BY Zenon, <3>1, <3>2, <3>3
  <2>5. Place(bn) \in Places /\ Ptr(K, e.data, i, Place(bn)) = e.data[e.addr][h]
    <3>1. PICK p \in Places : p = Place(bn) /\ ~(p <= NDIRECT) /\ p - NDIRECT - 1 = h
      BY <2>1, Sizes0 DEF Places
    <3>2. Ptr(K, e.data, i, p) = e.data[e.addr][h]
      BY Zenon, <3>1, <2>4 DEF Ptr
    <3> QED BY Zenon, <3>1, <3>2
  <2>6. Ptr(I, s.data, i, Place(bn)) # 0 => e.ip = s.ip /\ e.data[e.addr][h] # 0
    <3>1. SUFFICES ASSUME Ptr(I, s.data, i, Place(bn)) # 0 PROVE e.ip = s.ip /\ e.data[e.addr][h] # 0
      OBVIOUS
    <3>2. Ptr(K, e.data, i, Place(bn)) = Ptr(I, s.data, i, Place(bn))
      BY Zenon, <3>1, <2>2, <2>5 DEF Extends
    <3>3. PICK p \in Places : p = Place(bn) /\ ~(p <= NDIRECT)
      BY <2>1, <2>5, Sizes0
    <3>4. s.ip.addrs[NDIRECT] # 0
      BY Zenon, <3>1, <3>3 DEF Ptr
    <3> QED BY Zenon, <3>1, <3>2, <3>4, <2>2, <2>5
  <2>7. CASE e.data[e.addr][h] # 0
    <3>1. e.data[e.addr][h] \in Blks
      BY Zenon, <2>4, <2>5, <2>7, PtrUsed
    <3>2. r = [e EXCEPT !.addr = e.data[e.addr][h]]
      BY Zenon, <2>3, <2>7
    <3>3. /\ r \in DiskType /\ r.used = e.used /\ r.data = e.data /\ r.ip = e.ip /\ r.log = e.log
          /\ r.addr = e.data[e.addr][h]
      BY Zenon, <3>1, <3>2, <2>2 DEF DiskType
    <3>4. J = K
      BY Zenon, <3>3 DEF K
    <3>5. r.log \subseteq s.log \cup {BITMAP, r.addr, Ptr(J, r.data, i, NDIRECT)}
      BY Zenon, <3>3, <3>4, <2>2, <2>4
    <3> QED BY ZenonT(60), <3>1, <3>3, <3>4, <3>5, <2>2, <2>5, <2>6
  <2>8. CASE e.data[e.addr][h] = 0
    <3>1. Blks \ e.used # {}
      <4>1. Blks \ (s.used \cup {e.addr}) # {}
        OBVIOUS
      <4> QED BY Zenon, <4>1, <2>2
    <3>2. PICK a \in DiskType : a = Balloc(e)
      BY Zenon, <3>1, <2>2, BallocIs
    <3>3. PICK b \in Blks \ e.used : /\ a.addr = b /\ a.ip = e.ip /\ a.used = e.used \cup {b}
                                     /\ a.data = [e.data EXCEPT ![b] = Zero] /\ a.log = e.log \cup {BITMAP, b}
      BY Zenon, <3>1, <3>2, <2>2, BallocIs
    <3>4. a.data[e.addr] = e.data[e.addr]
      BY Zenon, <3>3, <2>4
    <3>5. PICK E : E = Put(Put(e.data, b, Zero), e.addr, Put(e.data[e.addr], h, b))
      OBVIOUS
    <3>6. /\ E \in [Blks -> Block] /\ Ptr(K, e.data, i, Place(bn)) = 0
          /\ Gains(K, e.data, K, E, i, Place(bn), b)
      <4>1. PICK x \in e.used : x = e.addr
        BY Zenon, <2>4
      <4>2. /\ e.data \in [Blks -> Block] /\ Tree(e.used, e.data, K) /\ e.used \subseteq Blks
            /\ x = K[i].addrs[NDIRECT] /\ h \in 0 .. BSIZE - 1 /\ e.data[x][h] = 0
        BY Zenon, <4>1, <2>1, <2>4, <2>8
      <4>3. E = Put(Put(e.data, b, Zero), x, Put(e.data[x], h, b))
        BY ZenonT(60), <4>1, <3>5
      <4>4. /\ E \in [Blks -> Block]
            /\ h + NDIRECT + 1 \in Places /\ Ptr(K, e.data, i, h + NDIRECT + 1) = 0
            /\ Gains(K, e.data, K, E, i, h + NDIRECT + 1, b)
        <5>1. PICK U, D : U = e.used /\ D = e.data
          OBVIOUS
        <5>2. FreeEntry(U, D, K, i, x, h, b, E)
          BY Zenon, <5>1, <4>2, <4>3 DEF FreeEntry
        <5>3. GainsEntry(D, K, i, h, b, E)
          BY ONLY ZenonT(60), <5>2, AllocIndirect
        <5> QED BY Zenon, <5>1, <5>3 DEF GainsEntry
      <4> QED BY Zenon, <4>4, <2>1
    <3>7. r = [a EXCEPT !.data = E, !.log = a.log \cup {e.addr}]
      <4>1. r = [a EXCEPT !.data[e.addr][h] = a.addr, !.log = @ \cup {e.addr}]
        BY Zenon, <3>2, <2>3, <2>8
      <4>2. r = [a EXCEPT !.data = [a.data EXCEPT ![e.addr] = [a.data[e.addr] EXCEPT ![h] = b]],
                          !.log = a.log \cup {e.addr}]
        BY Zenon, <4>1, <3>3
      <4> QED BY Zenon, <4>2, <3>3, <3>4, <3>5 DEF Put
    <3>8. /\ r \in DiskType /\ r.used = e.used \cup {b} /\ r.data = E /\ r.ip = e.ip /\ r.addr = b
          /\ r.log = e.log \cup {BITMAP, b} \cup {e.addr}
      <4>1. a.log \cup {e.addr} \in SUBSET (Blks \cup {BITMAP})
        BY Zenon, <2>2 DEF DiskType
      <4>2. /\ r \in DiskType /\ r.used = a.used /\ r.data = E /\ r.ip = a.ip /\ r.addr = a.addr
            /\ r.log = a.log \cup {e.addr}
        BY Zenon, <4>1, <3>6, <3>7 DEF DiskType
      <4> QED BY Zenon, <4>2, <3>3
    <3>9. J = K
      BY Zenon, <3>8 DEF K
    <3>10. Tree(r.used, r.data, K)
      <4>1. e.used \subseteq Blks /\ Tree(e.used, e.data, K) /\ Place(bn) \in Places
        BY Zenon, <2>4, <2>5
      <4>2. Tree(e.used \cup {b}, E, K)
        BY Zenon, <4>1, <3>6, TreeGrows
      <4> QED BY Zenon, <4>2, <3>8
    <3>11. \A c \in e.used : c \in r.used /\ ((\A j \in Files : c # Ptr(K, e.data, j, NDIRECT)) => r.data[c] = e.data[c])
      <4>1. SUFFICES ASSUME NEW c \in e.used, c # e.addr PROVE r.data[c] = e.data[c]
        BY <3>8, <2>4
      <4> QED BY <4>1, <3>3, <3>5, <3>8, <2>4 DEF Put
    <3>12. Extends(e.used, e.data, K, r.used, r.data, K)
      BY SMTT(30), <3>6, <3>8, <3>10, <3>11, <2>4 DEF Extends, Gains
    <3>13. Extends(s.used, s.data, I, r.used, r.data, K)
      BY Zenon, <3>12, <2>2, ExtendsTwice DEF DiskType
    <3>14. r.addr = Ptr(K, r.data, i, Place(bn)) /\ Ptr(K, r.data, i, NDIRECT) = e.addr
      <4>1. Place(bn) # NDIRECT /\ NDIRECT \in Places
        BY <2>1, Sizes0
      <4> QED BY ZenonT(60), <4>1, <3>6, <3>8, <2>4, <2>5 DEF Gains
    <3>15. r.log \subseteq s.log \cup {BITMAP, r.addr, Ptr(K, r.data, i, NDIRECT)}
      BY Zenon, <3>8, <3>14, <2>2
    <3> QED BY ZenonT(60), <3>8, <3>9, <3>13, <3>14, <3>15, <2>2, <2>6, <2>8
  <2> QED BY Zenon, <2>7, <2>8
<1> QED BY Zenon, <1>1, <1>2

\* Room leaves a free block, and another one after any one has been taken.
LEMMA TwoFree ==
  ASSUME NEW U, U \subseteq Blks, Cardinality(Blks \ U) >= 2
  PROVE  Blks \ U # {} /\ \A b : Blks \ (U \cup {b}) # {}
<1>1. IsFiniteSet(Blks \ U)
  <2>1. 1 \in Int /\ FSSIZE \in Int
    BY BlocksAssumption
  <2>2. IsFiniteSet(1 .. FSSIZE)
    BY Zenon, <2>1, FS_Interval
  <2> QED BY Zenon, <2>2, FS_Subset DEF Blks
<1>2. Blks \ U # {}
  BY FS_EmptySet
<1>3. ASSUME NEW b, Blks \ (U \cup {b}) = {} PROVE FALSE
  <2>1. Blks \ U \subseteq {b}
    BY Zenon, <1>3
  <2>2. IsFiniteSet({b}) /\ Cardinality({b}) = 1
    BY Zenon, FS_Singleton
  <2>3. Cardinality(Blks \ U) <= 1 /\ Cardinality(Blks \ U) \in Nat
    BY ZenonT(60), <2>1, <2>2, <1>1, FS_Subset, FS_CardinalityType
  <2> QED BY <2>3
<1> QED BY Zenon, <1>2, <1>3

\* The places depend on the addresses, not on the size.
LEMMA SameAddrs ==
  ASSUME NEW I, NEW J, NEW D, NEW i \in Files, J[i].addrs = I[i].addrs
  PROVE  /\ \A k \in Places : Ptr(J, D, i, k) = Ptr(I, D, i, k)
         /\ \A n \in Words : At(J, D, i, n) = At(I, D, i, n) /\ Word(J, D, i, n) = Word(I, D, i, n)
<1>1. \A k : Ptr(J, D, i, k) = Ptr(I, D, i, k)
  BY Zenon DEF Ptr
<1> QED BY Zenon, <1>1 DEF At, Word

\* A function on 1 .. n is a sequence of length n.
LEMMA FunctionSeq ==
  ASSUME NEW n \in Nat, NEW g \in [1 .. n -> Nat]
  PROVE  g \in Seq(Nat) /\ Len(g) = n
  OBVIOUS

\* What readi returns has the length of what there is to read.
LEMMA ReadiLen ==
  ASSUME NEW i \in Files, NEW off \in Nat, NEW n \in Nat, NEW z \in Nat, z = ip[i].size, off <= z
  PROVE  Len(Readi(i, off, n)) \in Nat /\ off + Len(Readi(i, off, n)) <= z
<1>1. PICK m \in Nat : m = Min({n, z - off}) /\ m <= z - off
  <2>1. z - off \in Int /\ n \in Int
    OBVIOUS
  <2> QED BY <2>1, MinMaxPair
<1>2. Len(Readi(i, off, n)) = m
  BY <1>1 DEF Readi
<1> QED BY <1>1, <1>2

\* What itrunc frees is what is in the places of the file.
LEMMA InFileIs ==
  ASSUME NEW i \in Files, NEW b, b # 0
  PROVE  b \in InFile(i) <=> \E k \in Places : b = Ptr(ip, data, i, k)
<1>1. ASSUME b \in InFile(i) PROVE \E k \in Places : b = Ptr(ip, data, i, k)
  <2>1. CASE \E k \in 0 .. NDIRECT : b = ip[i].addrs[k]
    <3>1. PICK k \in 0 .. NDIRECT : b = ip[i].addrs[k]
      BY Zenon, <2>1
    <3>2. k \in Places /\ k <= NDIRECT
      BY Sizes0 DEF Places
    <3> QED BY Zenon, <3>1, <3>2 DEF Ptr
  <2>2. CASE ip[i].addrs[NDIRECT] # 0 /\ \E h \in 0 .. BSIZE - 1 : b = data[ip[i].addrs[NDIRECT]][h]
    <3>1. PICK h \in 0 .. BSIZE - 1 : b = data[ip[i].addrs[NDIRECT]][h]
      BY Zenon, <2>2
    <3>2. PICK k \in Places : ~(k <= NDIRECT) /\ k - NDIRECT - 1 = h
      <4>1. /\ h + NDIRECT + 1 \in Places /\ ~(h + NDIRECT + 1 <= NDIRECT)
            /\ (h + NDIRECT + 1) - NDIRECT - 1 = h
        BY Sizes0 DEF Places
      <4> QED BY Zenon, <4>1
    <3> QED BY Zenon, <2>2, <3>1, <3>2 DEF Ptr
  <2> QED BY Zenon, <1>1, <2>1, <2>2 DEF InFile
<1>2. ASSUME NEW k \in Places, b = Ptr(ip, data, i, k) PROVE b \in InFile(i)
  <2>1. CASE k <= NDIRECT
    <3>1. k \in 0 .. NDIRECT /\ b = ip[i].addrs[k]
      BY <1>2, <2>1, Sizes0 DEF Places, Ptr
    <3> QED BY Zenon, <3>1 DEF InFile
  <2>2. CASE ~(k <= NDIRECT)
    <3>1. PICK h \in 0 .. BSIZE - 1 : h = k - NDIRECT - 1
      BY <2>2, Sizes0 DEF Places
    <3>2. ip[i].addrs[NDIRECT] # 0 /\ b = data[ip[i].addrs[NDIRECT]][h]
      BY Zenon, <3>1, <2>2, <1>2 DEF Ptr
    <3> QED BY Zenon, <3>2 DEF InFile
  <2> QED BY Zenon, <2>1, <2>2
<1> QED BY Zenon, <1>1, <1>2

\* A chunk has room for a block, and is whole blocks.
LEMMA ChunkSize ==
  \E M \in Nat : M > 0 /\ 2 * M <= LOGSIZE - 4 /\ MaxChunk = M * BSIZE /\ MaxChunk \in Nat /\ MaxChunk > 0
<1>1. PICK L \in Nat : L = LOGSIZE - 1 - 1 - 2 /\ L >= 2
  BY BlocksAssumption
<1>2. PICK M \in Nat : M = L \div 2 /\ M > 0 /\ 2 * M <= L
  BY <1>1
<1>3. MaxChunk = M * BSIZE
  BY Zenon, <1>1, <1>2 DEF MaxChunk
<1>4. M * BSIZE \in Nat /\ M * BSIZE > 0
  BY <1>2, Sizes0
<1> QED BY <1>1, <1>2, <1>3, <1>4, BlocksAssumption

\* A later word is in a later block, or the same.
LEMMA DivMonotone ==
  ASSUME NEW o \in Nat, NEW a \in Nat, o <= a PROVE o \div BSIZE <= a \div BSIZE
<1>1. PICK q \in Nat, y \in 0 .. BSIZE - 1 : q = a \div BSIZE /\ y = a % BSIZE /\ a = q * BSIZE + y
  BY Zenon, DivMod
<1>2. PICK k \in Nat : k = q + 1 /\ k * BSIZE = q * BSIZE + BSIZE
  BY Sizes0
<1>3. PICK z \in Nat : z = q * BSIZE
  BY Sizes0
<1>4. o < k * BSIZE
  BY <1>1, <1>2, <1>3, Sizes0
<1>5. o \div BSIZE < k /\ o \div BSIZE \in Nat
  BY Zenon, <1>4, DivBelow, DivMod
<1>6. PICK d \in Nat : d = o \div BSIZE /\ d < k
  BY Zenon, <1>5
<1>7. d <= q
  BY ONLY <1>2, <1>6, q \in Nat
<1> QED BY Zenon, <1>1, <1>6, <1>7

\* Empty files, and a disk with no used block.
LEMMA InitInv == Init => IInv
<1> SUFFICES ASSUME Init PROVE IInv
  OBVIOUS
<1>1. /\ used = {} /\ data = [b \in Blks |-> Zero] /\ ip = [i \in Files |-> NoInode] /\ dip = ip
      /\ lock = [i \in Files |-> 0] /\ f \in [Threads -> [ip : Files, off : {0}]]
      /\ w = [t \in Threads |-> NoWrite] /\ log = [t \in Threads |-> {}]
      /\ calls = 0 /\ want = [i \in Files |-> <<>>]
  BY Zenon DEF Init
<1>2. Zero \in Block /\ NoInode \in Inode /\ NoInode.size = 0 /\ \A k \in 0 .. NDIRECT : NoInode.addrs[k] = 0
  <2>1. 0 \in 0 .. MAXFILE * BSIZE
    BY Sizes0
  <2> QED BY Zenon, <2>1 DEF Zero, Block, NoInode, Inode
<1>3. NoWrite \in [left : Nat, n : Nat, tot : Nat, id : Nat] /\ NoWrite.n = 0 /\ NoWrite.tot = 0 /\ NoWrite.left = 0
  BY Zenon DEF NoWrite
<1>4. \A i \in Files, k \in Places : Ptr(ip, data, i, k) = 0
  BY <1>1, <1>2, Sizes0 DEF Ptr, Places
<1>5. Types
  <2>1. <<>> \in Seq(Nat)
    OBVIOUS
  <2> QED BY Zenon, <1>1, <1>2, <1>3, <2>1 DEF Types
<1>6. Tree(used, data, ip)
  BY Zenon, <1>1, <1>4 DEF Tree
<1>7. \A t \in Threads : f[t].off = 0 /\ f[t].ip \in Files /\ w[t] = NoWrite
  BY Zenon, <1>1
<1>8. LockInv
  <2>1. MaxChunk \in Nat
    BY Zenon, ChunkSize
  <2>2. \A t \in Threads : ip[f[t].ip].size = 0 /\ log[t] = {}
    BY Zenon, <1>1, <1>2, <1>7
  <2> QED BY <2>1, <2>2, <1>1, <1>3, <1>7 DEF LockInv
<1>9. WordInv
  <2>1. \A i \in Files : ip[i].size = 0 /\ Len(want[i]) = 0
    BY Zenon, <1>1, <1>2
  <2>2. \A n \in Words : ~(n < 0)
    BY WordPlace
  <2>3. \A t \in Threads, n \in Words : ~Written(t, n)
    BY <1>3, <1>7, <2>2 DEF Written
  <2> QED BY Zenon, <2>1, <2>2, <2>3 DEF WordInv
<1>10. DiskInv
  BY Zenon, <1>1 DEF DiskInv
<1>11. LogInv
  BY Zenon, <1>1 DEF LogInv
<1> QED BY Zenon, <1>5, <1>6, <1>8, <1>9, <1>10, <1>11 DEF IInv

\* Calls that touch no block: t is between two chunks, and may move its offset, start a
\* write, or lock its inode for a chunk.
LEMMA NoBlocksInv ==
  ASSUME IInv, NEW t \in Threads, NEW i \in Files, i = f[t].ip, w[t].n = 0,
         used' = used, data' = data, ip' = ip, dip' = dip, log' = log, want' = want, calls' \in Nat,
         f' \in [Threads -> [ip : Files, off : Nat]], f'[t].off <= ip[i].size,
         \A u \in Threads : f'[u].ip = f[u].ip /\ (u # t => f'[u] = f[u] /\ w'[u] = w[u]),
         w' \in [Threads -> [left : Nat, n : Nat, tot : Nat, id : Nat]],
         w'[t].tot = 0, w'[t].n <= w'[t].left, w'[t].n <= MaxChunk,
         w'[t].n = 0 => lock' = lock,
         w'[t].n > 0 => lock[i] = 0 /\ lock' = [lock EXCEPT ![i] = t] /\ f'[t].off + w'[t].n <= MAXFILE * BSIZE
  PROVE  IInv'
<1>1. Types /\ Tree(used, data, ip) /\ LockInv /\ WordInv /\ DiskInv /\ LogInv
  BY Zenon DEF IInv
<1>2. w[t].tot = 0 /\ log[t] = {} /\ lock \in [Files -> Threads \cup {0}] /\ w'[t].n \in Nat /\ t # 0
  <2>1. lock \in [Files -> Threads \cup {0}] /\ w[t].tot \in Nat /\ w'[t].n \in Nat
    BY Zenon, <1>1 DEF Types
  <2>2. w[t].tot <= w[t].n /\ log[t] = {}
    BY ZenonT(60), <1>1 DEF LockInv
  <2> QED BY <2>1, <2>2, BlocksAssumption
<1>3. \A j \in Files : lock[j] # 0 => lock[j] # t /\ lock[j] \in Threads /\ f[lock[j]].ip = j
  BY SMTT(30), <1>1, <1>2 DEF LockInv
<1>4. /\ lock' \in [Files -> Threads \cup {0}] /\ \A j \in Files : lock[j] # 0 => lock'[j] = lock[j]
      /\ \A j \in Files : lock[j] = 0 /\ lock'[j] # 0 => j = i /\ lock'[j] = t /\ w'[t].n > 0
      /\ w'[t].n > 0 => lock'[i] = t
  <2>1. CASE w'[t].n = 0
    BY Zenon, <2>1, <1>2
  <2>2. CASE w'[t].n > 0
    BY ZenonT(60), <2>2, <1>2
  <2> QED BY <2>1, <2>2, <1>2
<1>5. Types'
  BY Zenon, <1>1, <1>4 DEF Types
<1>6. Tree(used', data', ip')
  BY Zenon, <1>1
<1>7. LockInv'
  <2>1. ASSUME NEW j \in Files, lock'[j] # 0 PROVE f'[lock'[j]].ip = j /\ w'[lock'[j]].n > 0
    <3>1. CASE lock[j] = 0
      BY ZenonT(60), <2>1, <3>1, <1>4
    <3>2. CASE lock[j] # 0
      BY <3>2, <1>1, <1>3, <1>4 DEF LockInv
    <3> QED BY Zenon, <3>1, <3>2
  <2>2. ASSUME NEW u \in Threads
        PROVE  /\ f'[u].off <= ip'[f'[u].ip].size
               /\ w'[u].tot <= w'[u].n /\ w'[u].n <= w'[u].left /\ w'[u].n <= MaxChunk
               /\ w'[u].n > 0 => lock'[f'[u].ip] = u /\ f'[u].off + w'[u].n <= MAXFILE * BSIZE
               /\ w'[u].n = 0 => log'[u] = {}
    <3>1. CASE u = t
      BY SMTT(30), <3>1, <1>2, <1>4
    <3>2. CASE u # t
      <4>1. f'[u] = f[u] /\ w'[u] = w[u] /\ f[u].ip \in Files /\ u # 0
        BY ZenonT(60), <3>2, <1>1, BlocksAssumption DEF Types
      <4>2. w[u].n > 0 => lock'[f[u].ip] = u
        BY <4>1, <1>1, <1>4 DEF LockInv
      <4> QED BY <4>1, <4>2, <1>1 DEF LockInv
    <3> QED BY Zenon, <3>1, <3>2
  <2> QED BY Zenon, <2>1, <2>2 DEF LockInv
<1>8. \A u \in Threads, k \in Words : Written(u, k)' <=> Written(u, k)
  <2>1. ASSUME NEW u \in Threads, NEW k \in Words PROVE Written(u, k)' <=> Written(u, k)
    <3>1. CASE u = t
      <4>1. f[t].off \in Nat /\ f'[t].off \in Nat /\ k \in Nat
        BY Zenon, <1>1, WordPlace DEF Types
      <4> QED BY <4>1, <3>1, <1>2 DEF Written
    <3>2. CASE u # t
      BY Zenon, <3>2 DEF Written
    <3> QED BY Zenon, <3>1, <3>2
  <2> QED BY Zenon, <2>1
<1>9. WordInv'
  <2>1. \A j \in Files : Len(want'[j]) = ip'[j].size
    BY Zenon, <1>1 DEF WordInv
  <2>2. \A j \in Files, k \in Words : k < ip'[j].size => At(ip', data', j, k) # 0
    BY Zenon, <1>1 DEF WordInv
  <2>3. ASSUME NEW u \in Threads, NEW k \in Words, Written(u, k)'
        PROVE  At(ip', data', f'[u].ip, k) # 0 /\ Word(ip', data', f'[u].ip, k) = w'[u].id
    <3>1. Written(u, k) /\ f'[u].ip = f[u].ip
      BY ZenonT(60), <2>3, <1>8
    <3>2. u # t
      <4>1. f[t].off \in Nat /\ k \in Nat
        BY Zenon, <1>1, WordPlace DEF Types
      <4> QED BY <4>1, <3>1, <1>2 DEF Written
    <3>3. At(ip, data, f[u].ip, k) # 0 /\ Word(ip, data, f[u].ip, k) = w[u].id
      BY Zenon, <3>1, <1>1 DEF WordInv
    <3>4. w'[u].id = w[u].id
      BY Zenon, <3>2
    <3> QED BY Zenon, <3>1, <3>3, <3>4
  <2>4. ASSUME NEW j \in Files, NEW k \in Words, k < ip'[j].size, lock'[j] # 0 => ~Written(lock[j], k)'
        PROVE  Word(ip', data', j, k) = want'[j][k + 1]
    <3>1. lock[j] # 0 => ~Written(lock[j], k)
      BY ZenonT(60), <2>4, <1>3, <1>4, <1>8
    <3> QED BY Zenon, <3>1, <2>4, <1>1 DEF WordInv
  <2> QED BY Zenon, <2>1, <2>2, <2>3, <2>4 DEF WordInv
<1>10. DiskInv'
  BY <1>1, <1>3, <1>4 DEF DiskInv
<1>11. LogInv'
  <2>1. ASSUME NEW u \in Threads, NEW b \in log'[u]
        PROVE  \/ b = BITMAP \/ b = Ptr(ip', data', f'[u].ip, NDIRECT)
               \/ \E bn \in 0 .. MAXFILE - 1 :
                    /\ f'[u].off \div BSIZE <= bn /\ bn * BSIZE < f'[u].off + w'[u].tot
                    /\ b = Ptr(ip', data', f'[u].ip, Place(bn))
    <3>1. u # t /\ b \in log[u]
      BY Zenon, <2>1, <1>2
    <3>2. f'[u] = f[u] /\ w'[u] = w[u]
      BY Zenon, <3>1
    <3> QED BY <3>1, <3>2, <1>1 DEF LogInv
  <2> QED BY ZenonT(60), <2>1 DEF LogInv
<1> QED BY ZenonT(60), <1>5, <1>6, <1>7, <1>9, <1>10, <1>11 DEF IInv

\* fileread leaves the offset within the file.
LEMMA FilereadInv ==
  ASSUME IInv, NEW t \in Threads, NEW n \in Sizes, Fileread(t, n)
  PROVE  IInv'
<1>1. Types /\ LockInv
  BY Zenon DEF IInv
<1>2. PICK i \in Files : i = f[t].ip
  BY Zenon, <1>1 DEF Types
<1>3. /\ w[t].left = 0 /\ calls' = calls + 1
      /\ f' = [f EXCEPT ![t] = [f[t] EXCEPT !.off = f[t].off + Len(Readi(i, f[t].off, n))]]
      /\ used' = used /\ data' = data /\ ip' = ip /\ dip' = dip /\ lock' = lock /\ w' = w /\ log' = log /\ want' = want
  BY Zenon, <1>2 DEF Fileread
<1>4. PICK o \in Nat : o = f[t].off + Len(Readi(i, f[t].off, n)) /\ o <= ip[i].size
  <2>1. f[t].off \in Nat /\ n \in Nat /\ f[t].off <= ip[i].size /\ ip[i].size \in Nat
    BY <1>1, <1>2, BlocksAssumption, Sizes0 DEF Types, LockInv, Inode
  <2>2. Len(Readi(i, f[t].off, n)) \in Nat /\ f[t].off + Len(Readi(i, f[t].off, n)) <= ip[i].size
    BY Zenon, <2>1, ReadiLen
  <2> QED BY SMTT(30), <2>1, <2>2
<1>5. /\ f' \in [Threads -> [ip : Files, off : Nat]] /\ f'[t].off = o
      /\ \A u \in Threads : f'[u].ip = f[u].ip /\ (u # t => f'[u] = f[u] /\ w'[u] = w[u])
  BY Zenon, <1>1, <1>3, <1>4 DEF Types
<1>6. /\ w[t].n = 0 /\ w'[t].tot = 0 /\ w'[t].n = 0 /\ w'[t].n <= w'[t].left /\ w'[t].n <= MaxChunk
      /\ w' \in [Threads -> [left : Nat, n : Nat, tot : Nat, id : Nat]] /\ calls' \in Nat
  BY SMTT(30), <1>1, <1>3 DEF Types, LockInv
<1>7. f'[t].off <= ip[i].size /\ ~(w'[t].n > 0)
  BY <1>4, <1>5, <1>6
<1> QED BY ZenonT(60), <1>2, <1>3, <1>5, <1>6, <1>7, NoBlocksInv

\* filewrite begins.
LEMMA FilewriteInv ==
  ASSUME IInv, NEW t \in Threads, NEW n \in Sizes, Filewrite(t, n)
  PROVE  IInv'
<1>1. Types /\ LockInv
  BY Zenon DEF IInv
<1>2. PICK i \in Files : i = f[t].ip
  BY Zenon, <1>1 DEF Types
<1>3. /\ w[t].left = 0 /\ calls' = calls + 1
      /\ w' = [w EXCEPT ![t] = [NoWrite EXCEPT !.left = n, !.id = calls + 1]]
      /\ used' = used /\ data' = data /\ ip' = ip /\ dip' = dip /\ lock' = lock /\ f' = f /\ log' = log /\ want' = want
  BY Zenon DEF Filewrite
<1>4. n \in Nat /\ calls \in Nat /\ MaxChunk \in Nat
  BY Zenon, <1>1, BlocksAssumption, ChunkSize DEF Types
<1>5. PICK v \in [left : Nat, n : Nat, tot : Nat, id : Nat] :
        v = [NoWrite EXCEPT !.left = n, !.id = calls + 1] /\ v.n = 0 /\ v.tot = 0 /\ v.left = n
  <2>1. PICK z \in [left : Nat, n : Nat, tot : Nat, id : Nat] : z = NoWrite /\ z.n = 0 /\ z.tot = 0
    <3>1. NoWrite \in [left : Nat, n : Nat, tot : Nat, id : Nat] /\ NoWrite.n = 0 /\ NoWrite.tot = 0
      BY Zenon DEF NoWrite
    <3> QED BY Zenon, <3>1
  <2>2. PICK c \in Nat : c = calls + 1
    BY <1>4
  <2>3. /\ [z EXCEPT !.left = n, !.id = c] \in [left : Nat, n : Nat, tot : Nat, id : Nat]
        /\ [z EXCEPT !.left = n, !.id = c].n = 0 /\ [z EXCEPT !.left = n, !.id = c].tot = 0
        /\ [z EXCEPT !.left = n, !.id = c].left = n
    BY Zenon, <2>1, <2>2, <1>4
  <2> QED BY Zenon, <2>1, <2>2, <2>3
<1>6. /\ w' \in [Threads -> [left : Nat, n : Nat, tot : Nat, id : Nat]] /\ w'[t] = v
      /\ \A u \in Threads : u # t => w'[u] = w[u]
  BY Zenon, <1>1, <1>3, <1>5 DEF Types
<1>7. /\ w[t].n = 0 /\ w'[t].tot = 0 /\ w'[t].n = 0 /\ w'[t].n <= w'[t].left /\ w'[t].n <= MaxChunk
      /\ calls' \in Nat /\ ~(w'[t].n > 0)
  BY SMTT(30), <1>1, <1>3, <1>4, <1>5, <1>6 DEF Types, LockInv
<1>8. /\ f' \in [Threads -> [ip : Files, off : Nat]] /\ f'[t].off <= ip[i].size
      /\ \A u \in Threads : f'[u].ip = f[u].ip /\ (u # t => f'[u] = f[u] /\ w'[u] = w[u])
  BY Zenon, <1>1, <1>2, <1>3, <1>6 DEF Types, LockInv
<1> QED BY ZenonT(60), <1>2, <1>3, <1>6, <1>7, <1>8, NoBlocksInv

\* A chunk begins with the inode's lock, or filewrite ends.
LEMMA ChunkInv ==
  ASSUME IInv, NEW t \in Threads, Chunk(t)
  PROVE  IInv'
<1>1. Types /\ LockInv
  BY Zenon DEF IInv
<1>2. PICK i \in Files : i = f[t].ip
  BY Zenon, <1>1 DEF Types
<1>3. PICK n1 \in Nat : n1 = Min({w[t].left, MaxChunk}) /\ n1 > 0 /\ n1 <= w[t].left /\ n1 <= MaxChunk
  <2>1. w[t].left \in Int /\ w[t].left > 0 /\ MaxChunk \in Int /\ MaxChunk > 0
    BY <1>1, ChunkSize DEF Chunk, Types
  <2> QED BY <2>1, MinMaxPair
<1>4. /\ w[t].n = 0 /\ lock[i] = 0
      /\ used' = used /\ data' = data /\ ip' = ip /\ dip' = dip /\ f' = f /\ log' = log /\ calls' = calls /\ want' = want
      /\ \/ w' = [w EXCEPT ![t] = NoWrite] /\ lock' = lock
         \/ /\ ~TooLong(f[t].off, n1) /\ w' = [w EXCEPT ![t] = [w[t] EXCEPT !.n = n1]]
            /\ lock' = [lock EXCEPT ![i] = t]
  BY Zenon, <1>2, <1>3 DEF Chunk
<1>5. /\ f' \in [Threads -> [ip : Files, off : Nat]] /\ f'[t].off <= ip[i].size /\ f[t].off \in Nat
      /\ calls' \in Nat /\ \A u \in Threads : f'[u] = f[u]
  BY Zenon, <1>1, <1>2, <1>4 DEF Types, LockInv
<1>6. w[t].tot = 0
  BY <1>1, <1>4 DEF Types, LockInv
<1>7. CASE w' = [w EXCEPT ![t] = NoWrite] /\ lock' = lock
  <2>1. NoWrite \in [left : Nat, n : Nat, tot : Nat, id : Nat] /\ NoWrite.n = 0 /\ NoWrite.tot = 0 /\ NoWrite.left = 0
    BY Zenon DEF NoWrite
  <2>2. /\ w' \in [Threads -> [left : Nat, n : Nat, tot : Nat, id : Nat]] /\ w'[t] = NoWrite
        /\ \A u \in Threads : f'[u].ip = f[u].ip /\ (u # t => f'[u] = f[u] /\ w'[u] = w[u])
    BY Zenon, <2>1, <1>1, <1>5, <1>7 DEF Types
  <2>3. w'[t].tot = 0 /\ w'[t].n <= w'[t].left /\ w'[t].n <= MaxChunk /\ ~(w'[t].n > 0)
    BY <2>1, <2>2, ChunkSize
  <2> QED BY Zenon, <2>2, <2>3, <1>2, <1>4, <1>5, <1>7, NoBlocksInv
<1>8. CASE /\ ~TooLong(f[t].off, n1) /\ w' = [w EXCEPT ![t] = [w[t] EXCEPT !.n = n1]]
           /\ lock' = [lock EXCEPT ![i] = t]
  <2>1. /\ w' \in [Threads -> [left : Nat, n : Nat, tot : Nat, id : Nat]]
        /\ w'[t].n = n1 /\ w'[t].tot = w[t].tot /\ w'[t].left = w[t].left
        /\ \A u \in Threads : f'[u].ip = f[u].ip /\ (u # t => f'[u] = f[u] /\ w'[u] = w[u])
    BY ZenonT(60), <1>1, <1>3, <1>5, <1>8 DEF Types
  <2>2. f'[t].off + w'[t].n <= MAXFILE * BSIZE
    <3>1. PICK P \in Nat : P = MAXFILE * BSIZE
      BY Sizes0
    <3>2. ~(f[t].off + n1 > P)
      BY Zenon, <3>1, <1>8 DEF TooLong
    <3>3. f'[t].off = f[t].off /\ w'[t].n = n1
      BY Zenon, <2>1, <1>5
    <3> QED BY <3>1, <3>2, <3>3, <1>5
  <2>3. w'[t].tot = 0 /\ w'[t].n <= w'[t].left /\ w'[t].n <= MaxChunk /\ ~(w'[t].n = 0)
    BY <2>1, <1>3, <1>6
  <2>4. lock[i] = 0 /\ lock' = [lock EXCEPT ![i] = t]
    BY Zenon, <1>4, <1>8
  <2> QED BY ZenonT(60), <2>1, <2>2, <2>3, <2>4, <1>2, <1>4, <1>5, NoBlocksInv
<1> QED BY Zenon, <1>4, <1>7, <1>8

\* One turn of writei's loop at word a, m words long: the tree grows at most, the m words
\* are the write's, and no other word of any file changes.
LEMMA WriteiBlockIs ==
  ASSUME IInv, NEW t \in Threads, WriteiBlock(t), NEW i \in Files, i = f[t].ip,
         NEW a, a = f[t].off + w[t].tot, NEW m, m = Min({w[t].n - w[t].tot, BSIZE - (a % BSIZE)})
  PROVE  /\ m \in Nat /\ m > 0 /\ m <= w[t].n - w[t].tot /\ a \in Words
         /\ used' \subseteq Blks /\ data' \in [Blks -> Block] /\ ip' \in [Files -> Inode]
         /\ Tree(used', data', ip')
         /\ \A j \in Files : ip'[j].size = ip[j].size /\ (j # i => ip'[j] = ip[j])
         /\ \A j \in Files, k \in Places : Ptr(ip, data, j, k) # 0 => Ptr(ip', data', j, k) = Ptr(ip, data, j, k)
         /\ \A j \in Files, n \in Words : At(ip, data, j, n) # 0 =>
              Word(ip', data', j, n) = IF j = i /\ a <= n /\ n < a + m THEN w[t].id ELSE Word(ip, data, j, n)
         /\ \A n \in Words : a <= n /\ n < a + m =>
              At(ip', data', i, n) # 0 /\ Word(ip', data', i, n) = w[t].id
         /\ At(ip, data, i, a) # 0 => ip' = ip
         /\ log' \in [Threads -> SUBSET (Blks \cup {BITMAP})] /\ \A u \in Threads : u # t => log'[u] = log[u]
         /\ log'[t] \subseteq log[t] \cup {BITMAP, At(ip', data', i, a), Ptr(ip', data', i, NDIRECT)}
<1>1. Types /\ Tree(used, data, ip) /\ LockInv
  BY Zenon DEF IInv
<1>2. /\ f[t].off \in Nat /\ w[t].tot \in Nat /\ w[t].n \in Nat /\ w[t].id \in Nat /\ log[t] \subseteq Blks \cup {BITMAP}
      /\ used \subseteq Blks /\ data \in [Blks -> Block] /\ ip \in [Files -> Inode]
      /\ log \in [Threads -> SUBSET (Blks \cup {BITMAP})]
  BY Zenon, <1>1 DEF Types
<1>3. a \in Words /\ a \in Nat
  <2>1. PICK P \in Nat : P = MAXFILE * BSIZE
    BY Sizes0
  <2>2. w[t].tot < w[t].n
    BY Zenon DEF WriteiBlock
  <2>4. w[t].n > 0 => f[t].off + w[t].n <= P
    BY ZenonT(60), <2>1, <1>1 DEF LockInv
  <2>3. a \in 0 .. P - 1
    BY <2>1, <2>2, <2>4, <1>2
  <2> QED BY SMTT(30), <2>1, <2>3 DEF Words
<1>4. PICK c \in 0 .. BSIZE - 1 : c = a % BSIZE
  BY ZenonT(60), <1>3, WordPlace
<1>5. m \in Nat /\ m > 0 /\ m <= w[t].n - w[t].tot /\ m <= BSIZE - (a % BSIZE)
  <2>1. w[t].n - w[t].tot \in Int /\ w[t].n - w[t].tot > 0
    <3>1. w[t].tot < w[t].n
      BY Zenon DEF WriteiBlock
    <3> QED BY <3>1, <1>2
  <2>2. BSIZE - c \in Int /\ BSIZE - c > 0
    BY <1>4, Sizes0
  <2>3. m = Min({w[t].n - w[t].tot, BSIZE - c})
    BY Zenon, <1>4
  <2> QED BY SMTT(30), <2>1, <2>2, <2>3, <1>4, MinMaxPair
<1>6. PICK bn \in 0 .. MAXFILE - 1, p \in Places : bn = a \div BSIZE /\ p = Place(bn) /\ p # NDIRECT
  BY ZenonT(60), <1>3, WordPlace
<1>7. PICK d \in DiskType : d = Disk(t) /\ d.used = used /\ d.data = data /\ d.ip = ip[i] /\ d.log = log[t]
  <2>1. ip[i] \in Inode
    BY Zenon, <1>2
  <2>2. /\ Disk(t) = [used |-> used, data |-> data, ip |-> ip[i], log |-> log[t], addr |-> 0]
        /\ Disk(t) \in DiskType
    BY ZenonT(60), <2>1, <1>2 DEF Disk, DiskType
  <2> QED BY <2>2
<1>8. PICK r, J : r = Bmap(d, bn) /\ J = Put(ip, i, r.ip)
  OBVIOUS
<1>9. /\ Extends(used, data, ip, r.used, r.data, J) /\ J[i] = r.ip /\ r \in DiskType
      /\ r.addr = Ptr(J, r.data, i, p) /\ r.addr \in Blks
      /\ Ptr(ip, data, i, p) # 0 => r.ip = ip[i]
      /\ r.log \subseteq log[t] \cup {BITMAP, r.addr, Ptr(J, r.data, i, NDIRECT)}
  <2>1. /\ d.ip = ip[i] /\ Tree(d.used, d.data, ip) /\ Blks \ d.used # {}
        /\ \A b : Blks \ (d.used \cup {b}) # {}
    <3>1. Cardinality(Blks \ used) >= 2
      BY Zenon DEF WriteiBlock, Room
    <3>2. Blks \ used # {} /\ \A b : Blks \ (used \cup {b}) # {}
      BY ZenonT(60), <3>1, <1>2, TwoFree
    <3> QED BY Zenon, <3>2, <1>1, <1>7
  <2>2. /\ Extends(d.used, d.data, ip, r.used, r.data, J) /\ J[i] = r.ip /\ r \in DiskType
        /\ r.addr = Ptr(J, r.data, i, Place(bn)) /\ r.addr \in Blks
        /\ Ptr(ip, d.data, i, Place(bn)) # 0 => r.ip = d.ip
        /\ r.log \subseteq d.log \cup {BITMAP, r.addr, Ptr(J, r.data, i, NDIRECT)}
    <3>1. ip \in [Files -> Inode]
      BY Zenon, <1>2
    <3> QED BY ONLY SMTT(30), <2>1, <3>1, i \in Files, d \in DiskType, bn \in 0 .. MAXFILE - 1, <1>8, BmapIs
  <2> QED BY Zenon, <2>2, <1>6, <1>7
<1>10. PICK U, D, x : U = r.used /\ D = r.data /\ x = r.addr
  OBVIOUS
<1>11. PICK v : v = [k \in DOMAIN D[x] |-> IF k \in c .. c + m - 1 THEN w[t].id ELSE D[x][k]]
  OBVIOUS
<1>12. /\ used' = U /\ ip' = J /\ data' = Put(D, x, v)
       /\ log' = [log EXCEPT ![t] = r.log \cup {x}]
  BY ZenonT(60), <1>4, <1>6, <1>7, <1>8, <1>10, <1>11 DEF WriteiBlock, Put
<1>13. /\ U \subseteq Blks /\ D \in [Blks -> Block] /\ J \in [Files -> Inode] /\ Tree(U, D, J)
       /\ x \in Blks /\ x # 0 /\ x = Ptr(J, D, i, p)
       /\ \A j \in Files : J[j].size = ip[j].size
       /\ \A j \in Files, k \in Places : Ptr(ip, data, j, k) # 0 => Ptr(J, D, j, k) = Ptr(ip, data, j, k)
       /\ \A b \in used : b \in U /\ ((\A j \in Files : b # Ptr(ip, data, j, NDIRECT)) => D[b] = data[b])
  BY Zenon, <1>9, <1>10, Sizes0 DEF Extends
<1>14. /\ v \in Block /\ \A k \in 0 .. BSIZE - 1 : v[k] = IF k \in c .. c + m - 1 THEN w[t].id ELSE D[x][k]
  <2>1. D[x] \in [0 .. BSIZE - 1 -> Nat]
    BY Zenon, <1>13 DEF Block
  <2>2. v = [k \in 0 .. BSIZE - 1 |-> IF k \in c .. c + m - 1 THEN w[t].id ELSE D[x][k]]
    BY Zenon, <2>1, <1>11
  <2>3. \A k \in 0 .. BSIZE - 1 : (IF k \in c .. c + m - 1 THEN w[t].id ELSE D[x][k]) \in Nat
    BY Zenon, <2>1, <1>2
  <2> QED BY Zenon, <2>2, <2>3 DEF Block
<1>15. PICK E : E = Put(D, x, v) /\ E = data'
  BY Zenon, <1>12
<1>16. /\ E \in [Blks -> Block] /\ E[x] = v
       /\ \A b \in Blks : b # x => E[b] = D[b]
       /\ \A j \in Files, k \in Places : Ptr(J, E, j, k) = Ptr(J, D, j, k)
  <2>1. /\ E = Put(D, x, v) /\ x = Ptr(J, D, i, p) /\ x # 0 /\ p # NDIRECT
        /\ D \in [Blks -> Block] /\ Tree(U, D, J) /\ U \subseteq Blks /\ v \in Block
    BY ZenonT(60), <1>6, <1>13, <1>14, <1>15
  <2>2. \A j \in Files, k \in Places : Ptr(J, E, j, k) = Ptr(J, D, j, k)
    BY ONLY SMTT(30), <2>1, i \in Files, p \in Places, DataWrite
  <2> QED BY Zenon, <2>1, <2>2, <1>13 DEF Put
<1>17. Tree(U, E, J)
  BY <1>13, <1>16 DEF Tree
<1>18. \A j \in Files, k \in Places : Ptr(ip, data, j, k) # 0 => Ptr(J, E, j, k) = Ptr(ip, data, j, k)
  BY ZenonT(60), <1>13, <1>16
<1>19. Ptr(J, E, i, p) = x /\ At(J, E, i, a) = x
  BY Zenon, <1>6, <1>13, <1>16 DEF At
<1>20. ASSUME NEW n \in Words
       PROVE  /\ n \in Nat /\ n \div BSIZE \in Nat
              /\ (a <= n /\ n < a + m) <=> ((n \div BSIZE) = bn /\ (n % BSIZE) \in c .. c + m - 1)
  <2>1. n \in Nat /\ n \div BSIZE \in Nat
    BY SMTT(30), <1>20, WordPlace
  <2>2. ((n \div BSIZE) = (a \div BSIZE) /\ (n % BSIZE) \in (a % BSIZE) .. (a % BSIZE) + m - 1)
           <=> (a <= n /\ n < a + m)
    BY SMTT(30), <2>1, <1>3, <1>5, SameBlock
  <2> QED BY ZenonT(60), <2>1, <2>2, <1>4, <1>6
<1>21. ASSUME NEW j \in Files, NEW n \in Words, At(ip, data, j, n) # 0
       PROVE  Word(J, E, j, n) = IF j = i /\ a <= n /\ n < a + m THEN w[t].id ELSE Word(ip, data, j, n)
  <2>1. PICK q \in Places, y \in 0 .. BSIZE - 1 : q = Place(n \div BSIZE) /\ q # NDIRECT /\ y = n % BSIZE
    BY Zenon, <1>21, WordPlace
  <2>2. PICK b : b = Ptr(ip, data, j, q) /\ b = At(ip, data, j, n) /\ b # 0
    BY Zenon, <2>1, <1>21 DEF At
  <2>3. b \in used /\ b \in Blks
    BY ZenonT(60), <2>2, <1>1, <1>2 DEF Tree
  <2>4. b = Ptr(J, E, j, q) /\ b = At(J, E, j, n)
    BY Zenon, <2>1, <2>2, <1>18 DEF At
  <2>5. Word(J, E, j, n) = E[b][y] /\ Word(ip, data, j, n) = data[b][y]
    BY Zenon, <2>1, <2>2, <2>4 DEF Word
  <2>6. D[b] = data[b]
    <3>1. ASSUME NEW l \in Files, b = Ptr(ip, data, l, NDIRECT) PROVE FALSE
      <4>1. /\ Tree(used, data, ip) /\ NDIRECT \in Places
            /\ Ptr(ip, data, j, q) # 0 /\ Ptr(ip, data, j, q) = Ptr(ip, data, l, NDIRECT)
        BY ZenonT(60), <3>1, <2>2, <1>1, Sizes0
      <4>2. q = NDIRECT
        BY ONLY SMTT(30), <4>1, j \in Files, l \in Files, q \in Places, OnePlace
      <4> QED BY Zenon, <4>2, <2>1
    <3> QED BY ZenonT(60), <3>1, <2>3, <1>13
  <2>7. b = x <=> j = i /\ (n \div BSIZE) = bn
    <3>1. ASSUME b = x PROVE j = i /\ (n \div BSIZE) = bn
      <4>1. Tree(U, E, J) /\ Ptr(J, E, j, q) # 0 /\ Ptr(J, E, j, q) = Ptr(J, E, i, p)
        BY ZenonT(60), <3>1, <2>2, <2>4, <1>17, <1>19
      <4>2. j = i /\ q = p
        BY ONLY SMTT(30), <4>1, j \in Files, i \in Files, q \in Places, p \in Places, OnePlace
      <4>3. n \div BSIZE \in Nat /\ bn \in Nat /\ Place(n \div BSIZE) = Place(bn)
        <5>1. n \div BSIZE \in Nat
          BY ZenonT(60), <1>20
        <5>2. bn \in Nat
          BY Sizes0
        <5> QED BY ZenonT(60), <5>1, <5>2, <4>2, <2>1, <1>6
      <4>4. n \div BSIZE = bn
        BY ONLY Zenon, <4>3, PlaceInjective
      <4> QED BY Zenon, <4>2, <4>4
    <3>2. ASSUME j = i, (n \div BSIZE) = bn PROVE b = x
      BY ZenonT(60), <3>2, <2>1, <2>4, <1>6, <1>19
    <3> QED BY Zenon, <3>1, <3>2
  <2>8. CASE b = x
    <3>1. E[b][y] = IF y \in c .. c + m - 1 THEN w[t].id ELSE data[b][y]
      BY ZenonT(60), <2>1, <2>6, <2>8, <1>14, <1>16
    <3>2. (j = i /\ a <= n /\ n < a + m) <=> y \in c .. c + m - 1
      BY ZenonT(60), <2>1, <2>7, <2>8, <1>20
    <3> QED BY ZenonT(60), <3>1, <3>2, <2>5
  <2>9. CASE b # x
    <3>1. E[b][y] = data[b][y]
      BY ZenonT(60), <2>3, <2>6, <2>9, <1>16
    <3>2. ~(j = i /\ a <= n /\ n < a + m)
      BY ZenonT(60), <2>7, <2>9, <1>20
    <3> QED BY ZenonT(60), <3>1, <3>2, <2>5
  <2> QED BY Zenon, <2>8, <2>9
<1>22. ASSUME NEW n \in Words, a <= n, n < a + m
       PROVE  At(J, E, i, n) # 0 /\ Word(J, E, i, n) = w[t].id
  <2>1. PICK y \in 0 .. BSIZE - 1 : y = n % BSIZE /\ y \in c .. c + m - 1 /\ (n \div BSIZE) = bn
    BY ZenonT(60), <1>20, <1>22, WordPlace
  <2>2. At(J, E, i, n) = x
    BY ZenonT(60), <2>1, <1>6, <1>19 DEF At
  <2>3. Word(J, E, i, n) = v[y]
    BY ZenonT(60), <2>1, <2>2, <1>16 DEF Word
  <2> QED BY ZenonT(60), <2>1, <2>2, <2>3, <1>13, <1>14
<1>23. \A j \in Files : j # i => J[j] = ip[j]
  BY Zenon, <1>2, <1>8 DEF Put
<1>24. At(ip, data, i, a) # 0 => J = ip
  <2>1. At(ip, data, i, a) = Ptr(ip, data, i, p)
    BY Zenon, <1>6 DEF At
  <2> QED BY ZenonT(60), <2>1, <1>2, <1>8, <1>9 DEF Put
<1>25. /\ log' \in [Threads -> SUBSET (Blks \cup {BITMAP})] /\ \A u \in Threads : u # t => log'[u] = log[u]
       /\ log'[t] = r.log \cup {x}
  <2>1. r.log \cup {x} \in SUBSET (Blks \cup {BITMAP})
    BY Zenon, <1>9, <1>10 DEF DiskType
  <2> QED BY Zenon, <2>1, <1>2, <1>12
<1>26. log'[t] \subseteq log[t] \cup {BITMAP, At(J, E, i, a), Ptr(J, E, i, NDIRECT)}
  <2>1. Ptr(J, E, i, NDIRECT) = Ptr(J, D, i, NDIRECT)
    BY Zenon, <1>16, Sizes0
  <2> QED BY ZenonT(60), <2>1, <1>9, <1>10, <1>19, <1>25
<1>27. used' = U /\ data' = E /\ ip' = J
  BY Zenon, <1>12, <1>15
<1>28. /\ U \subseteq Blks /\ E \in [Blks -> Block] /\ J \in [Files -> Inode]
       /\ \A j \in Files : J[j].size = ip[j].size
  BY Zenon, <1>13, <1>16
<1> QED BY Zenon, <1>3, <1>5, <1>17, <1>18, <1>21, <1>22, <1>23, <1>24, <1>25, <1>26, <1>27, <1>28

\* Block b is the indirect block of file i or one of those that T words from o on touch.
Covered(I, D, i, o, T, b) ==
  \/ b = Ptr(I, D, i, NDIRECT)
  \/ \E bn \in 0 .. MAXFILE - 1 : o \div BSIZE <= bn /\ bn * BSIZE < o + T /\ b = Ptr(I, D, i, Place(bn))

\* The blocks a chunk has logged are still those of its log after a step that keeps the
\* chunk's place, moves it on at most, and keeps what is in the places.
LEMMA LoggedKept ==
  ASSUME NEW b, b # 0, NEW i \in Files,
         NEW o \in Nat, NEW T \in Nat, NEW V \in Nat, T <= V,
         Covered(ip, data, i, o, T, b), NEW J, NEW E,
         \A k \in Places : Ptr(ip, data, i, k) # 0 => Ptr(J, E, i, k) = Ptr(ip, data, i, k)
  PROVE  Covered(J, E, i, o, V, b)
<1> USE DEF Covered
<1>1. CASE b = Ptr(ip, data, i, NDIRECT)
  BY Zenon, <1>1, Sizes0
<1>2. ASSUME NEW bn \in 0 .. MAXFILE - 1, o \div BSIZE <= bn, bn * BSIZE < o + T, b = Ptr(ip, data, i, Place(bn))
      PROVE  o \div BSIZE <= bn /\ bn * BSIZE < o + V /\ b = Ptr(J, E, i, Place(bn))
  <2>1. Place(bn) \in Places
    BY Sizes0 DEF Place, Places
  <2>2. b = Ptr(J, E, i, Place(bn))
    BY Zenon, <2>1, <1>2
  <2>3. PICK x \in Nat : x = bn * BSIZE
    BY Sizes0
  <2>4. x < o + V
    BY <2>3, <1>2
  <2> QED BY ZenonT(60), <2>2, <2>3, <2>4, <1>2
<1> QED BY Zenon, <1>1, <1>2

\* writei's loop.
LEMMA WriteiBlockInv ==
  ASSUME IInv, NEW t \in Threads, WriteiBlock(t)
  PROVE  IInv'
<1>1. Types /\ Tree(used, data, ip) /\ LockInv /\ WordInv /\ DiskInv /\ LogInv
  BY Zenon DEF IInv
<1>2. PICK i \in Files : i = f[t].ip
  BY Zenon, <1>1 DEF Types
<1>3. PICK a, m : a = f[t].off + w[t].tot /\ m = Min({w[t].n - w[t].tot, BSIZE - (a % BSIZE)})
  BY SMTT(30)
<1>4. /\ m \in Nat /\ m > 0 /\ m <= w[t].n - w[t].tot /\ a \in Words
      /\ used' \subseteq Blks /\ data' \in [Blks -> Block] /\ ip' \in [Files -> Inode]
      /\ Tree(used', data', ip')
      /\ \A j \in Files : ip'[j].size = ip[j].size /\ (j # i => ip'[j] = ip[j])
      /\ \A j \in Files, k \in Places : Ptr(ip, data, j, k) # 0 => Ptr(ip', data', j, k) = Ptr(ip, data, j, k)
      /\ \A j \in Files, n \in Words : At(ip, data, j, n) # 0 =>
           Word(ip', data', j, n) = IF j = i /\ a <= n /\ n < a + m THEN w[t].id ELSE Word(ip, data, j, n)
      /\ \A n \in Words : a <= n /\ n < a + m =>
           At(ip', data', i, n) # 0 /\ Word(ip', data', i, n) = w[t].id
      /\ At(ip, data, i, a) # 0 => ip' = ip
      /\ log' \in [Threads -> SUBSET (Blks \cup {BITMAP})] /\ \A u \in Threads : u # t => log'[u] = log[u]
      /\ log'[t] \subseteq log[t] \cup {BITMAP, At(ip', data', i, a), Ptr(ip', data', i, NDIRECT)}
  BY ONLY SMTT(30), IInv, t \in Threads, WriteiBlock(t), i \in Files, <1>2, <1>3, WriteiBlockIs
<1>5. /\ f[t].off \in Nat /\ w[t].tot \in Nat /\ w[t].n \in Nat /\ w[t].left \in Nat /\ a \in Nat /\ ip[i].size \in Nat
      /\ f \in [Threads -> [ip : Files, off : Nat]] /\ lock \in [Files -> Threads \cup {0}]
      /\ w \in [Threads -> [left : Nat, n : Nat, tot : Nat, id : Nat]] /\ t # 0
  <2>1. /\ f \in [Threads -> [ip : Files, off : Nat]] /\ lock \in [Files -> Threads \cup {0}]
        /\ w \in [Threads -> [left : Nat, n : Nat, tot : Nat, id : Nat]] /\ ip \in [Files -> Inode]
    BY Zenon, <1>1 DEF Types
  <2>2. f[t].off \in Nat /\ w[t].tot \in Nat /\ w[t].n \in Nat /\ w[t].left \in Nat
    BY Zenon, <2>1
  <2>3. ip[i].size \in Nat
    BY <2>1, Sizes0 DEF Inode
  <2> QED BY SMTT(30), <2>1, <2>2, <2>3, <1>3, BlocksAssumption
<1>6. /\ w' = [w EXCEPT ![t] = [w[t] EXCEPT !.tot = w[t].tot + m]]
      /\ dip' = dip /\ lock' = lock /\ f' = f /\ calls' = calls /\ want' = want
  BY Zenon, <1>2, <1>3 DEF WriteiBlock
<1>7. /\ w' \in [Threads -> [left : Nat, n : Nat, tot : Nat, id : Nat]]
      /\ w'[t].tot = w[t].tot + m /\ w'[t].n = w[t].n /\ w'[t].left = w[t].left /\ w'[t].id = w[t].id
      /\ \A u \in Threads : u # t => w'[u] = w[u]
  BY SMTT(30), <1>4, <1>5, <1>6
<1>8. w[t].n > 0 /\ lock[i] = t
  BY SMTT(30), <1>1, <1>2, <1>4, <1>5 DEF LockInv
<1>9. Types'
  BY Zenon, <1>1, <1>4, <1>6, <1>7 DEF Types
<1>10. LockInv'
  <2>1. ASSUME NEW j \in Files, lock'[j] # 0 PROVE f'[lock'[j]].ip = j /\ w'[lock'[j]].n > 0
    <3>1. lock[j] # 0 /\ lock[j] \in Threads /\ f[lock[j]].ip = j /\ w[lock[j]].n > 0
      BY SMTT(30), <2>1, <1>1, <1>5, <1>6 DEF LockInv
    <3> QED BY Zenon, <3>1, <1>6, <1>7
  <2>2. ASSUME NEW u \in Threads
        PROVE  /\ f'[u].off <= ip'[f'[u].ip].size
               /\ w'[u].tot <= w'[u].n /\ w'[u].n <= w'[u].left /\ w'[u].n <= MaxChunk
               /\ w'[u].n > 0 => lock'[f'[u].ip] = u /\ f'[u].off + w'[u].n <= MAXFILE * BSIZE
               /\ w'[u].n = 0 => log'[u] = {}
    <3>1. f[u].ip \in Files /\ w'[u].n = w[u].n /\ w'[u].left = w[u].left
      BY Zenon, <1>5, <1>7
    <3>2. f'[u].off <= ip'[f'[u].ip].size
      BY ZenonT(60), <3>1, <1>1, <1>4, <1>6 DEF LockInv
    <3>3. w'[u].tot <= w'[u].n
      <4>1. w[u].tot <= w[u].n
        BY Zenon, <1>1 DEF LockInv
      <4> QED BY SMTT(30), <4>1, <1>4, <1>5, <1>7
    <3>4. w'[u].n = 0 => log'[u] = {}
      <4>1. w[u].n = 0 => u # t /\ log[u] = {}
        BY <1>1, <1>8 DEF LockInv
      <4> QED BY ZenonT(60), <4>1, <3>1, <1>4
    <3> QED BY ZenonT(60), <3>1, <3>2, <3>3, <3>4, <1>1, <1>6 DEF LockInv
  <2> QED BY Zenon, <2>1, <2>2 DEF LockInv
<1>11. \A j \in Files, n \in Words : At(ip, data, j, n) # 0 => At(ip', data', j, n) # 0
  BY Zenon, <1>4, WordPlace DEF At
<1>12. ASSUME NEW u \in Threads, NEW n \in Words, Written(u, n), u # t PROVE f[u].ip # i /\ f[u].ip \in Files
  <2>1. f[u].off \in Nat /\ w[u].tot \in Nat /\ w[u].n \in Nat /\ f[u].ip \in Files /\ n \in Nat
    BY ZenonT(60), <1>5, WordPlace
  <2>2. w[u].n > 0
    BY <2>1, <1>1, <1>12 DEF Written, LockInv
  <2> QED BY Zenon, <2>1, <2>2, <1>1, <1>8, <1>12 DEF LockInv
<1>13. \A n \in Words : Written(t, n)' <=> Written(t, n) \/ (a <= n /\ n < a + m)
  <2>1. ASSUME NEW n \in Words PROVE Written(t, n)' <=> Written(t, n) \/ (a <= n /\ n < a + m)
    <3>1. n \in Nat
      BY Zenon, WordPlace
    <3>2. f'[t].off = f[t].off /\ w'[t].tot = w[t].tot + m
      BY Zenon, <1>6, <1>7
    <3> QED BY SMTT(30), <3>1, <3>2, <1>3, <1>4, <1>5 DEF Written
  <2> QED BY ZenonT(60), <2>1
<1>14. \A u \in Threads, n \in Words : u # t => (Written(u, n)' <=> Written(u, n))
  BY Zenon, <1>6, <1>7 DEF Written
<1>15. WordInv'
  <2>1. \A j \in Files : Len(want'[j]) = ip'[j].size
    BY Zenon, <1>1, <1>4, <1>6 DEF WordInv
  <2>2. \A j \in Files, n \in Words : n < ip'[j].size => At(ip', data', j, n) # 0
    BY Zenon, <1>1, <1>4, <1>11 DEF WordInv
  <2>3. ASSUME NEW u \in Threads, NEW n \in Words, Written(u, n)'
        PROVE  At(ip', data', f'[u].ip, n) # 0 /\ Word(ip', data', f'[u].ip, n) = w'[u].id
    <3>1. PICK j \in Files : j = f[u].ip /\ j = f'[u].ip
      BY Zenon, <1>5, <1>6
    <3>2. w'[u].id = w[u].id
      BY Zenon, <1>7
    <3>3. CASE Written(u, n)
      <4>1. At(ip, data, j, n) # 0 /\ Word(ip, data, j, n) = w[u].id
        BY Zenon, <3>1, <3>3, <1>1 DEF WordInv
      <4>2. j = i /\ a <= n /\ n < a + m => u = t
        BY Zenon, <3>1, <3>3, <1>12
      <4>3. Word(ip', data', j, n) = w[u].id
        BY ZenonT(60), <4>1, <4>2, <1>4
      <4> QED BY Zenon, <4>1, <4>3, <3>1, <3>2, <1>11
    <3>4. CASE ~Written(u, n)
      <4>1. u = t /\ a <= n /\ n < a + m
        BY Zenon, <2>3, <3>4, <1>13, <1>14
      <4> QED BY ZenonT(60), <4>1, <3>1, <3>2, <1>2, <1>4
    <3> QED BY Zenon, <3>3, <3>4
  <2>4. ASSUME NEW j \in Files, NEW n \in Words, n < ip'[j].size, lock'[j] # 0 => ~Written(lock[j], n)'
        PROVE  Word(ip', data', j, n) = want'[j][n + 1]
    <3>1. lock[j] # 0 => lock[j] \in Threads /\ ~Written(lock[j], n)
      BY Zenon, <2>4, <1>5, <1>6, <1>13, <1>14
    <3>2. n < ip[j].size
      BY Zenon, <2>4, <1>4
    <3>3. Word(ip, data, j, n) = want[j][n + 1] /\ At(ip, data, j, n) # 0
      BY Zenon, <3>1, <3>2, <1>1 DEF WordInv
    <3>4. ~(j = i /\ a <= n /\ n < a + m)
      BY Zenon, <2>4, <1>5, <1>6, <1>8, <1>13
    <3> QED BY Zenon, <3>3, <3>4, <1>4, <1>6
  <2> QED BY Zenon, <2>1, <2>2, <2>3, <2>4, <1>6 DEF WordInv
<1>16. DiskInv'
  <2>1. \A j \in Files : dip'[j].size = ip'[j].size
    BY Zenon, <1>1, <1>4, <1>6 DEF DiskInv
  <2>2. ASSUME NEW j \in Files, dip'[j] # ip'[j]
        PROVE  lock'[j] # 0 /\ f'[lock'[j]].off + w'[lock'[j]].tot > ip'[j].size
    <3>1. CASE j # i
      <4>1. dip[j] # ip[j]
        BY ZenonT(60), <2>2, <3>1, <1>4, <1>6
      <4>2. lock[j] # 0 /\ f[lock[j]].off + w[lock[j]].tot > ip[j].size /\ lock[j] \in Threads
        BY Zenon, <4>1, <1>1, <1>5 DEF DiskInv
      <4>3. lock[j] # t
        BY ZenonT(60), <4>2, <3>1, <1>1, <1>2 DEF LockInv
      <4> QED BY ZenonT(60), <4>2, <4>3, <1>4, <1>6, <1>7
    <3>2. CASE j = i
      <4>1. PICK z \in Nat : z = ip[i].size /\ z = ip'[i].size
        BY Zenon, <1>4, <1>5
      <4>2. a + m > z
        <5>1. CASE dip[i] # ip[i]
          <6>1. a > z
            BY ZenonT(60), <4>1, <5>1, <1>1, <1>3, <1>8 DEF DiskInv
          <6> QED BY SMTT(30), <6>1, <4>1, <1>4, <1>5
        <5>2. CASE dip[i] = ip[i]
          <6>1. At(ip, data, i, a) = 0
            BY ZenonT(60), <2>2, <3>2, <5>2, <1>4, <1>6
          <6>2. ~(a < z)
            BY ZenonT(60), <6>1, <4>1, <1>1, <1>4 DEF WordInv
          <6> QED BY SMTT(30), <6>2, <4>1, <1>4, <1>5
        <5> QED BY ZenonT(60), <5>1, <5>2
      <4>3. f'[t].off + w'[t].tot = a + m /\ lock'[i] = t
        BY SMTT(30), <1>3, <1>4, <1>5, <1>6, <1>7, <1>8
      <4> QED BY ZenonT(60), <4>1, <4>2, <4>3, <3>2, <1>5
    <3> QED BY Zenon, <3>1, <3>2
  <2> QED BY Zenon, <2>1, <2>2 DEF DiskInv
<1>17. LogInv'
  <2>1. ASSUME NEW u \in Threads, NEW b \in log'[u]
        PROVE  \/ b = BITMAP \/ b = Ptr(ip', data', f'[u].ip, NDIRECT)
               \/ \E bn \in 0 .. MAXFILE - 1 :
                    /\ f'[u].off \div BSIZE <= bn /\ bn * BSIZE < f'[u].off + w'[u].tot
                    /\ b = Ptr(ip', data', f'[u].ip, Place(bn))
    <3>1. PICK j \in Files, o \in Nat : j = f[u].ip /\ j = f'[u].ip /\ o = f[u].off /\ o = f'[u].off
      BY ZenonT(60), <1>5, <1>6
    <3>2. PICK T \in Nat, V \in Nat : T = w[u].tot /\ V = w'[u].tot /\ T <= V
      BY SMTT(30), <1>4, <1>5, <1>7
    <3>3. SUFFICES ASSUME b # 0
                   PROVE  Covered(ip', data', j, o, V, b)
      BY Zenon, <3>1, <3>2 DEF BITMAP, Covered
    <3>4. CASE b \in log[u]
      <4>1. Covered(ip, data, j, o, T, b)
        BY ZenonT(60), <3>1, <3>2, <3>3, <3>4, <1>1 DEF LogInv, BITMAP, Covered
      <4>2. \A k \in Places : Ptr(ip, data, j, k) # 0 => Ptr(ip', data', j, k) = Ptr(ip, data, j, k)
        BY Zenon, <1>4
      <4>3. T <= V /\ b # 0
        BY Zenon, <3>2, <3>3
      <4> QED BY ONLY ZenonT(60), <4>1, <4>2, <4>3, j \in Files, o \in Nat, T \in Nat, V \in Nat, LoggedKept
    <3>5. CASE b \notin log[u]
      <4>1. u = t /\ j = i /\ (b = At(ip', data', i, a) \/ b = Ptr(ip', data', i, NDIRECT))
        BY Zenon, <2>1, <3>1, <3>3, <3>5, <1>2, <1>4 DEF BITMAP
      <4>2. CASE b = At(ip', data', i, a)
        <5>1. PICK bn \in 0 .. MAXFILE - 1 : bn = a \div BSIZE
          BY Zenon, <1>4, WordPlace
        <5>2. b = Ptr(ip', data', j, Place(bn))
          BY ZenonT(60), <5>1, <4>1, <4>2 DEF At
        <5>3. o \div BSIZE <= bn
          <6>1. o <= a /\ a \in Nat
            <7>1. o = f[t].off
              BY Zenon, <3>1, <4>1
            <7> QED BY SMTT(30), <7>1, <1>3, <1>5
          <6>2. o \div BSIZE <= a \div BSIZE
            BY ONLY ZenonT(60), <6>1, o \in Nat, DivMonotone
          <6> QED BY ZenonT(60), <6>2, <5>1
        <5>4. bn * BSIZE < o + V
          <6>1. bn * BSIZE <= a /\ bn * BSIZE \in Nat
            <7>1. PICK y \in Nat : a = bn * BSIZE + y
              BY SMTT(30), <5>1, <1>5, Sizes0, DivMod
            <7>2. PICK z \in Nat : z = bn * BSIZE
              BY SMTT(30), Sizes0
            <7> QED BY SMTT(30), <7>1, <7>2
          <6>2. o + V = a + m
            <7>1. o = f[t].off /\ V = w[t].tot + m
              BY ZenonT(60), <3>1, <3>2, <4>1, <1>7
            <7> QED BY SMTT(30), <7>1, <1>3, <1>4, <1>5
          <6> QED BY SMTT(30), <6>1, <6>2, <1>4, <1>5
        <5> QED BY Zenon, <5>2, <5>3, <5>4 DEF Covered
      <4>3. CASE b = Ptr(ip', data', i, NDIRECT)
        BY Zenon, <4>1, <4>3 DEF Covered
      <4> QED BY Zenon, <4>1, <4>2, <4>3
    <3> QED BY Zenon, <3>4, <3>5
  <2> QED BY Zenon, <2>1 DEF LogInv
<1> QED BY ZenonT(60), <1>4, <1>9, <1>10, <1>15, <1>16, <1>17 DEF IInv

\* A record with another size.
LEMMA SetSize ==
  ASSUME NEW S, NEW A, NEW x \in [size : S, addrs : A], NEW y \in S
  PROVE  /\ [x EXCEPT !.size = y] \in [size : S, addrs : A]
         /\ [x EXCEPT !.size = y].size = y /\ [x EXCEPT !.size = y].addrs = x.addrs
  OBVIOUS

\* Nothing moved.
LEMMA TreeSame ==
  ASSUME NEW U, NEW D, NEW I, NEW E, NEW J, Tree(U, D, I), \A j \in Files : \A k : Ptr(J, E, j, k) = Ptr(I, D, j, k)
  PROVE  Tree(U, E, J)
  BY DEF Tree

\* The end of a chunk: the size and the disk inode follow, and the words are the file's.
LEMMA WriteiEndInv ==
  ASSUME IInv, NEW t \in Threads, WriteiEnd(t)
  PROVE  IInv'
<1>1. Types /\ Tree(used, data, ip) /\ LockInv /\ WordInv /\ DiskInv /\ LogInv
  BY Zenon DEF IInv
<1>2. PICK i \in Files : i = f[t].ip
  BY Zenon, <1>1 DEF Types
<1>3. /\ f \in [Threads -> [ip : Files, off : Nat]] /\ lock \in [Files -> Threads \cup {0}] /\ t # 0
      /\ w \in [Threads -> [left : Nat, n : Nat, tot : Nat, id : Nat]]
      /\ ip \in [Files -> Inode] /\ dip \in [Files -> Inode] /\ want \in [Files -> Seq(Nat)]
      /\ log \in [Threads -> SUBSET (Blks \cup {BITMAP})]
  BY Zenon, <1>1, BlocksAssumption DEF Types
<1>4. PICK P \in Nat : P = MAXFILE * BSIZE
  BY Sizes0
<1>5. PICK n \in Nat, o \in Nat, e \in Nat, z \in 0 .. P :
        n = w[t].n /\ o = f[t].off /\ e = o + n /\ z = ip[i].size
  <2>1. ip[i].size \in 0 .. P
    BY Zenon, <1>3, <1>4 DEF Inode
  <2>2. w[t].n \in Nat /\ f[t].off \in Nat /\ f[t].off + w[t].n \in Nat
    BY <1>3
  <2> QED BY Zenon, <2>1, <2>2
<1>6. n > 0 /\ w[t].tot = n
  BY <1>5, ZenonT(60) DEF WriteiEnd
<1>7. o <= z /\ e <= P /\ lock[i] = t /\ n <= w[t].left
  BY SMTT(30), <1>1, <1>2, <1>4, <1>5, <1>6 DEF LockInv
<1>8. PICK G : G = [k \in 1 .. Max({Len(want[i]), e}) |-> IF k \in e - n + 1 .. e THEN w[t].id ELSE want[i][k]]
  OBVIOUS
<1>9. PICK v : v = IF w[t].left = n THEN NoWrite ELSE [w[t] EXCEPT !.left = w[t].left - n, !.n = 0, !.tot = 0]
  OBVIOUS
<1>a. used' = used /\ data' = data /\ calls' = calls
  BY Zenon DEF WriteiEnd
<1>b. f' = [f EXCEPT ![t] = [f[t] EXCEPT !.off = e]] /\ lock' = [lock EXCEPT ![i] = 0] /\ log' = [log EXCEPT ![t] = {}]
  BY Zenon, <1>2, <1>5 DEF WriteiEnd
<1>c. want' = [want EXCEPT ![i] = G]
  BY Zenon, <1>2, <1>5, <1>8 DEF WriteiEnd
<1>d. w' = [w EXCEPT ![t] = v]
  <2>1. w' = [w EXCEPT ![t] = IF w[t].left = w[t].n THEN NoWrite
                              ELSE [w[t] EXCEPT !.left = w[t].left - w[t].n, !.n = 0, !.tot = 0]]
    BY Zenon DEF WriteiEnd
  <2> QED BY Zenon, <2>1, <1>5, <1>9
<1>e. /\ ip' = IF e > z THEN [ip EXCEPT ![i] = [ip[i] EXCEPT !.size = e]] ELSE ip
      /\ dip' = IF e > z THEN [dip EXCEPT ![i] = ip'[i]] ELSE dip
  <2>1. /\ ip' = IF Grown(f[t].off + w[t].n, ip[f[t].ip].size) THEN [ip EXCEPT ![f[t].ip].size = f[t].off + w[t].n] ELSE ip
        /\ dip' = IF Grown(f[t].off + w[t].n, ip[f[t].ip].size) THEN [dip EXCEPT ![f[t].ip] = ip'[f[t].ip]] ELSE dip
    BY ZenonT(60) DEF WriteiEnd
  <2>2. /\ ip' = IF e > z THEN [ip EXCEPT ![i].size = e] ELSE ip
        /\ dip' = IF e > z THEN [dip EXCEPT ![i] = ip'[i]] ELSE dip
    BY SMTT(30), <2>1, <1>2, <1>5 DEF Grown
  <2>3. [ip EXCEPT ![i].size = e] = [ip EXCEPT ![i] = [ip[i] EXCEPT !.size = e]]
    OBVIOUS
  <2> QED BY Zenon, <2>2, <2>3
<1>10. /\ ip' = IF e > z THEN [ip EXCEPT ![i] = [ip[i] EXCEPT !.size = e]] ELSE ip
       /\ dip' = IF e > z THEN [dip EXCEPT ![i] = ip'[i]] ELSE dip
       /\ want' = [want EXCEPT ![i] = G] /\ f' = [f EXCEPT ![t] = [f[t] EXCEPT !.off = e]]
       /\ w' = [w EXCEPT ![t] = v] /\ lock' = [lock EXCEPT ![i] = 0] /\ log' = [log EXCEPT ![t] = {}]
       /\ used' = used /\ data' = data /\ calls' = calls
  BY ZenonT(60), <1>a, <1>b, <1>c, <1>d, <1>e
<1>11. PICK Z \in 0 .. P : Z = IF e > z THEN e ELSE z
  BY SMTT(30), <1>5, <1>7
<1>12. /\ ip' \in [Files -> Inode] /\ ip'[i].size = Z
       /\ \A j \in Files : ip'[j].addrs = ip[j].addrs /\ (j # i => ip'[j] = ip[j])
  <2>1. [ip[i] EXCEPT !.size = e] \in Inode /\ [ip[i] EXCEPT !.size = e].size = e
        /\ [ip[i] EXCEPT !.size = e].addrs = ip[i].addrs
    <3>1. ip[i] \in [size : 0 .. P, addrs : [0 .. NDIRECT -> Blks \cup {0}]] /\ e \in 0 .. P
      BY SMTT(30), <1>3, <1>4, <1>5, <1>7 DEF Inode
    <3>2. [ip[i] EXCEPT !.size = e] \in [size : 0 .. P, addrs : [0 .. NDIRECT -> Blks \cup {0}]]
          /\ [ip[i] EXCEPT !.size = e].size = e /\ [ip[i] EXCEPT !.size = e].addrs = ip[i].addrs
      BY ONLY Zenon, <3>1, SetSize
    <3> QED BY ZenonT(60), <3>2, <1>4 DEF Inode
  <2>2. CASE e > z
    BY ZenonT(60), <2>1, <2>2, <1>3, <1>10, <1>11
  <2>3. CASE ~(e > z)
    BY ZenonT(60), <2>3, <1>3, <1>5, <1>10, <1>11
  <2> QED BY Zenon, <2>2, <2>3
<1>13. /\ dip' \in [Files -> Inode] /\ dip'[i] = ip'[i] /\ \A j \in Files : j # i => dip'[j] = dip[j]
  <2>1. CASE e > z
    BY ZenonT(60), <2>1, <1>3, <1>10, <1>12
  <2>2. CASE ~(e > z)
    <3>1. dip[i] = ip[i]
      <4>1. f[t].off + w[t].tot = e /\ lock[i] = t
        BY ZenonT(60), <1>5, <1>6, <1>7
      <4> QED BY ZenonT(60), <4>1, <2>2, <1>1, <1>5 DEF DiskInv
    <3> QED BY ZenonT(60), <3>1, <2>2, <1>3, <1>10
  <2> QED BY Zenon, <2>1, <2>2
<1>14. /\ G \in Seq(Nat) /\ Len(G) = Z
       /\ \A k \in 1 .. Z : G[k] = IF o < k /\ k <= e THEN w[t].id ELSE want[i][k]
  <2>1. want[i] \in Seq(Nat) /\ Len(want[i]) = z
    BY ZenonT(60), <1>1, <1>3, <1>5 DEF WordInv
  <2>2. Max({Len(want[i]), e}) = Z
    <3>1. z \in Int /\ e \in Int
      OBVIOUS
    <3>2. Max({z, e}) = IF z <= e THEN e ELSE z
      BY ONLY ZenonT(60), <3>1, MinMaxPair
    <3> QED BY SMTT(30), <3>1, <3>2, <2>1, <1>11
  <2>3. \A k \in 1 .. Z : k \in e - n + 1 .. e <=> o < k /\ k <= e
    BY SMTT(30), <1>5, <1>11
  <2>4. G = [k \in 1 .. Z |-> IF k \in e - n + 1 .. e THEN w[t].id ELSE want[i][k]]
    BY Zenon, <2>2, <1>8
  <2>5. \A k \in 1 .. Z : (IF k \in e - n + 1 .. e THEN w[t].id ELSE want[i][k]) \in Nat
    <3>1. ASSUME NEW k \in 1 .. Z, ~(o < k /\ k <= e) PROVE want[i][k] \in Nat
      <4>1. k \in 1 .. Len(want[i])
        BY SMTT(30), <3>1, <2>1, <1>5, <1>7, <1>11
      <4> QED BY SMTT(30), <4>1, <2>1
    <3>2. w[t].id \in Nat
      BY Zenon, <1>3
    <3> QED BY ZenonT(60), <3>1, <3>2, <2>3
  <2>6. G \in [1 .. Z -> Nat] /\ Z \in Nat
    BY <2>4, <2>5
  <2>7. G \in Seq(Nat) /\ Len(G) = Z
    BY ONLY Zenon, <2>6, FunctionSeq
  <2> QED BY ZenonT(60), <2>3, <2>4, <2>7
<1>15. /\ v \in [left : Nat, n : Nat, tot : Nat, id : Nat] /\ v.n = 0 /\ v.tot = 0
  <2>1. CASE w[t].left = n
    <3>1. NoWrite \in [left : Nat, n : Nat, tot : Nat, id : Nat] /\ NoWrite.n = 0 /\ NoWrite.tot = 0
      BY Zenon DEF NoWrite
    <3> QED BY Zenon, <3>1, <2>1, <1>9
  <2>2. CASE w[t].left # n
    <3>1. PICK l \in Nat : l = w[t].left - n
      BY SMTT(30), <1>3, <1>5, <1>7
    <3>2. v = [w[t] EXCEPT !.left = l, !.n = 0, !.tot = 0] /\ w[t] \in [left : Nat, n : Nat, tot : Nat, id : Nat]
      BY Zenon, <3>1, <2>2, <1>3, <1>9
    <3> QED BY ZenonT(60), <3>2
  <2> QED BY Zenon, <2>1, <2>2
<1>16. /\ w' \in [Threads -> [left : Nat, n : Nat, tot : Nat, id : Nat]] /\ w'[t] = v
       /\ f' \in [Threads -> [ip : Files, off : Nat]] /\ f'[t].off = e /\ f'[t].ip = i
       /\ \A u \in Threads : u # t => w'[u] = w[u] /\ f'[u] = f[u]
  BY ZenonT(60), <1>2, <1>3, <1>10, <1>15
<1>17. /\ lock' \in [Files -> Threads \cup {0}] /\ lock'[i] = 0
       /\ \A j \in Files : j # i => lock'[j] = lock[j]
       /\ log' \in [Threads -> SUBSET (Blks \cup {BITMAP})] /\ log'[t] = {}
       /\ \A u \in Threads : u # t => log'[u] = log[u]
       /\ want' \in [Files -> Seq(Nat)] /\ want'[i] = G /\ \A j \in Files : j # i => want'[j] = want[j]
  BY ZenonT(60), <1>3, <1>10, <1>14
<1>18. Types'
  BY ZenonT(60), <1>1, <1>10, <1>12, <1>13, <1>16, <1>17 DEF Types
<1>19. \A j \in Files : \A k : Ptr(ip', data', j, k) = Ptr(ip, data, j, k)
  BY Zenon, <1>a, <1>12 DEF Ptr
<1>20. \A j \in Files, k \in Words : At(ip', data', j, k) = At(ip, data, j, k) /\ Word(ip', data', j, k) = Word(ip, data, j, k)
  BY Zenon, <1>a, <1>19 DEF At, Word
<1>21. Tree(used', data', ip')
  <2>1. Tree(used, data', ip')
    BY ONLY SMTT(30), <1>1, <1>19, TreeSame
  <2> QED BY ZenonT(60), <2>1, <1>a
<1>22. \A j \in Files : lock[j] # 0 /\ j # i => lock[j] # t /\ lock[j] \in Threads
  BY SMTT(30), <1>1, <1>2, <1>3 DEF LockInv
<1>23. LockInv'
  <2>1. ASSUME NEW j \in Files, lock'[j] # 0 PROVE f'[lock'[j]].ip = j /\ w'[lock'[j]].n > 0
    <3>1. j # i /\ lock'[j] = lock[j] /\ lock[j] # t /\ lock[j] \in Threads
      BY Zenon, <2>1, <1>17, <1>22
    <3> QED BY SMTT(30), <3>1, <2>1, <1>1, <1>16 DEF LockInv
  <2>2. ASSUME NEW u \in Threads
        PROVE  /\ f'[u].off <= ip'[f'[u].ip].size
               /\ w'[u].tot <= w'[u].n /\ w'[u].n <= w'[u].left /\ w'[u].n <= MaxChunk
               /\ w'[u].n > 0 => lock'[f'[u].ip] = u /\ f'[u].off + w'[u].n <= MAXFILE * BSIZE
               /\ w'[u].n = 0 => log'[u] = {}
    <3>1. CASE u = t
      <4>1. e <= Z /\ MaxChunk \in Nat /\ v.left \in Nat
        BY SMTT(30), <1>5, <1>11, <1>15, ChunkSize
      <4> QED BY SMTT(30), <4>1, <3>1, <1>12, <1>15, <1>16, <1>17
    <3>2. CASE u # t
      <4>1. f'[u] = f[u] /\ w'[u] = w[u] /\ log'[u] = log[u] /\ f[u].ip \in Files /\ f[u].off \in Nat
        BY ZenonT(60), <3>2, <1>3, <1>16, <1>17
      <4>2. f[u].off <= ip'[f[u].ip].size
        <5>1. f[u].off <= ip[f[u].ip].size
          BY ZenonT(60), <1>1 DEF LockInv
        <5>2. CASE f[u].ip = i
          BY SMTT(30), <5>1, <5>2, <4>1, <1>5, <1>11, <1>12
        <5>3. CASE f[u].ip # i
          BY ZenonT(60), <5>1, <5>3, <4>1, <1>12
        <5> QED BY ZenonT(60), <5>2, <5>3
      <4>3. w[u].n > 0 => lock'[f[u].ip] = u
        BY ZenonT(60), <3>2, <4>1, <1>1, <1>7, <1>17 DEF LockInv
      <4> QED BY ZenonT(60), <4>1, <4>2, <4>3, <1>1 DEF LockInv
    <3> QED BY ZenonT(60), <3>1, <3>2
  <2> QED BY ZenonT(60), <2>1, <2>2 DEF LockInv
<1>24. /\ \A k \in Words : ~Written(t, k)' /\ (Written(t, k) <=> o <= k /\ k < e)
       /\ \A u \in Threads, k \in Words : u # t => (Written(u, k)' <=> Written(u, k))
  <2>1. ASSUME NEW k \in Words PROVE ~Written(t, k)' /\ (Written(t, k) <=> o <= k /\ k < e)
    <3>1. k \in Nat
      BY ZenonT(60), WordPlace
    <3>2. ~(e <= k /\ k < e + 0) /\ f'[t].off = e /\ w'[t].tot = 0
      BY SMTT(30), <3>1, <1>15, <1>16
    <3> QED BY ZenonT(60), <3>1, <3>2, <1>5, <1>6 DEF Written
  <2>2. \A u \in Threads, k \in Words : u # t => (Written(u, k)' <=> Written(u, k))
    BY Zenon, <1>16 DEF Written
  <2> QED BY Zenon, <2>1, <2>2
<1>25. WordInv'
  <2>1. \A j \in Files : Len(want'[j]) = ip'[j].size
    <3>1. Len(want'[i]) = ip'[i].size
      BY Zenon, <1>12, <1>14, <1>17
    <3>2. ASSUME NEW j \in Files, j # i PROVE Len(want'[j]) = ip'[j].size
      BY ZenonT(60), <3>2, <1>1, <1>12, <1>17 DEF WordInv
    <3> QED BY Zenon, <3>1, <3>2
  <2>2. ASSUME NEW j \in Files, NEW k \in Words, k < ip'[j].size PROVE At(ip', data', j, k) # 0
    <3>1. k < ip[j].size \/ (j = i /\ Written(t, k))
      <4>1. CASE j # i
        BY ZenonT(60), <4>1, <2>2, <1>12
      <4>2. CASE j = i
        <5>1. k \in Nat /\ k < Z
          BY ZenonT(60), <2>2, <4>2, <1>12, WordPlace
        <5> QED BY SMTT(30), <5>1, <4>2, <1>5, <1>7, <1>11, <1>24
      <4> QED BY ZenonT(60), <4>1, <4>2
    <3>2. At(ip, data, j, k) # 0
      BY Zenon, <3>1, <1>1, <1>2 DEF WordInv
    <3> QED BY ZenonT(60), <3>2, <1>20
  <2>3. ASSUME NEW u \in Threads, NEW k \in Words, Written(u, k)'
        PROVE  At(ip', data', f'[u].ip, k) # 0 /\ Word(ip', data', f'[u].ip, k) = w'[u].id
    <3>1. u # t /\ Written(u, k)
      BY Zenon, <2>3, <1>24
    <3>2. PICK j \in Files : j = f[u].ip /\ j = f'[u].ip /\ w'[u].id = w[u].id
      BY Zenon, <3>1, <1>3, <1>16
    <3>3. At(ip, data, j, k) # 0 /\ Word(ip, data, j, k) = w[u].id
      BY Zenon, <3>1, <3>2, <1>1 DEF WordInv
    <3> QED BY Zenon, <3>2, <3>3, <1>20
  <2>4. ASSUME NEW j \in Files, NEW k \in Words, k < ip'[j].size, lock'[j] # 0 => ~Written(lock[j], k)'
        PROVE  Word(ip', data', j, k) = want'[j][k + 1]
    <3>1. CASE j # i
      <4>1. lock[j] # 0 => ~Written(lock[j], k)
        <5> SUFFICES ASSUME lock[j] # 0 PROVE ~Written(lock[j], k)
          OBVIOUS
        <5>1. PICK u \in Threads : u = lock[j] /\ u = lock'[j] /\ u # t /\ lock'[j] # 0
          BY ZenonT(60), <3>1, <1>17, <1>22
        <5>2. ~Written(u, k)'
          BY ZenonT(60), <2>4, <5>1 DEF Written
        <5> QED BY ZenonT(60), <5>1, <5>2, <1>24
      <4>2. k < ip[j].size
        BY ZenonT(60), <3>1, <2>4, <1>12
      <4>3. Word(ip, data, j, k) = want[j][k + 1]
        BY ZenonT(60), <4>1, <4>2, <1>1 DEF WordInv
      <4> QED BY ZenonT(60), <4>3, <3>1, <1>17, <1>20
    <3>2. CASE j = i
      <4>1. k \in Nat /\ k < Z /\ k + 1 \in 1 .. Z
        BY SMTT(30), <2>4, <3>2, <1>12, WordPlace
      <4>2. CASE Written(t, k)
        <5>1. Word(ip, data, i, k) = w[t].id
          BY ZenonT(60), <4>2, <1>1, <1>2 DEF WordInv
        <5>2. o < k + 1 /\ k + 1 <= e
          BY SMTT(30), <4>1, <4>2, <1>24
        <5> QED BY ZenonT(60), <5>1, <5>2, <4>1, <3>2, <1>14, <1>17, <1>20
      <4>3. CASE ~Written(t, k)
        <5>1. k < z /\ ~(o < k + 1 /\ k + 1 <= e)
          BY SMTT(30), <4>1, <4>3, <1>5, <1>7, <1>11, <1>24
        <5>2. Word(ip, data, i, k) = want[i][k + 1]
          BY ZenonT(60), <5>1, <4>3, <1>1, <1>5, <1>7 DEF WordInv
        <5> QED BY ZenonT(60), <5>1, <5>2, <4>1, <3>2, <1>14, <1>17, <1>20
      <4> QED BY ZenonT(60), <4>2, <4>3
    <3> QED BY Zenon, <3>1, <3>2
  <2> QED BY ZenonT(60), <2>1, <2>2, <2>3, <2>4 DEF WordInv
<1>26. DiskInv'
  <2>1. \A j \in Files : dip'[j].size = ip'[j].size
    BY ZenonT(60), <1>1, <1>12, <1>13 DEF DiskInv
  <2>2. ASSUME NEW j \in Files, dip'[j] # ip'[j]
        PROVE  lock'[j] # 0 /\ f'[lock'[j]].off + w'[lock'[j]].tot > ip'[j].size
    <3>1. j # i /\ dip[j] # ip[j] /\ ip'[j] = ip[j]
      BY Zenon, <2>2, <1>12, <1>13
    <3>2. lock[j] # 0 /\ f[lock[j]].off + w[lock[j]].tot > ip[j].size
      BY Zenon, <3>1, <1>1 DEF DiskInv
    <3>3. PICK u \in Threads : u = lock[j] /\ u = lock'[j] /\ u # t
      BY ZenonT(60), <3>1, <3>2, <1>17, <1>22
    <3>4. f'[u] = f[u] /\ w'[u] = w[u]
      BY Zenon, <3>3, <1>16
    <3> QED BY ZenonT(60), <3>1, <3>2, <3>3, <3>4
  <2> QED BY ZenonT(60), <2>1, <2>2 DEF DiskInv
<1>27. LogInv'
  <2>1. ASSUME NEW u \in Threads, NEW b \in log'[u]
        PROVE  \/ b = BITMAP \/ b = Ptr(ip', data', f'[u].ip, NDIRECT)
               \/ \E bn \in 0 .. MAXFILE - 1 :
                    /\ f'[u].off \div BSIZE <= bn /\ bn * BSIZE < f'[u].off + w'[u].tot
                    /\ b = Ptr(ip', data', f'[u].ip, Place(bn))
    <3>1. u # t /\ b \in log[u]
      BY Zenon, <2>1, <1>17
    <3>2. f'[u] = f[u] /\ w'[u] = w[u]
      BY ZenonT(60), <3>1, <1>16
    <3>3. \A k : Ptr(ip', data', f[u].ip, k) = Ptr(ip, data, f[u].ip, k)
      BY Zenon, <1>3, <1>19
    <3> QED BY SMTT(30), <3>1, <3>2, <3>3, <1>1 DEF LogInv
  <2> QED BY ZenonT(60), <2>1 DEF LogInv
<1> QED BY ZenonT(60), <1>18, <1>21, <1>23, <1>25, <1>26, <1>27 DEF IInv

\* itrunc frees what the file has and nothing else.
LEMMA ItruncInv ==
  ASSUME IInv, NEW i \in Files, Itrunc(i)
  PROVE  IInv'
<1>1. Types /\ Tree(used, data, ip) /\ LockInv /\ WordInv /\ DiskInv /\ LogInv
  BY Zenon DEF IInv
<1>2. /\ f \in [Threads -> [ip : Files, off : Nat]] /\ lock \in [Files -> Threads \cup {0}]
      /\ w \in [Threads -> [left : Nat, n : Nat, tot : Nat, id : Nat]] /\ used \subseteq Blks
      /\ ip \in [Files -> Inode] /\ dip \in [Files -> Inode] /\ want \in [Files -> Seq(Nat)] /\ calls \in Nat
  BY Zenon, <1>1 DEF Types
<1>3. /\ used' = used \ InFile(i) /\ ip' = [ip EXCEPT ![i] = NoInode] /\ dip' = [dip EXCEPT ![i] = NoInode]
      /\ f' = [t \in Threads |-> IF f[t].ip = i THEN [f[t] EXCEPT !.off = 0] ELSE f[t]]
      /\ want' = [want EXCEPT ![i] = <<>>] /\ calls' = calls + 1
      /\ data' = data /\ lock' = lock /\ w' = w /\ log' = log
      /\ \A t \in Threads : f[t].ip = i => w[t] = NoWrite
  BY Zenon DEF Itrunc, Bfree
<1>4. /\ NoInode \in Inode /\ NoInode.size = 0 /\ \A k \in 0 .. NDIRECT : NoInode.addrs[k] = 0
      /\ NoWrite.n = 0 /\ NoWrite.tot = 0
  <2>1. 0 \in 0 .. MAXFILE * BSIZE
    BY Sizes0
  <2> QED BY Zenon, <2>1 DEF NoInode, Inode, NoWrite
<1>5. /\ ip' \in [Files -> Inode] /\ ip'[i] = NoInode /\ dip' \in [Files -> Inode] /\ dip'[i] = NoInode
      /\ want' \in [Files -> Seq(Nat)] /\ want'[i] = <<>>
      /\ \A j \in Files : j # i => ip'[j] = ip[j] /\ dip'[j] = dip[j] /\ want'[j] = want[j]
  <2>1. <<>> \in Seq(Nat)
    OBVIOUS
  <2> QED BY ZenonT(60), <2>1, <1>2, <1>3, <1>4
<1>6. /\ f' \in [Threads -> [ip : Files, off : Nat]]
      /\ \A t \in Threads : f'[t].ip = f[t].ip /\ (f[t].ip = i => f'[t].off = 0) /\ (f[t].ip # i => f'[t] = f[t])
  BY ZenonT(60), <1>2, <1>3
<1>7. \A t \in Threads : f[t].ip = i => w[t].n = 0 /\ w[t].tot = 0 /\ log[t] = {}
  BY Zenon, <1>1, <1>3, <1>4 DEF LockInv
<1>8. lock[i] = 0 /\ \A j \in Files : lock[j] # 0 => lock[j] \in Threads /\ f[lock[j]].ip = j /\ j # i
  BY SMTT(30), <1>1, <1>2, <1>7 DEF LockInv
<1>9. \A k \in Places : Ptr(ip', data', i, k) = 0
  BY SMTT(30), <1>4, <1>5, Sizes0 DEF Ptr, Places
<1>10. ASSUME NEW j \in Files, j # i
       PROVE  /\ \A k : Ptr(ip', data', j, k) = Ptr(ip, data, j, k)
              /\ \A n \in Words : At(ip', data', j, n) = At(ip, data, j, n) /\ Word(ip', data', j, n) = Word(ip, data, j, n)
  <2>1. \A k : Ptr(ip', data', j, k) = Ptr(ip, data, j, k)
    BY ZenonT(60), <1>3, <1>5, <1>10 DEF Ptr
  <2> QED BY Zenon, <2>1, <1>3 DEF At, Word
<1>11. Types'
  BY SMTT(30), <1>1, <1>2, <1>3, <1>5, <1>6 DEF Types
<1>12. Tree(used', data', ip')
  <2>1. ASSUME NEW j \in Files, NEW k \in Places PROVE Ptr(ip', data', j, k) \in used' \cup {0}
    <3>1. CASE j = i
      BY Zenon, <3>1, <1>9
    <3>2. CASE j # i
      <4>1. PICK b : b = Ptr(ip, data, j, k) /\ b = Ptr(ip', data', j, k) /\ b \in used \cup {0}
        BY SMTT(30), <3>2, <1>1, <1>10 DEF Tree
      <4>2. ASSUME b # 0, b \in InFile(i) PROVE FALSE
        <5>1. PICK l \in Places : b = Ptr(ip, data, i, l)
          BY Zenon, <4>2, InFileIs
        <5>2. Tree(used, data, ip) /\ Ptr(ip, data, j, k) # 0 /\ Ptr(ip, data, j, k) = Ptr(ip, data, i, l)
          BY ZenonT(60), <4>1, <4>2, <5>1, <1>1
        <5>3. j = i
          BY ONLY SMTT(30), <5>2, i \in Files, j \in Files, k \in Places, l \in Places, OnePlace
        <5> QED BY Zenon, <5>3, <3>2
      <4> QED BY ZenonT(60), <4>1, <4>2, <1>3
    <3> QED BY Zenon, <3>1, <3>2
  <2>2. ASSUME NEW j \in Files, NEW l \in Files, NEW k \in Places, NEW m \in Places,
               Ptr(ip', data', j, k) # 0, Ptr(ip', data', j, k) = Ptr(ip', data', l, m)
        PROVE  j = l /\ k = m
    <3>1. j # i /\ l # i
      BY Zenon, <2>2, <1>9
    <3>2. Tree(used, data, ip) /\ Ptr(ip, data, j, k) # 0 /\ Ptr(ip, data, j, k) = Ptr(ip, data, l, m)
      BY ZenonT(60), <2>2, <3>1, <1>1, <1>10
    <3> QED BY ONLY SMTT(30), <3>2, j \in Files, l \in Files, k \in Places, m \in Places, OnePlace
  <2>3. ASSUME NEW b \in used' PROVE \E j \in Files, k \in Places : b = Ptr(ip', data', j, k)
    <3>1. b \in used /\ b \notin InFile(i) /\ b # 0
      BY ZenonT(60), <2>3, <1>2, <1>3, Sizes0
    <3>2. PICK j \in Files, k \in Places : b = Ptr(ip, data, j, k)
      BY Zenon, <3>1, <1>1 DEF Tree
    <3>3. j # i
      BY ZenonT(60), <3>1, <3>2, InFileIs
    <3> QED BY ZenonT(60), <3>2, <3>3, <1>10
  <2> QED BY SMTT(30), <2>1, <2>2, <2>3 DEF Tree
<1>13. LockInv'
  <2>1. ASSUME NEW j \in Files, lock'[j] # 0 PROVE f'[lock'[j]].ip = j /\ w'[lock'[j]].n > 0
    BY ZenonT(60), <2>1, <1>1, <1>3, <1>6, <1>8 DEF LockInv
  <2>2. ASSUME NEW u \in Threads
        PROVE  /\ f'[u].off <= ip'[f'[u].ip].size
               /\ w'[u].tot <= w'[u].n /\ w'[u].n <= w'[u].left /\ w'[u].n <= MaxChunk
               /\ w'[u].n > 0 => lock'[f'[u].ip] = u /\ f'[u].off + w'[u].n <= MAXFILE * BSIZE
               /\ w'[u].n = 0 => log'[u] = {}
    <3>1. w'[u].tot <= w'[u].n /\ w'[u].n <= w'[u].left /\ w'[u].n <= MaxChunk /\ (w'[u].n = 0 => log'[u] = {})
      BY ZenonT(60), <1>1, <1>3 DEF LockInv
    <3>2. CASE f[u].ip = i
      <4>1. f'[u].off = 0 /\ ip'[f'[u].ip].size = 0 /\ ~(w'[u].n > 0)
        BY SMTT(30), <3>2, <1>3, <1>4, <1>5, <1>6, <1>7
      <4> QED BY SMTT(30), <4>1, <3>1
    <3>3. CASE f[u].ip # i
      <4>1. f'[u] = f[u] /\ ip'[f[u].ip] = ip[f[u].ip] /\ lock' = lock /\ w' = w
        BY ZenonT(60), <3>3, <1>2, <1>3, <1>5, <1>6
      <4> QED BY ZenonT(60), <4>1, <3>1, <1>1 DEF LockInv
    <3> QED BY Zenon, <3>2, <3>3
  <2> QED BY Zenon, <2>1, <2>2 DEF LockInv
<1>14. \A u \in Threads, n \in Words : (Written(u, n)' <=> Written(u, n)) /\ (Written(u, n) => f[u].ip # i)
  <2>1. ASSUME NEW u \in Threads, NEW n \in Words
        PROVE  (Written(u, n)' <=> Written(u, n)) /\ (Written(u, n) => f[u].ip # i)
    <3>1. CASE f[u].ip = i
      <4>1. n \in Nat /\ f[u].off \in Nat /\ w[u].tot = 0 /\ w'[u].tot = 0 /\ f'[u].off = 0
        BY ZenonT(60), <3>1, <1>2, <1>3, <1>6, <1>7, WordPlace
      <4> QED BY <4>1 DEF Written
    <3>2. CASE f[u].ip # i
      BY ZenonT(60), <3>2, <1>3, <1>6 DEF Written
    <3> QED BY ZenonT(60), <3>1, <3>2
  <2> QED BY Zenon, <2>1
<1>15. WordInv'
  <2>0. \A n \in Words : ~(n < ip'[i].size)
    BY SMTT(30), <1>4, <1>5, WordPlace
  <2>1. \A j \in Files : Len(want'[j]) = ip'[j].size
    <3>1. Len(want'[i]) = ip'[i].size
      BY Zenon, <1>4, <1>5
    <3>2. ASSUME NEW j \in Files, j # i PROVE Len(want'[j]) = ip'[j].size
      BY ZenonT(60), <3>2, <1>1, <1>5 DEF WordInv
    <3> QED BY Zenon, <3>1, <3>2
  <2>2. ASSUME NEW j \in Files, NEW n \in Words, n < ip'[j].size PROVE At(ip', data', j, n) # 0
    <3>1. j # i
      BY Zenon, <2>0, <2>2
    <3>2. At(ip, data, j, n) # 0
      BY ZenonT(60), <2>2, <3>1, <1>1, <1>5 DEF WordInv
    <3> QED BY ZenonT(60), <3>1, <3>2, <1>10
  <2>3. ASSUME NEW u \in Threads, NEW n \in Words, Written(u, n)'
        PROVE  At(ip', data', f'[u].ip, n) # 0 /\ Word(ip', data', f'[u].ip, n) = w'[u].id
    <3>1. Written(u, n)
      BY Zenon, <2>3, <1>14
    <3>2. PICK j \in Files : j = f[u].ip /\ j = f'[u].ip /\ j # i
      BY ZenonT(60), <3>1, <1>2, <1>6, <1>14
    <3>3. At(ip, data, j, n) # 0 /\ Word(ip, data, j, n) = w[u].id
      BY ZenonT(60), <3>1, <3>2, <1>1 DEF WordInv
    <3> QED BY ZenonT(60), <3>2, <3>3, <1>3, <1>10
  <2>4. ASSUME NEW j \in Files, NEW n \in Words, n < ip'[j].size, lock'[j] # 0 => ~Written(lock[j], n)'
        PROVE  Word(ip', data', j, n) = want'[j][n + 1]
    <3>1. j # i
      BY Zenon, <2>0, <2>4
    <3>2. n < ip[j].size /\ (lock[j] # 0 => ~Written(lock[j], n))
      <4>1. n < ip[j].size
        BY ZenonT(60), <2>4, <3>1, <1>5
      <4>2. ASSUME lock[j] # 0 PROVE ~Written(lock[j], n)
        <5>1. PICK u \in Threads : u = lock[j] /\ u = lock'[j] /\ lock'[j] # 0
          BY ZenonT(60), <4>2, <1>3, <1>8
        <5>2. ~Written(u, n)'
          BY ZenonT(60), <2>4, <5>1 DEF Written
        <5> QED BY ZenonT(60), <5>1, <5>2, <1>14
      <4> QED BY Zenon, <4>1, <4>2
    <3>3. Word(ip, data, j, n) = want[j][n + 1]
      BY Zenon, <3>2, <1>1 DEF WordInv
    <3> QED BY ZenonT(60), <3>1, <3>3, <1>5, <1>10
  <2> QED BY ZenonT(60), <2>1, <2>2, <2>3, <2>4 DEF WordInv
<1>16. DiskInv'
  <2>1. ASSUME NEW j \in Files
        PROVE  /\ dip'[j].size = ip'[j].size
               /\ dip'[j] # ip'[j] => lock'[j] # 0 /\ f'[lock'[j]].off + w'[lock'[j]].tot > ip'[j].size
    <3>1. CASE j = i
      BY Zenon, <3>1, <1>5
    <3>2. CASE j # i
      <4>1. dip'[j] = dip[j] /\ ip'[j] = ip[j]
        BY ZenonT(60), <3>2, <1>5
      <4>2. lock[j] # 0 => f'[lock[j]] = f[lock[j]]
        BY ZenonT(60), <3>2, <1>6, <1>8
      <4> QED BY ZenonT(60), <4>1, <4>2, <1>1, <1>3 DEF DiskInv
    <3> QED BY Zenon, <3>1, <3>2
  <2> QED BY ZenonT(60), <2>1 DEF DiskInv
<1>17. LogInv'
  <2>1. ASSUME NEW u \in Threads, NEW b \in log'[u]
        PROVE  \/ b = BITMAP \/ b = Ptr(ip', data', f'[u].ip, NDIRECT)
               \/ \E bn \in 0 .. MAXFILE - 1 :
                    /\ f'[u].off \div BSIZE <= bn /\ bn * BSIZE < f'[u].off + w'[u].tot
                    /\ b = Ptr(ip', data', f'[u].ip, Place(bn))
    <3>1. f[u].ip # i /\ b \in log[u] /\ f[u].ip \in Files
      BY ZenonT(60), <2>1, <1>2, <1>3, <1>7
    <3>2. f'[u] = f[u] /\ w'[u] = w[u]
      BY ZenonT(60), <3>1, <1>3, <1>6
    <3>3. \A k : Ptr(ip', data', f[u].ip, k) = Ptr(ip, data, f[u].ip, k)
      BY ZenonT(60), <3>1, <1>10
    <3> QED BY SMTT(30), <3>1, <3>2, <3>3, <1>1 DEF LogInv
  <2> QED BY ZenonT(60), <2>1 DEF LogInv
<1> QED BY ZenonT(60), <1>11, <1>12, <1>13, <1>15, <1>16, <1>17 DEF IInv

\* Every step keeps the invariant.
LEMMA NextInv ==
  ASSUME IInv, [Next]_vars
  PROVE  IInv'
<1>1. ASSUME NEW t \in Threads, NEW n \in Sizes, Fileread(t, n) PROVE IInv'
  BY Zenon, <1>1, FilereadInv
<1>2. ASSUME NEW t \in Threads, NEW n \in Sizes, Filewrite(t, n) PROVE IInv'
  BY ZenonT(60), <1>2, FilewriteInv
<1>3. ASSUME NEW t \in Threads, Chunk(t) PROVE IInv'
  BY ZenonT(60), <1>3, ChunkInv
<1>4. ASSUME NEW t \in Threads, WriteiBlock(t) PROVE IInv'
  BY ZenonT(60), <1>4, WriteiBlockInv
<1>5. ASSUME NEW t \in Threads, WriteiEnd(t) PROVE IInv'
  BY Zenon, <1>5, WriteiEndInv
<1>6. ASSUME NEW i \in Files, Itrunc(i) PROVE IInv'
  BY Zenon, <1>6, ItruncInv
<1>7. CASE UNCHANGED vars
  <2>1. /\ used' = used /\ data' = data /\ ip' = ip /\ dip' = dip /\ lock' = lock /\ f' = f /\ w' = w
        /\ log' = log /\ calls' = calls /\ want' = want
    BY Zenon, <1>7 DEF vars
  <2>2. Types'
    BY Zenon, <2>1 DEF IInv, Types
  <2>3. Tree(used', data', ip')
    BY Zenon, <2>1 DEF IInv
  <2>4. LockInv' /\ DiskInv'
    BY Zenon, <2>1 DEF IInv, LockInv, DiskInv
  <2>5. WordInv'
    BY Zenon, <2>1 DEF IInv, WordInv, Written, At, Word, Ptr
  <2>6. LogInv'
    BY Zenon, <2>1 DEF IInv, LogInv
  <2> QED BY Zenon, <2>2, <2>3, <2>4, <2>5, <2>6 DEF IInv
<1> QED BY ZenonT(60), <1>1, <1>2, <1>3, <1>4, <1>5, <1>6, <1>7 DEF Next

\* The trees, the locks and the words hold in every state.
THEOREM Invariance == Spec => []IInv
<1>1. Init => IInv
  BY Zenon, InitInv
<1>2. IInv /\ [Next]_vars => IInv'
  BY Zenon, NextInv
<1> QED BY <1>1, <1>2, PTL DEF Spec

\* readi's address of a block is what bmap keeps in its place.
LEMMA AddrOfIs ==
  ASSUME NEW i \in Files, NEW bn \in 0 .. MAXFILE - 1, bn < NDIRECT \/ ip[i].addrs[NDIRECT] # 0
  PROVE  AddrOf(i, bn) = Ptr(ip, data, i, Place(bn)) /\ Place(bn) \in Places
<1>1. CASE bn < NDIRECT
  <2>1. Place(bn) = bn /\ bn <= NDIRECT /\ bn \in Places
    BY <1>1, Sizes0 DEF Place, Places
  <2> QED BY Zenon, <1>1, <2>1 DEF AddrOf, Ptr
<1>2. CASE ~(bn < NDIRECT)
  <2>1. Place(bn) = bn + 1 /\ ~(bn + 1 <= NDIRECT) /\ (bn + 1) - NDIRECT - 1 = bn - NDIRECT /\ bn + 1 \in Places
    BY <1>2, Sizes0 DEF Place, Places
  <2> QED BY Zenon, <1>2, <2>1 DEF AddrOf, Ptr
<1> QED BY Zenon, <1>1, <1>2

\* A file nobody writes reads back as the writes left it, and its disk inode is up to date.
LEMMA InvReadsBack == IInv => ReadsBack
<1> SUFFICES ASSUME IInv, NEW i \in Files, lock[i] = 0 PROVE Readi(i, 0, ip[i].size) = want[i] /\ dip[i] = ip[i]
  BY Zenon DEF ReadsBack
<1>1. Types /\ WordInv /\ DiskInv
  BY Zenon DEF IInv
<1>2. dip[i] = ip[i]
  BY Zenon, <1>1 DEF DiskInv
<1>3. PICK P \in Nat : P = MAXFILE * BSIZE
  BY Sizes0
<1>4. PICK z \in 0 .. P : z = ip[i].size
  BY Zenon, <1>1, <1>3 DEF Types, Inode
<1>5. PICK g : g = want[i] /\ g \in Seq(Nat) /\ Len(g) = z
  BY Zenon, <1>1, <1>4 DEF Types, WordInv
<1>6. ASSUME NEW k \in 1 .. z
      PROVE  data[AddrOf(i, (0 + k - 1) \div BSIZE)][(0 + k - 1) % BSIZE] = g[k]
  <2>1. PICK n \in Words : n = k - 1 /\ n = 0 + k - 1 /\ n < z /\ n + 1 = k
    BY <1>3, <1>4 DEF Words
  <2>2. At(ip, data, i, n) # 0 /\ Word(ip, data, i, n) = g[k]
    BY ZenonT(60), <2>1, <1>1, <1>4, <1>5 DEF WordInv
  <2>3. PICK bn \in 0 .. MAXFILE - 1 : bn = n \div BSIZE
    BY Zenon, WordPlace
  <2>4. bn < NDIRECT \/ ip[i].addrs[NDIRECT] # 0
    <3>1. CASE ~(bn < NDIRECT)
      <4>1. Place(bn) = bn + 1 /\ ~(bn + 1 <= NDIRECT)
        BY SMTT(30), <3>1, Sizes0 DEF Place
      <4>2. Ptr(ip, data, i, bn + 1) # 0
        BY ZenonT(60), <4>1, <2>2, <2>3 DEF At
      <4> QED BY ZenonT(60), <4>1, <4>2 DEF Ptr
    <3> QED BY Zenon, <3>1
  <2>5. AddrOf(i, n \div BSIZE) = At(ip, data, i, n)
    BY ZenonT(60), <2>3, <2>4, AddrOfIs DEF At
  <2> QED BY ZenonT(60), <2>1, <2>2, <2>5 DEF Word
<1>7. Readi(i, 0, z) = [k \in 1 .. z |-> data[AddrOf(i, (0 + k - 1) \div BSIZE)][(0 + k - 1) % BSIZE]]
  <2>1. z \in Int /\ z - 0 = z
    OBVIOUS
  <2>2. Min({z, z}) = z
    BY ONLY ZenonT(60), <2>1, MinMaxPair
  <2> QED BY ZenonT(60), <2>1, <2>2, <1>4 DEF Readi
<1>8. g = [k \in 1 .. z |-> g[k]]
  BY <1>5
<1>9. Readi(i, 0, z) = g
  BY ZenonT(60), <1>6, <1>7, <1>8
<1> QED BY ZenonT(60), <1>2, <1>4, <1>5, <1>9

\* Whatever the interleaving of the writers of different files, readi returns the words
\* of the finished writes, and iupdate has not been left out where it was needed.
THEOREM FileIsArray == Spec => []ReadsBack
  BY Invariance, InvReadsBack, PTL

\* The blocks of a file are those in its places.
LEMMA RefsIs ==
  ASSUME IInv, NEW i \in Files, NEW b
  PROVE  b \in Refs(i) <=> b # 0 /\ \E k \in Places : b = Ptr(ip, data, i, k)
<1>1. Tree(used, data, ip) /\ used \subseteq Blks /\ ip[i].addrs[NDIRECT] = Ptr(ip, data, i, NDIRECT)
  BY Sizes0 DEF IInv, Types, Ptr
<1>2. ASSUME b \in Refs(i) PROVE b # 0 /\ \E k \in Places : b = Ptr(ip, data, i, k)
  <2>1. CASE b \in {ip[i].addrs[NDIRECT]} \ {0}
    BY Zenon, <2>1, <1>1, Sizes0
  <2>2. CASE b \notin {ip[i].addrs[NDIRECT]} \ {0}
    <3>1. PICK bn \in 0 .. MAXFILE - 1 : (bn < NDIRECT \/ ip[i].addrs[NDIRECT] # 0) /\ b = AddrOf(i, bn) /\ b \in Blks
      BY Zenon, <1>2, <2>2 DEF Refs
    <3>2. b = Ptr(ip, data, i, Place(bn)) /\ Place(bn) \in Places
      BY Zenon, <3>1, AddrOfIs
    <3> QED BY Zenon, <3>1, <3>2, Sizes0
  <2> QED BY Zenon, <2>1, <2>2
<1>3. ASSUME b # 0, NEW k \in Places, b = Ptr(ip, data, i, k) PROVE b \in Refs(i)
  <2>1. b \in Blks
    BY Zenon, <1>1, <1>3 DEF Tree
  <2>2. CASE k = NDIRECT
    BY ZenonT(60), <2>2, <1>1, <1>3 DEF Refs
  <2>3. CASE k # NDIRECT
    <3>1. PICK bn \in 0 .. MAXFILE - 1 : Place(bn) = k /\ (bn < NDIRECT <=> k <= NDIRECT)
      <4>1. CASE k < NDIRECT
        <5>1. k \in 0 .. MAXFILE - 1 /\ Place(k) = k /\ k <= NDIRECT
          BY <4>1, Sizes0 DEF Place, Places
        <5> QED BY Zenon, <4>1, <5>1
      <4>2. CASE ~(k < NDIRECT)
        <5>1. k - 1 \in 0 .. MAXFILE - 1 /\ ~(k - 1 < NDIRECT) /\ Place(k - 1) = k /\ ~(k <= NDIRECT)
          BY SMTT(30), <4>2, <2>3, Sizes0 DEF Place, Places
        <5> QED BY Zenon, <5>1
      <4> QED BY Zenon, <4>1, <4>2
    <3>2. bn < NDIRECT \/ ip[i].addrs[NDIRECT] # 0
      BY Zenon, <3>1, <1>3 DEF Ptr
    <3>3. b = AddrOf(i, bn)
      BY ZenonT(60), <3>1, <3>2, <1>3, AddrOfIs
    <3> QED BY ZenonT(60), <2>1, <3>2, <3>3 DEF Refs
  <2> QED BY Zenon, <2>2, <2>3
<1> QED BY ZenonT(60), <1>2, <1>3

\* The invariant's trees are the bitmap's partition.
LEMMA InvEachBlockOnce == IInv => EachBlockOnce
<1> SUFFICES ASSUME IInv PROVE EachBlockOnce
  OBVIOUS
<1>1. Types /\ Tree(used, data, ip) /\ LockInv
  BY Zenon DEF IInv
<1>2. TypeOK
  <2>1. used \subseteq Blks
    BY Zenon, <1>1 DEF Types
  <2>2. \A i \in Files : ip[i].size \in 0 .. MAXFILE * BSIZE /\ \A k \in 0 .. NDIRECT : ip[i].addrs[k] \in Blks \cup {0}
    <3>1. ASSUME NEW i \in Files
          PROVE  ip[i].size \in 0 .. MAXFILE * BSIZE /\ \A k \in 0 .. NDIRECT : ip[i].addrs[k] \in Blks \cup {0}
      <4>1. ip[i] \in Inode
        BY Zenon, <1>1 DEF Types
      <4>2. ip[i].size \in 0 .. MAXFILE * BSIZE /\ ip[i].addrs \in [0 .. NDIRECT -> Blks \cup {0}]
        BY Zenon, <4>1 DEF Inode
      <4> QED BY Zenon, <4>2
    <3> QED BY Zenon, <3>1
  <2>3. \A t \in Threads : w[t].tot <= w[t].n /\ w[t].n <= w[t].left /\ f[t].off \in Nat
    BY Zenon, <1>1 DEF Types, LockInv
  <2> QED BY Zenon, <2>1, <2>2, <2>3 DEF TypeOK
<1>3. ASSUME NEW b \in used PROVE b \in UNION {Refs(i) : i \in Files}
  <2>1. PICK i \in Files, k \in Places : b = Ptr(ip, data, i, k)
    BY Zenon, <1>1 DEF Tree
  <2>2. b # 0
    BY Zenon, <1>1, Sizes0 DEF Types
  <2>3. b \in Refs(i)
    BY Zenon, <2>1, <2>2, RefsIs
  <2> QED BY Zenon, <2>3
<1>4. ASSUME NEW i \in Files, NEW b \in Refs(i) PROVE b \in used
  <2>1. PICK k \in Places : b = Ptr(ip, data, i, k) /\ b # 0
    BY Zenon, <1>4, RefsIs
  <2> QED BY Zenon, <2>1, <1>1 DEF Tree
<1>5. ASSUME NEW i \in Files, NEW j \in Files, i # j, NEW b \in Refs(i) \cap Refs(j) PROVE FALSE
  <2>1. PICK k \in Places : b = Ptr(ip, data, i, k) /\ b # 0
    BY Zenon, <1>5, RefsIs
  <2>2. PICK l \in Places : b = Ptr(ip, data, j, l)
    BY Zenon, <1>5, RefsIs
  <2>3. Tree(used, data, ip) /\ Ptr(ip, data, i, k) # 0 /\ Ptr(ip, data, i, k) = Ptr(ip, data, j, l)
    BY ZenonT(60), <2>1, <2>2, <1>1
  <2>4. i = j
    BY ONLY SMTT(30), <2>3, i \in Files, j \in Files, k \in Places, l \in Places, OnePlace
  <2> QED BY Zenon, <2>4, <1>5
<1>6. used = UNION {Refs(i) : i \in Files}
  BY Zenon, <1>3, <1>4
<1>7. \A i, j \in Files : i # j => Refs(i) \cap Refs(j) = {}
  BY ZenonT(60), <1>5
<1> QED BY Zenon, <1>2, <1>6, <1>7 DEF EachBlockOnce

\* Every block marked in the bitmap is in exactly one file, at every point between two
\* blocks of a writei and after any itrunc.
THEOREM BlocksOnce == Spec => []EachBlockOnce
  BY Invariance, InvEachBlockOnce, PTL

\* What a chunk has logged: two blocks more than the blocks it covers, at most.
LEMMA LogBounded ==
  ASSUME IInv, NEW t \in Threads, NEW M \in Nat, MaxChunk = M * BSIZE
  PROVE  IsFiniteSet(log[t]) /\ Cardinality(log[t]) \in Nat /\ Cardinality(log[t]) <= M + 3
<1>1. Types /\ LockInv /\ LogInv
  BY Zenon DEF IInv
<1>2. PICK o \in Nat, T \in Nat, i \in Files : o = f[t].off /\ T = w[t].tot /\ i = f[t].ip
  BY Zenon, <1>1 DEF Types
<1>3. PICK q \in Nat, y \in 0 .. BSIZE - 1 : q = o \div BSIZE /\ y = o % BSIZE /\ o = q * BSIZE + y
  BY Zenon, DivMod
<1> DEFINE S == q .. q + M
           B == {Ptr(ip, data, i, Place(bn)) : bn \in S}
           X == {BITMAP} \cup {Ptr(ip, data, i, NDIRECT)}
<1>4. T <= M * BSIZE
  <2>1. T <= w[t].n /\ w[t].n <= M * BSIZE /\ w[t].n \in Nat
    BY ZenonT(60), <1>1, <1>2 DEF LockInv, Types
  <2>2. PICK z \in Nat : z = M * BSIZE
    BY SMTT(30), Sizes0
  <2> QED BY <2>1, <2>2
<1>5. ASSUME NEW bn \in Nat, bn * BSIZE < o + T PROVE bn <= q + M
  <2>1. SUFFICES ASSUME bn >= q + M + 1 PROVE FALSE
    BY <1>3
  <2>2. PICK d \in Nat : bn = q + M + 1 + d
    <3>1. bn - (q + M + 1) \in Nat /\ bn = q + M + 1 + (bn - (q + M + 1))
      BY SMTT(30), <2>1
    <3> QED BY Zenon, <3>1
  <2>3. PICK x1 \in Nat, x2 \in Nat, x3 \in Nat : x1 = q * BSIZE /\ x2 = M * BSIZE /\ x3 = d * BSIZE
    BY SMTT(30), Sizes0
  <2>4. bn * BSIZE = x1 + x2 + BSIZE + x3
    BY SMTT(30), <2>2, <2>3, Sizes0
  <2>5. o + T < x1 + BSIZE + x2
    BY SMTT(30), <2>3, <1>3, <1>4, Sizes0
  <2> QED BY SMTT(30), <2>3, <2>4, <2>5, <1>5, Sizes0
<1>6. log[t] \subseteq X \cup B
  <2>1. ASSUME NEW b \in log[t], b # BITMAP, b # Ptr(ip, data, i, NDIRECT) PROVE b \in B
    <3>1. PICK bn \in 0 .. MAXFILE - 1 : o \div BSIZE <= bn /\ bn * BSIZE < o + T /\ b = Ptr(ip, data, i, Place(bn))
      BY ZenonT(60), <2>1, <1>1, <1>2 DEF LogInv
    <3>2. bn \in Nat /\ q <= bn
      BY SMTT(30), <3>1, <1>3, Sizes0
    <3>3. bn \in S
      BY SMTT(30), <3>1, <3>2, <1>5
    <3> QED BY Zenon, <3>1, <3>3
  <2> QED BY Zenon, <2>1
<1>7. IsFiniteSet(S) /\ Cardinality(S) = M + 1
  <2>1. q \in Int /\ q + M \in Int /\ ~(q > q + M) /\ q + M - q + 1 = M + 1
    OBVIOUS
  <2> QED BY SMTT(30), <2>1, FS_Interval
<1>8. IsFiniteSet(B) /\ Cardinality(B) <= M + 1 /\ Cardinality(B) \in Nat
  <2> DEFINE g == [bn \in S |-> Ptr(ip, data, i, Place(bn))]
  <2>1. g \in Surjection(S, B)
    BY Zenon DEF Surjection
  <2> HIDE DEF g, B, S
  <2>2. IsFiniteSet(B) /\ Cardinality(B) <= Cardinality(S)
    BY ONLY ZenonT(60), <2>1, <1>7, FS_Surjection
  <2>3. Cardinality(B) \in Nat
    BY ONLY Zenon, <2>2, FS_CardinalityType
  <2> QED BY ZenonT(60), <2>2, <2>3, <1>7
<1>9. IsFiniteSet(X) /\ Cardinality(X) <= 2 /\ Cardinality(X) \in Nat
  <2>1. PICK x1, x2 : x1 = BITMAP /\ x2 = Ptr(ip, data, i, NDIRECT)
    OBVIOUS
  <2>2. IsFiniteSet({x1}) /\ Cardinality({x1}) = 1
    BY ZenonT(60), FS_Singleton
  <2>3. IsFiniteSet({x1} \cup {x2}) /\ Cardinality({x1} \cup {x2}) <= 2 /\ Cardinality({x1} \cup {x2}) \in Nat
    <3>1. IsFiniteSet({x1} \cup {x2}) /\ Cardinality({x1} \cup {x2}) = IF x2 \in {x1} THEN Cardinality({x1}) ELSE Cardinality({x1}) + 1
      BY ONLY Zenon, <2>2, FS_AddElement
    <3> QED BY <2>2, <3>1
  <2> QED BY ZenonT(60), <2>1, <2>3
<1> HIDE DEF S, B, X
<1>10. /\ IsFiniteSet(X \cup B) /\ IsFiniteSet(X \cap B) /\ Cardinality(X \cap B) \in Nat
       /\ Cardinality(X \cup B) = Cardinality(X) + Cardinality(B) - Cardinality(X \cap B)
  BY ZenonT(60), <1>8, <1>9, FS_Union, FS_Intersection, FS_CardinalityType
<1>11. /\ IsFiniteSet(log[t]) /\ Cardinality(log[t]) <= Cardinality(X \cup B) /\ Cardinality(log[t]) \in Nat
  BY Zenon, <1>6, <1>10, FS_Subset, FS_CardinalityType
<1> QED BY SMTT(30), <1>8, <1>9, <1>10, <1>11

\* A chunk and its inode leave room in the log.
LEMMA InvChunkFitsLog == IInv => ChunkFitsLog
<1> SUFFICES ASSUME IInv, NEW t \in Threads
             PROVE  Cardinality(log[t]) + (IF w[t].n > 0 THEN 1 ELSE 0) < LOGSIZE
  BY Zenon DEF ChunkFitsLog
<1>1. PICK M \in Nat : M > 0 /\ 2 * M <= LOGSIZE - 4 /\ MaxChunk = M * BSIZE
  BY Zenon, ChunkSize
<1>2. Cardinality(log[t]) \in Nat /\ Cardinality(log[t]) <= M + 3
  BY Zenon, <1>1, LogBounded
<1>3. w[t].n \in Nat /\ (w[t].n = 0 => log[t] = {})
  BY Zenon DEF IInv, Types, LockInv
<1>4. LOGSIZE \in Nat /\ LOGSIZE >= 6
  BY Zenon, BlocksAssumption
<1>5. CASE w[t].n > 0
  BY SMTT(30), <1>1, <1>2, <1>4, <1>5
<1>6. CASE ~(w[t].n > 0)
  <2>1. Cardinality(log[t]) = 0
    BY SMTT(30), <1>3, <1>6, FS_EmptySet
  <2> QED BY SMTT(30), <2>1, <1>4, <1>6
<1> QED BY Zenon, <1>5, <1>6

\* "write a few blocks at a time to avoid exceeding the maximum log transaction size"
\* (file.c): whatever the sizes of block and log, a chunk logs less than LOGSIZE blocks.
THEOREM ChunkFits == Spec => []ChunkFitsLog
  BY Invariance, InvChunkFitsLog, PTL

=============================================================================
