------------------------------ MODULE LogProofs ------------------------------
(***************************************************************************)
(* The log keeps its promises for any blocks, processes and sizes: calls   *)
(* reach the disk completely or not at all wherever the machine crashes,   *)
(* the header's array is never outgrown although log_write tests it        *)
(* without the lock, and nobody sleeps in begin_op without reason.         *)
(***************************************************************************)
EXTENDS Log, FiniteSetTheorems, TLAPS

\* The calls that begin_op has let in, the panicked ones included.
Open == {p \in Procs : pc[p] \in {"op", "check", "append", "panic"}}

\* The entries that begin_op has reserved for calls of open and the calls, having
\* written the blocks of w, have not used for one in the log's blocks L.
Unused(open, w, L) ==
  {u \in Procs \X (1 .. MAXOPBLOCKS) :
     u[1] \in open /\ u[2] + Cardinality(w[u[1]] \cap L) <= MAXOPBLOCKS}

\* What begin_op has reserved for a call and the call has not used is still free.
CountInv ==
  /\ outstanding = Cardinality(Open)
  /\ \A p \in Procs : IsFiniteSet(wrote[p]) /\ Cardinality(wrote[p]) <= MAXOPBLOCKS
  /\ Len(lh) + Cardinality(Unused(Open, wrote, Listed(lh))) <= LOGSIZE

\* A block is in the log once.
OnceIn(s) == \A i, j \in 1 .. Len(s) : s[i] = s[j] => i = j
ListInv == OnceIn(lh) /\ OnceIn(head) /\ Len(head) <= LOGSIZE

\* Where the log is between two commits, in one, and during recovery.
PhaseInv ==
  /\ up => cpc # "read" /\ (committing <=> cpc # "none")
  /\ ~up => /\ cpc \in {"read", "install", "clear"} /\ ~committing
            /\ \A p \in Procs : pc[p] = "idle"
  /\ cpc = "read" => lh = <<>> /\ tail = 1
  /\ cpc \in {"write_log", "install"} => tail <= Len(lh)
  /\ cpc = "write_head" => tail = 1 /\ lh # <<>>
  /\ cpc = "done" => lh = <<>>
  /\ cpc \in {"install", "clear"} => head = lh
  /\ cpc \in {"none", "write_log", "write_head", "done"} => head = <<>>

\* One process commits, while no call is under way; and a call that ends last does.
CommitInv ==
  /\ committing <=> \E p \in Procs : pc[p] = "commit"
  /\ \A p, q \in Procs : pc[p] = "commit" /\ pc[q] = "commit" => p = q
  /\ committing => Open = {}
  /\ up /\ cpc = "none" /\ Open = {} => lh = <<>>

\* A process has a buffer locked only inside log_write, and the blocks that differ from
\* the disk are locked or pinned in the cache by B_DIRTY.
BufInv ==
  /\ \A p \in Procs : buf[p] # {} => pc[p] \in {"check", "append", "panic"}
  /\ \A p \in Procs : \A x, y \in buf[p] : x = y
  /\ \A p \in Procs : buf[p] \subseteq wrote[p]
  /\ \A x \in Blocks : x \notin dirty /\ (\A p \in Procs : x \notin buf[p]) => cache[x] = home[x]

\* The pinned blocks are in the log and not yet installed.
DirtyInv ==
  /\ \A x \in dirty : \E i \in 1 .. Len(lh) : lh[i] = x /\ (cpc = "install" => tail <= i)
  /\ cpc = "clear" \/ ~up => dirty = {}

\* The log holds what the committing calls wrote as far as write_log has come, and the
\* disk what install_trans has copied.
DataInv ==
  /\ \A i \in 1 .. Len(lh) :
       \/ cpc = "write_log" /\ i < tail
       \/ cpc = "write_head"
       \/ up /\ cpc \in {"install", "clear"}
       => logdata[i] = cache[lh[i]]
  /\ \A i \in 1 .. Len(lh) :
       (cpc = "install" /\ i < tail) \/ cpc = "clear" => home[lh[i]] = logdata[i]

IInv ==
  /\ TypeOK /\ CountInv /\ ListInv /\ PhaseInv /\ CommitInv /\ BufInv /\ DirtyInv /\ DataInv
  /\ NoLostWakeup

-----------------------------------------------------------------------------
(* Counting what is reserved                                               *)

\* The blocks of a list, and what appending one (log_write) makes of them.
LEMMA ListedIs ==
  ASSUME NEW s \in Seq(Blocks)
  PROVE  /\ \A x : x \in Listed(s) <=> \E i \in 1 .. Len(s) : s[i] = x
         /\ Listed(s) \subseteq Blocks
  BY DEF Listed

\* An empty list names no block.
LEMMA ListedEmpty == Listed(<<>>) = {} /\ Len(<<>>) = 0
  BY DEF Listed

\* log_write puts a new block at the end of the list.
LEMMA ListedAppend ==
  ASSUME NEW s \in Seq(Blocks), NEW x \in Blocks
  PROVE  /\ Append(s, x) \in Seq(Blocks) /\ Len(Append(s, x)) = Len(s) + 1
         /\ \A i \in 1 .. Len(s) : Append(s, x)[i] = s[i]
         /\ Append(s, x)[Len(s) + 1] = x
         /\ Listed(Append(s, x)) = Listed(s) \cup {x}
<1> DEFINE t == Append(s, x)
<1>1. t \in Seq(Blocks) /\ Len(t) = Len(s) + 1 /\ t[Len(s) + 1] = x
  OBVIOUS
<1>2. \A i \in 1 .. Len(s) : t[i] = s[i]
  OBVIOUS
<1> HIDE DEF t
<1>3. \A y : y \in Listed(t) <=> y \in Listed(s) \/ y = x
  <2> SUFFICES ASSUME NEW y PROVE y \in Listed(t) <=> y \in Listed(s) \/ y = x
    OBVIOUS
  <2>1. y \in Listed(t) <=> \E i \in 1 .. Len(s) + 1 : t[i] = y
    BY Zenon, <1>1, ListedIs
  <2>2. y \in Listed(s) <=> \E i \in 1 .. Len(s) : s[i] = y
    BY Zenon, ListedIs
  <2>3. Len(s) \in Nat
    OBVIOUS
  <2>4. \A i \in 1 .. Len(s) + 1 : i \in 1 .. Len(s) \/ i = Len(s) + 1
    BY <2>3
  <2>5. (1 .. Len(s)) \subseteq 1 .. Len(s) + 1 /\ Len(s) + 1 \in 1 .. Len(s) + 1
    BY <2>3
  <2> QED BY Zenon, <2>1, <2>2, <2>4, <2>5, <1>1, <1>2
<1>4. Listed(t) = Listed(s) \cup {x}
  BY Zenon, <1>3
<1> QED BY Zenon, <1>1, <1>2, <1>4 DEF t

\* The entries reserved and not used are finitely many.
LEMMA UnusedFinite ==
  ASSUME NEW O, NEW w, NEW L
  PROVE  IsFiniteSet(Unused(O, w, L)) /\ Cardinality(Unused(O, w, L)) \in Nat
<1>1. IsFiniteSet(1 .. MAXOPBLOCKS)
  BY LogAssumption, FS_Interval
<1>2. IsFiniteSet(Procs \X (1 .. MAXOPBLOCKS))
  BY Zenon, <1>1, LogAssumption, FS_Product
<1>3. Unused(O, w, L) \in SUBSET (Procs \X (1 .. MAXOPBLOCKS))
  BY Zenon DEF Unused
<1>4. IsFiniteSet(Unused(O, w, L))
  BY Zenon, <1>2, <1>3, FS_Subset
<1> QED BY Zenon, <1>4, FS_CardinalityType

\* Fewer calls (end_op), and more blocks written or in the log, leave fewer of them.
LEMMA UnusedShrinks ==
  ASSUME NEW O, NEW O2, O2 \subseteq O, NEW w, NEW w2, NEW L, NEW L2,
         \A q \in Procs : q \in O2 => w[q] \cap L \subseteq w2[q] \cap L2 /\ IsFiniteSet(w2[q])
  PROVE  /\ Unused(O2, w2, L2) \subseteq Unused(O, w, L)
         /\ Cardinality(Unused(O2, w2, L2)) <= Cardinality(Unused(O, w, L))
<1>1. ASSUME NEW u \in Unused(O2, w2, L2) PROVE u \in Unused(O, w, L)
  <2>1. /\ u \in Procs \X (1 .. MAXOPBLOCKS) /\ u[1] \in Procs /\ u[2] \in Nat
        /\ u[1] \in O2 /\ u[2] + Cardinality(w2[u[1]] \cap L2) <= MAXOPBLOCKS
    BY <1>1 DEF Unused
  <2> DEFINE A == w[u[1]] \cap L
             B == w2[u[1]] \cap L2
  <2>2. A \subseteq B /\ IsFiniteSet(w2[u[1]])
    BY Zenon, <2>1
  <2>3. IsFiniteSet(B)
    BY Zenon, <2>2, FS_Intersection
  <2>4. IsFiniteSet(A) /\ Cardinality(A) <= Cardinality(B)
    <3>1. A \in SUBSET B
      BY Zenon, <2>2
    <3> HIDE DEF A, B
    <3> QED BY Zenon, <3>1, <2>3, FS_Subset
  <2>5. Cardinality(A) \in Nat /\ Cardinality(B) \in Nat
    BY Zenon, <2>3, <2>4, FS_CardinalityType
  <2>6. u[2] + Cardinality(A) <= MAXOPBLOCKS
    <3>1. u[2] + Cardinality(B) <= MAXOPBLOCKS
      BY Zenon, <2>1
    <3> HIDE DEF A, B
    <3> QED BY <3>1, <2>1, <2>4, <2>5, LogAssumption
  <2>7. u[1] \in O
    BY Zenon, <2>1
  <2> QED BY Zenon, <2>1, <2>6, <2>7 DEF Unused
<1>2. Unused(O2, w2, L2) \in SUBSET Unused(O, w, L)
  BY Zenon, <1>1
<1> QED BY Zenon, <1>2, UnusedFinite, FS_Subset

\* With no call open nothing is reserved.
LEMMA UnusedNone ==
  ASSUME NEW w, NEW L
  PROVE  Cardinality(Unused({}, w, L)) = 0
<1>1. Unused({}, w, L) = {}
  BY Zenon DEF Unused
<1> QED BY Zenon, <1>1, FS_EmptySet

\* begin_op reserves MAXOPBLOCKS entries for each call.
LEMMA UnusedBound ==
  ASSUME NEW O, O \subseteq Procs, NEW w, NEW L
  PROVE  /\ Cardinality(O) \in Nat
         /\ Cardinality(Unused(O, w, L)) <= Cardinality(O) * MAXOPBLOCKS
<1> DEFINE R == 1 .. MAXOPBLOCKS
<1>1. IsFiniteSet(R) /\ Cardinality(R) = MAXOPBLOCKS
  BY LogAssumption, FS_Interval
<1>2. O \in SUBSET Procs
  OBVIOUS
<1>3. IsFiniteSet(O)
  BY Zenon, <1>2, LogAssumption, FS_Subset
<1>4. IsFiniteSet(O \X R) /\ Cardinality(O \X R) = Cardinality(O) * Cardinality(R)
  BY Zenon, <1>1, <1>3, FS_Product
<1>5. Unused(O, w, L) \in SUBSET (O \X R)
  BY Zenon DEF Unused
<1>6. Cardinality(Unused(O, w, L)) <= Cardinality(O \X R)
  BY Zenon, <1>4, <1>5, FS_Subset
<1> QED BY Zenon, <1>1, <1>3, <1>4, <1>6, FS_CardinalityType

\* log_write appends to the log on its own call's account.
LEMMA UnusedSpent ==
  ASSUME NEW O, NEW p \in Procs, p \in O, NEW w, NEW L, NEW x, x \in w[p], x \notin L,
         \A q \in Procs : IsFiniteSet(w[q]) /\ Cardinality(w[q]) <= MAXOPBLOCKS
  PROVE  Cardinality(Unused(O, w, L \cup {x})) + 1 <= Cardinality(Unused(O, w, L))
<1> DEFINE A == w[p] \cap L
           B == w[p] \cap (L \cup {x})
           last == <<p, MAXOPBLOCKS - Cardinality(A)>>
           old == Unused(O, w, L)
           new == Unused(O, w, L \cup {x})
<1>1. B = A \cup {x} /\ x \notin A /\ B \in SUBSET w[p]
  OBVIOUS
<1>2. IsFiniteSet(A)
  BY Zenon, FS_Intersection
<1>3. Cardinality(B) = Cardinality(A) + 1
  <2> HIDE DEF A, B
  <2> QED BY Zenon, <1>1, <1>2, FS_AddElement
<1>4. Cardinality(B) <= Cardinality(w[p]) /\ Cardinality(w[p]) \in Nat
  <2> HIDE DEF B
  <2> QED BY Zenon, <1>1, FS_Subset, FS_CardinalityType
<1>5. Cardinality(A) \in Nat
  BY Zenon, <1>2, FS_CardinalityType
<1>6. Cardinality(A) + 1 <= MAXOPBLOCKS
  <2>1. Cardinality(w[p]) <= MAXOPBLOCKS
    OBVIOUS
  <2> HIDE DEF A, B
  <2> QED BY <2>1, <1>3, <1>4, <1>5, LogAssumption
<1>7. last \in old
  <2>1. MAXOPBLOCKS - Cardinality(A) \in 1 .. MAXOPBLOCKS
    BY <1>5, <1>6, LogAssumption
  <2>2. (MAXOPBLOCKS - Cardinality(A)) + Cardinality(w[p] \cap L) <= MAXOPBLOCKS
    BY <1>5, LogAssumption
  <2> QED BY Zenon, <2>1, <2>2 DEF Unused
<1>8. last \notin new
  <2>1. ~((MAXOPBLOCKS - Cardinality(A)) + Cardinality(B) <= MAXOPBLOCKS)
    <3> HIDE DEF A, B
    <3> QED BY <1>3, <1>5, LogAssumption
  <2>2. last[1] = p /\ last[2] = MAXOPBLOCKS - Cardinality(A)
    OBVIOUS
  <2>3. last \in new => last[2] + Cardinality(w[last[1]] \cap (L \cup {x})) <= MAXOPBLOCKS
    BY Zenon DEF Unused
  <2> QED BY Zenon, <2>1, <2>2, <2>3
<1>9. new \subseteq old
  <2>1. \A q \in Procs : q \in O => w[q] \cap L \subseteq w[q] \cap (L \cup {x}) /\ IsFiniteSet(w[q])
    OBVIOUS
  <2> HIDE DEF A, B, last
  <2> QED BY Zenon, <2>1, UnusedShrinks
<1>10. IsFiniteSet(old) /\ Cardinality(old) \in Nat /\ Cardinality(new) \in Nat
  BY Zenon, UnusedFinite
<1> HIDE DEF A, B, last, old, new
<1>11. new \in SUBSET (old \ {last})
  BY Zenon, <1>8, <1>9
<1>12. IsFiniteSet(old \ {last}) /\ Cardinality(old \ {last}) = Cardinality(old) - 1
  BY Zenon, <1>7, <1>10, FS_RemoveElement
<1>13. Cardinality(new) <= Cardinality(old) - 1
  BY <1>11, <1>12, FS_Subset
<1>14. Cardinality(new) + 1 <= Cardinality(old)
  BY <1>10, <1>13
<1> QED BY Zenon, <1>14 DEF old, new

-----------------------------------------------------------------------------
(* The actions of the calls                                                *)

\* The calls under way are counted, and leave the log between two commits.
LEMMA OpenFacts ==
  ASSUME IInv
  PROVE  /\ Open \subseteq Procs /\ IsFiniteSet(Open) /\ Cardinality(Open) \in Nat
         /\ outstanding \in Nat /\ (outstanding = 0 <=> Open = {})
         /\ Len(lh) \in Nat /\ lh \in Seq(Blocks)
         /\ \A p \in Open : up /\ ~committing /\ cpc = "none" /\ head = <<>>
<1>1. Open \in SUBSET Procs
  BY Zenon DEF Open
<1>2. IsFiniteSet(Open)
  BY Zenon, <1>1, LogAssumption, FS_Subset
<1>3. Cardinality(Open) \in Nat /\ (Cardinality(Open) = 0 <=> Open = {})
  BY Zenon, <1>2, FS_CardinalityType, FS_EmptySet
<1>4. outstanding = Cardinality(Open)
  BY Zenon DEF IInv, CountInv
<1>5. lh \in Seq(Blocks)
  BY Zenon DEF IInv, TypeOK
<1>6. \A p \in Open : up /\ ~committing /\ cpc = "none" /\ head = <<>>
  <2> SUFFICES ASSUME NEW p \in Open PROVE up /\ ~committing /\ cpc = "none" /\ head = <<>>
    OBVIOUS
  <2>1. ~committing
    BY Zenon DEF IInv, CommitInv
  <2>2. p \in Procs /\ pc[p] # "idle"
    BY Zenon DEF Open
  <2>3. up
    BY Zenon, <2>2 DEF IInv, PhaseInv
  <2> QED BY Zenon, <2>1, <2>3 DEF IInv, PhaseInv
<1> QED BY SMTT(30), <1>1, <1>2, <1>3, <1>4, <1>5, <1>6

\* begin_op sleeps for want of space or during a commit.
LEMMA BeginOpSleeps ==
  ASSUME IInv, NEW p \in Procs, BeginOp(p), MustWait(Len(lh)) PROVE IInv'
<1>1. /\ pc \in [Procs -> PC] /\ pc[p] \in {"idle", "begin"} /\ p \notin Open
      /\ (up \/ pc[p] = "begin")
  BY Zenon DEF IInv, TypeOK, BeginOp, Open
<1>2. /\ pc' = [pc EXCEPT ![p] = "asleep"]
      /\ UNCHANGED <<outstanding, committing, lh, cache, dirty, buf, wrote, cpc, tail, up,
                     home, head, logdata>>
  BY Zenon DEF BeginOp, Set, callvars
<1>3. pc' \in [Procs -> PC] /\ pc'[p] = "asleep" /\ \A q \in Procs : q # p => pc'[q] = pc[q]
  BY Zenon, <1>1, <1>2 DEF PC
<1>4. Open' = Open
  BY Zenon, <1>1, <1>3 DEF Open
<1>5. up
  BY Zenon, <1>1 DEF IInv, PhaseInv
<1>6. TypeOK'
  BY Zenon, <1>2, <1>3 DEF IInv, TypeOK
<1>7. CountInv'
  BY ZenonT(60), <1>2, <1>4 DEF IInv, CountInv, Unused, Listed
<1>8. ListInv'
  BY Zenon, <1>2 DEF IInv, ListInv, OnceIn
<1>9. PhaseInv'
  BY Zenon, <1>2, <1>5 DEF IInv, PhaseInv
<1>10. CommitInv'
  BY ZenonT(60), <1>1, <1>2, <1>3, <1>4 DEF IInv, CommitInv
<1>11. BufInv'
  BY <1>1, <1>2, <1>3 DEF IInv, BufInv
<1>12. DirtyInv' /\ DataInv'
  BY Zenon, <1>2 DEF IInv, DirtyInv, DataInv
<1>13. NoLostWakeup'
  <2>1. MustWait(Len(lh))'
    BY Zenon, <1>2 DEF MustWait
  <2>2. committing \/ outstanding > 0
    <3> SUFFICES ASSUME ~committing, ~(outstanding > 0) PROVE FALSE
      OBVIOUS
    <3>1. outstanding = 0 /\ Open = {}
      BY OpenFacts
    <3>2. lh = <<>>
      BY Zenon, <3>1, <1>5 DEF IInv, CommitInv, PhaseInv
    <3>3. 0 + (0 + 1) * MAXOPBLOCKS > LOGSIZE
      BY Zenon, <3>1, <3>2, ListedEmpty DEF MustWait
    <3> QED BY <3>3, LogAssumption
  <2> QED BY Zenon, <2>1, <2>2, <1>2 DEF NoLostWakeup
<1> QED BY ZenonT(60), <1>6, <1>7, <1>8, <1>9, <1>10, <1>11, <1>12, <1>13 DEF IInv

\* begin_op lets a call in when MAXOPBLOCKS entries more than all reserved ones are free.
LEMMA BeginOpEnters ==
  ASSUME IInv, NEW p \in Procs, BeginOp(p), ~MustWait(Len(lh)) PROVE IInv'
<1>1. /\ pc \in [Procs -> PC] /\ pc[p] \in {"idle", "begin"} /\ p \notin Open
      /\ (up \/ pc[p] = "begin") /\ ~committing
  BY Zenon DEF IInv, TypeOK, BeginOp, Open, MustWait
<1>2. /\ pc' = [pc EXCEPT ![p] = "op"] /\ outstanding' = outstanding + 1
      /\ UNCHANGED <<committing, lh, cache, dirty, buf, wrote, cpc, tail, up, home, head, logdata>>
  BY Zenon DEF BeginOp, Set, callvars, Reserve
<1>3. pc' \in [Procs -> PC] /\ pc'[p] = "op" /\ \A q \in Procs : q # p => pc'[q] = pc[q]
  BY Zenon, <1>1, <1>2 DEF PC
<1>4. Open' = Open \cup {p}
  BY Zenon, <1>1, <1>3 DEF Open
<1>5. up /\ cpc = "none"
  BY Zenon, <1>1 DEF IInv, PhaseInv
<1>6. outstanding' = Cardinality(Open') /\ outstanding' \in Nat
  <2>1. Cardinality(Open \cup {p}) = Cardinality(Open) + 1
    BY Zenon, <1>1, OpenFacts, FS_AddElement
  <2>2. outstanding = Cardinality(Open) /\ outstanding \in Nat
    BY Zenon, OpenFacts DEF IInv, CountInv
  <2> QED BY <2>1, <2>2, <1>2, <1>4
<1>7. Open' \subseteq Procs
  BY Zenon, <1>4, OpenFacts
<1>8. CountInv'
  <2> DEFINE n == Cardinality(Unused(Open', wrote, Listed(lh)))
  <2>1. n <= Cardinality(Open') * MAXOPBLOCKS
    BY Zenon, <1>7, UnusedBound
  <2>2. n \in Nat
    BY Zenon, UnusedFinite
  <2> HIDE DEF n
  <2>3. ~(Len(lh) + outstanding' * MAXOPBLOCKS > LOGSIZE)
    BY Zenon, <1>2 DEF MustWait
  <2>4. outstanding' * MAXOPBLOCKS \in Nat
    BY <1>6, LogAssumption
  <2>5. Len(lh) + n <= LOGSIZE
    BY SMTT(30), <2>1, <2>2, <2>3, <2>4, <1>6, OpenFacts, LogAssumption
  <2>6. Len(lh') + Cardinality(Unused(Open', wrote', Listed(lh'))) <= LOGSIZE
    BY Zenon, <2>5, <1>2 DEF n
  <2> QED BY Zenon, <2>6, <1>2, <1>6 DEF IInv, CountInv, Unused, Listed
<1>9. TypeOK'
  <2>1. Cardinality(Open') <= Cardinality(Procs) /\ Cardinality(Procs) \in Nat
    BY Zenon, <1>7, LogAssumption, FS_Subset, FS_CardinalityType
  <2>2. outstanding' \in 0 .. Cardinality(Procs)
    BY <2>1, <1>6
  <2> QED BY Zenon, <2>2, <1>2, <1>3 DEF IInv, TypeOK
<1>10. ListInv'
  BY Zenon, <1>2 DEF IInv, ListInv, OnceIn
<1>11. PhaseInv'
  BY Zenon, <1>2, <1>5 DEF IInv, PhaseInv
<1>12. CommitInv'
  BY Zenon, <1>1, <1>2, <1>3, <1>4 DEF IInv, CommitInv
<1>13. BufInv'
  BY <1>1, <1>2, <1>3 DEF IInv, BufInv
<1>14. DirtyInv' /\ DataInv'
  BY Zenon, <1>2 DEF IInv, DirtyInv, DataInv
<1>15. NoLostWakeup'
  BY Zenon, <1>3 DEF IInv, NoLostWakeup
<1> QED BY Zenon, <1>8, <1>9, <1>10, <1>11, <1>12, <1>13, <1>14, <1>15 DEF IInv

\* A call changes a block that nobody has locked.
LEMMA ModifyInv ==
  ASSUME IInv, NEW p \in Procs, NEW b \in Blocks, NEW v \in Vals, Modify(p, b, v) PROVE IInv'
<1>1. /\ pc \in [Procs -> PC] /\ pc[p] = "op" /\ p \in Open
      /\ cache \in [Blocks -> Vals] /\ home \in [Blocks -> Vals]
      /\ buf \in [Procs -> SUBSET Blocks] /\ wrote \in [Procs -> SUBSET Blocks]
  BY Zenon DEF IInv, TypeOK, Modify, Open
<1>2. /\ pc' = [pc EXCEPT ![p] = "check"] /\ cache' = [cache EXCEPT ![b] = v]
      /\ buf' = [buf EXCEPT ![p] = {b}] /\ wrote' = [wrote EXCEPT ![p] = wrote[p] \cup {b}]
      /\ UNCHANGED <<outstanding, committing, lh, dirty, cpc, tail, up, home, head, logdata>>
  BY Zenon DEF Modify, Set, logvars
<1>3. pc' \in [Procs -> PC] /\ pc'[p] = "check" /\ \A q \in Procs : q # p => pc'[q] = pc[q]
  BY Zenon, <1>1, <1>2 DEF PC
<1>4. /\ cache' \in [Blocks -> Vals] /\ buf' \in [Procs -> SUBSET Blocks]
      /\ wrote' \in [Procs -> SUBSET Blocks]
      /\ \A x \in Blocks : x # b => cache'[x] = cache[x]
      /\ buf'[p] = {b} /\ wrote'[p] = wrote[p] \cup {b}
      /\ \A q \in Procs : q # p => buf'[q] = buf[q] /\ wrote'[q] = wrote[q]
  BY Zenon, <1>1, <1>2
<1>5. Open' = Open
  BY Zenon, <1>1, <1>3 DEF Open
<1>6. up /\ ~committing /\ cpc = "none"
  BY Zenon, <1>1, OpenFacts
<1>7. TypeOK'
  BY Zenon, <1>2, <1>3, <1>4 DEF IInv, TypeOK
<1>8. CountInv'
  <2>1. \A q \in Procs : IsFiniteSet(wrote'[q]) /\ Cardinality(wrote'[q]) <= MAXOPBLOCKS
    <3>1. IsFiniteSet(wrote'[p]) /\ Cardinality(wrote'[p]) <= MAXOPBLOCKS
      BY Zenon, <1>4, FS_AddElement DEF IInv, CountInv, Modify
    <3> QED BY Zenon, <3>1, <1>4 DEF IInv, CountInv
  <2> DEFINE L == Listed(lh)
  <2>2. \A q \in Procs : q \in Open => wrote[q] \cap L \subseteq wrote'[q] \cap L /\ IsFiniteSet(wrote'[q])
    BY Zenon, <2>1, <1>4
  <2> HIDE DEF L
  <2>3. Cardinality(Unused(Open, wrote', L)) <= Cardinality(Unused(Open, wrote, L))
    BY Zenon, <2>2, UnusedShrinks
  <2>4. Cardinality(Unused(Open, wrote', L)) \in Nat /\ Cardinality(Unused(Open, wrote, L)) \in Nat
    BY Zenon, UnusedFinite
  <2>5. Len(lh) + Cardinality(Unused(Open, wrote, L)) <= LOGSIZE
    BY Zenon DEF IInv, CountInv, L
  <2>6. Len(lh) + Cardinality(Unused(Open, wrote', L)) <= LOGSIZE
    BY <2>3, <2>4, <2>5, OpenFacts, LogAssumption
  <2>7. Len(lh') + Cardinality(Unused(Open', wrote', Listed(lh'))) <= LOGSIZE
    BY Zenon, <2>6, <1>2, <1>5 DEF L
  <2> QED BY Zenon, <2>1, <2>7, <1>2, <1>5 DEF IInv, CountInv, Unused, Listed
<1>9. ListInv'
  BY Zenon, <1>2 DEF IInv, ListInv, OnceIn
<1>10. PhaseInv'
  BY Zenon, <1>2, <1>6 DEF IInv, PhaseInv
<1>11. CommitInv'
  BY Zenon, <1>1, <1>2, <1>3, <1>5, <1>6 DEF IInv, CommitInv
<1>12. BufInv'
  <2>1. \A q \in Procs : buf'[q] # {} => pc'[q] \in {"check", "append", "panic"}
    BY Zenon, <1>3, <1>4 DEF IInv, BufInv
  <2>2. \A q \in Procs : (\A x, y \in buf'[q] : x = y) /\ buf'[q] \subseteq wrote'[q]
    BY <1>4 DEF IInv, BufInv
  <2>3. ASSUME NEW x \in Blocks, x \notin dirty', \A q \in Procs : x \notin buf'[q]
        PROVE  cache'[x] = home'[x]
    <3>1. x # b
      BY Zenon, <2>3, <1>4
    <3>2. buf[p] = {}
      BY Zenon, <1>1 DEF IInv, BufInv
    <3>3. \A q \in Procs : x \notin buf[q]
      BY Zenon, <2>3, <3>2, <1>4
    <3> QED BY ZenonT(60), <2>3, <3>1, <3>3, <1>2, <1>4 DEF IInv, BufInv
  <2> QED BY Zenon, <2>1, <2>2, <2>3 DEF BufInv
<1>13. DirtyInv' /\ DataInv'
  BY Zenon, <1>2, <1>6 DEF IInv, DirtyInv, DataInv
<1>14. NoLostWakeup'
  BY Zenon, <1>1, <1>2, <1>3 DEF IInv, NoLostWakeup, MustWait
<1> QED BY Zenon, <1>7, <1>8, <1>9, <1>10, <1>11, <1>12, <1>13, <1>14 DEF IInv

\* log_write's tests, without the lock, change nothing but where the process stands.
LEMMA LogCheckInv == ASSUME IInv, NEW p \in Procs, LogCheck(p) PROVE IInv'
<1>1. pc \in [Procs -> PC] /\ pc[p] = "check" /\ p \in Open
  BY Zenon DEF IInv, TypeOK, LogCheck, Open
<1>2. UNCHANGED <<outstanding, committing, lh, cache, dirty, buf, wrote, cpc, tail, up, home,
                  head, logdata>>
  BY Zenon DEF LogCheck, logvars, callvars
<1>3. /\ pc' \in [Procs -> PC] /\ pc'[p] \in {"panic", "append"}
      /\ \A q \in Procs : q # p => pc'[q] = pc[q]
  BY Zenon, <1>1 DEF PC, LogCheck, Set
<1>4. Open' = Open
  BY Zenon, <1>1, <1>3 DEF Open
<1>5. up /\ ~committing /\ cpc = "none"
  BY Zenon, <1>1, OpenFacts
<1>6. TypeOK'
  BY Zenon, <1>2, <1>3 DEF IInv, TypeOK
<1>7. CountInv'
  BY ZenonT(60), <1>2, <1>4 DEF IInv, CountInv, Unused, Listed
<1>8. ListInv'
  BY Zenon, <1>2 DEF IInv, ListInv, OnceIn
<1>9. PhaseInv'
  BY Zenon, <1>2, <1>5 DEF IInv, PhaseInv
<1>10. CommitInv'
  BY Zenon, <1>1, <1>2, <1>3, <1>4, <1>5 DEF IInv, CommitInv
<1>11. BufInv'
  BY Zenon, <1>2, <1>3 DEF IInv, BufInv
<1>12. DirtyInv' /\ DataInv'
  BY Zenon, <1>2 DEF IInv, DirtyInv, DataInv
<1>13. NoLostWakeup'
  BY Zenon, <1>1, <1>2, <1>3 DEF IInv, NoLostWakeup, MustWait
<1> QED BY ZenonT(60), <1>6, <1>7, <1>8, <1>9, <1>10, <1>11, <1>12, <1>13 DEF IInv

\* log_write under the lock: the list grows by a block that was not on it, or not at all.
LEMMA AbsorbIs ==
  ASSUME IInv, NEW b \in Blocks, lh' = Absorb(b)
  PROVE  /\ lh' \in Seq(Blocks) /\ Len(lh') \in Nat /\ Len(lh) <= Len(lh') /\ OnceIn(lh')
         /\ \A i \in 1 .. Len(lh) : lh'[i] = lh[i]
         /\ \E i \in 1 .. Len(lh') : lh'[i] = b
         /\ b \in Listed(lh) => lh' = lh
         /\ b \notin Listed(lh) => Len(lh') = Len(lh) + 1 /\ Listed(lh') = Listed(lh) \cup {b}
<1>1. lh \in Seq(Blocks) /\ Len(lh) \in Nat /\ OnceIn(lh)
  BY Zenon, OpenFacts DEF IInv, ListInv
<1>2. CASE b \in Listed(lh)
  <2>1. lh' = lh
    BY Zenon, <1>2 DEF Absorb
  <2>2. \E i \in 1 .. Len(lh) : lh[i] = b
    BY Zenon, <1>1, <1>2, ListedIs
  <2> QED BY <1>1, <1>2, <2>1, <2>2
<1>3. CASE b \notin Listed(lh)
  <2>1. lh' = Append(lh, b)
    BY Zenon, <1>3 DEF Absorb
  <2>2. /\ lh' \in Seq(Blocks) /\ Len(lh') = Len(lh) + 1 /\ lh'[Len(lh) + 1] = b
        /\ \A i \in 1 .. Len(lh) : lh'[i] = lh[i]
        /\ Listed(lh') = Listed(lh) \cup {b}
    BY <1>1, <2>1, ListedAppend
  <2>3. \A i \in 1 .. Len(lh) : lh[i] # b
    BY Zenon, <1>1, <1>3, ListedIs
  <2>4. OnceIn(lh')
    <3> SUFFICES ASSUME NEW i \in 1 .. Len(lh) + 1, NEW j \in 1 .. Len(lh) + 1, lh'[i] = lh'[j]
                 PROVE  i = j
      BY Zenon, <2>2 DEF OnceIn
    <3>1. CASE i \in 1 .. Len(lh) /\ j \in 1 .. Len(lh)
      BY Zenon, <3>1, <1>1, <2>2 DEF OnceIn
    <3>2. CASE i = Len(lh) + 1 \/ j = Len(lh) + 1
      BY <3>2, <1>1, <2>2, <2>3
    <3> QED BY <3>1, <3>2, <1>1
  <2>5. Len(lh) + 1 \in 1 .. Len(lh')
    BY <1>1, <2>2
  <2> QED BY <1>1, <1>3, <2>2, <2>4, <2>5
<1> QED BY Zenon, <1>2, <1>3

\* log_write: a block new to the list uses up one of the reserved ones.
LEMMA LogWriteInv == ASSUME IInv, NEW p \in Procs, LogWrite(p) PROVE IInv'
<1>1. /\ pc \in [Procs -> PC] /\ pc[p] = "append" /\ p \in Open
      /\ buf \in [Procs -> SUBSET Blocks] /\ dirty \subseteq Blocks
  BY Zenon DEF IInv, TypeOK, LogWrite, Open
<1>2. PICK b \in buf[p] : lh' = Absorb(b) /\ dirty' = dirty \cup {b}
  BY Zenon DEF LogWrite, Pin
<1>3. b \in Blocks /\ b \in wrote[p] /\ \A x \in buf[p] : x = b
  BY Zenon, <1>1 DEF IInv, BufInv
<1>4. /\ pc' = [pc EXCEPT ![p] = "op"] /\ buf' = [buf EXCEPT ![p] = {}]
      /\ UNCHANGED <<outstanding, committing, cache, wrote, cpc, tail, up, home, head, logdata>>
  BY Zenon DEF LogWrite, Set
<1>5. /\ pc' \in [Procs -> PC] /\ pc'[p] = "op" /\ \A q \in Procs : q # p => pc'[q] = pc[q]
      /\ buf' \in [Procs -> SUBSET Blocks] /\ buf'[p] = {}
      /\ \A q \in Procs : q # p => buf'[q] = buf[q]
  BY Zenon, <1>1, <1>4 DEF PC
<1>6. Open' = Open
  BY Zenon, <1>1, <1>5 DEF Open
<1>7. up /\ ~committing /\ cpc = "none" /\ head = <<>>
  BY Zenon, <1>1, OpenFacts
<1>8. /\ lh' \in Seq(Blocks) /\ Len(lh') \in Nat /\ Len(lh) <= Len(lh') /\ OnceIn(lh')
      /\ \A i \in 1 .. Len(lh) : lh'[i] = lh[i]
      /\ \E i \in 1 .. Len(lh') : lh'[i] = b
  BY Zenon, <1>2, <1>3, AbsorbIs
<1>9. Len(lh') + Cardinality(Unused(Open, wrote, Listed(lh'))) <= LOGSIZE
  <2>1. Len(lh) + Cardinality(Unused(Open, wrote, Listed(lh))) <= LOGSIZE
    BY Zenon DEF IInv, CountInv
  <2>2. CASE b \in Listed(lh)
    <3>1. lh' = lh
      BY Zenon, <2>2, <1>2, <1>3, AbsorbIs
    <3> QED BY Zenon, <2>1, <3>1
  <2>3. CASE b \notin Listed(lh)
    <3>1. Len(lh') = Len(lh) + 1 /\ Listed(lh') = Listed(lh) \cup {b}
      BY Zenon, <2>3, <1>2, <1>3, AbsorbIs
    <3> DEFINE L == Listed(lh)
               old == Cardinality(Unused(Open, wrote, L))
               new == Cardinality(Unused(Open, wrote, L \cup {b}))
    <3>2. old \in Nat /\ new \in Nat
      BY Zenon, UnusedFinite
    <3>3. new + 1 <= old
      <4>1. \A q \in Procs : IsFiniteSet(wrote[q]) /\ Cardinality(wrote[q]) <= MAXOPBLOCKS
        BY Zenon DEF IInv, CountInv
      <4>2. b \notin L
        BY Zenon, <2>3
      <4> HIDE DEF L
      <4> QED BY Zenon, <4>1, <4>2, <1>1, <1>3, UnusedSpent
    <3>4. Len(lh) + old <= LOGSIZE
      BY Zenon, <2>1
    <3> HIDE DEF old, new
    <3>5. Len(lh') + new <= LOGSIZE
      BY <3>1, <3>2, <3>3, <3>4, OpenFacts, LogAssumption
    <3> QED BY Zenon, <3>1, <3>5 DEF new
  <2> QED BY Zenon, <2>2, <2>3
<1>10. CountInv'
  BY Zenon, <1>4, <1>6, <1>9 DEF IInv, CountInv, Unused, Listed
<1>11. TypeOK'
  <2>1. Len(lh') <= LOGSIZE
    BY <1>8, <1>9, UnusedFinite, LogAssumption
  <2>2. dirty' \subseteq Blocks
    BY Zenon, <1>1, <1>2, <1>3
  <2> QED BY Zenon, <2>1, <2>2, <1>4, <1>5, <1>8 DEF IInv, TypeOK
<1>12. ListInv'
  BY Zenon, <1>4, <1>8 DEF IInv, ListInv, OnceIn
<1>13. PhaseInv'
  BY Zenon, <1>4, <1>7 DEF IInv, PhaseInv
<1>14. CommitInv'
  BY Zenon, <1>1, <1>4, <1>5, <1>6, <1>7 DEF IInv, CommitInv
<1>15. BufInv'
  <2>1. \A q \in Procs : buf'[q] # {} => pc'[q] \in {"check", "append", "panic"}
    BY Zenon, <1>5 DEF IInv, BufInv
  <2>2. \A q \in Procs : (\A x, y \in buf'[q] : x = y) /\ buf'[q] \subseteq wrote'[q]
    BY <1>4, <1>5 DEF IInv, BufInv
  <2>3. ASSUME NEW x \in Blocks, x \notin dirty', \A q \in Procs : x \notin buf'[q]
        PROVE  cache'[x] = home'[x]
    <3>1. x \notin dirty /\ x # b
      BY Zenon, <2>3, <1>2
    <3>2. \A q \in Procs : x \notin buf[q]
      BY Zenon, <2>3, <3>1, <1>3, <1>5
    <3> QED BY Zenon, <3>1, <3>2, <1>4 DEF IInv, BufInv
  <2> QED BY Zenon, <2>1, <2>2, <2>3 DEF BufInv
<1>16. DirtyInv'
  <2>1. \A x \in dirty' : \E i \in 1 .. Len(lh') : lh'[i] = x
    <3> SUFFICES ASSUME NEW x \in dirty' PROVE \E i \in 1 .. Len(lh') : lh'[i] = x
      OBVIOUS
    <3>1. CASE x = b
      BY Zenon, <3>1, <1>8
    <3>2. CASE x \in dirty
      <4>1. PICK i \in 1 .. Len(lh) : lh[i] = x
        BY Zenon, <3>2 DEF IInv, DirtyInv
      <4>2. i \in 1 .. Len(lh')
        BY <1>8, OpenFacts
      <4> QED BY Zenon, <4>1, <4>2, <1>8
    <3> QED BY Zenon, <3>1, <3>2, <1>2
  <2> QED BY Zenon, <2>1, <1>4, <1>7 DEF DirtyInv
<1>17. DataInv'
  BY Zenon, <1>4, <1>7 DEF DataInv
<1>18. NoLostWakeup'
  <2> SUFFICES ASSUME \E q \in Procs : pc'[q] = "asleep"
               PROVE  MustWait(Len(lh))' /\ (committing' \/ outstanding' > 0)
    BY Zenon DEF NoLostWakeup
  <2>1. MustWait(Len(lh)) /\ (committing \/ outstanding > 0)
    BY Zenon, <1>5 DEF IInv, NoLostWakeup
  <2>2. (outstanding + 1) * MAXOPBLOCKS \in Nat
    BY OpenFacts, LogAssumption
  <2>3. Len(lh') + (outstanding + 1) * MAXOPBLOCKS > LOGSIZE
    BY SMTT(30), <2>1, <2>2, <1>7, <1>8, OpenFacts, LogAssumption DEF MustWait
  <2> QED BY Zenon, <2>1, <2>3, <1>4 DEF MustWait
<1> QED BY Zenon, <1>10, <1>11, <1>12, <1>13, <1>14, <1>15, <1>16, <1>17, <1>18 DEF IInv

\* wakeup(&log): nobody stays asleep, and the others stay where they are.
LEMMA WakeupIs ==
  ASSUME NEW at \in [Procs -> PC]
  PROVE  /\ WakeupLog(at) \in [Procs -> PC]
         /\ \A q \in Procs : /\ WakeupLog(at)[q] # "asleep"
                             /\ at[q] # "asleep" => WakeupLog(at)[q] = at[q]
                             /\ at[q] = "asleep" => WakeupLog(at)[q] = "begin"
  BY Zenon DEF WakeupLog, PC

\* end_op: the call's entries are given back, and it leaves the calls under way.
LEMMA EndOpCounts ==
  ASSUME IInv, NEW p \in Procs, EndOp(p)
  PROVE  /\ pc[p] = "op" /\ p \in Open /\ up /\ ~committing /\ cpc = "none" /\ head = <<>>
         /\ wrote' = [wrote EXCEPT ![p] = {}] /\ outstanding' = outstanding - 1
         /\ UNCHANGED <<lh, cache, dirty, buf, up, home, head, logdata>>
         /\ wrote' \in [Procs -> SUBSET Blocks] /\ wrote'[p] = {}
         /\ \A q \in Procs : q # p => wrote'[q] = wrote[q]
         /\ \A q \in Procs : IsFiniteSet(wrote'[q]) /\ Cardinality(wrote'[q]) <= MAXOPBLOCKS
         /\ outstanding' = Cardinality(Open \ {p}) /\ outstanding' \in 0 .. Cardinality(Procs)
         /\ outstanding' = 0 <=> Open \ {p} = {}
         /\ Len(lh) + Cardinality(Unused(Open \ {p}, wrote', Listed(lh))) <= LOGSIZE
<1>1. /\ pc[p] = "op" /\ p \in Open /\ wrote \in [Procs -> SUBSET Blocks]
      /\ outstanding \in 0 .. Cardinality(Procs)
  BY Zenon DEF IInv, TypeOK, EndOp, Open
<1>2. /\ wrote' = [wrote EXCEPT ![p] = {}] /\ outstanding' = outstanding - 1
      /\ UNCHANGED <<lh, cache, dirty, buf, up, home, head, logdata>>
  BY Zenon DEF EndOp, Set
<1>3. up /\ ~committing /\ cpc = "none" /\ head = <<>>
  BY Zenon, <1>1, OpenFacts
<1>4. /\ wrote' \in [Procs -> SUBSET Blocks] /\ wrote'[p] = {}
      /\ \A q \in Procs : q # p => wrote'[q] = wrote[q]
  BY Zenon, <1>1, <1>2
<1>5. \A q \in Procs : IsFiniteSet(wrote'[q]) /\ Cardinality(wrote'[q]) <= MAXOPBLOCKS
  <2>1. IsFiniteSet(wrote'[p]) /\ Cardinality(wrote'[p]) <= MAXOPBLOCKS
    BY <1>4, FS_EmptySet, LogAssumption
  <2> QED BY Zenon, <2>1, <1>4 DEF IInv, CountInv
<1>6. IsFiniteSet(Open \ {p}) /\ Cardinality(Open \ {p}) = Cardinality(Open) - 1
  BY Zenon, <1>1, OpenFacts, FS_RemoveElement
<1>7. Cardinality(Open \ {p}) \in Nat /\ (Cardinality(Open \ {p}) = 0 <=> Open \ {p} = {})
  BY Zenon, <1>6, FS_CardinalityType, FS_EmptySet
<1>8. outstanding' = Cardinality(Open \ {p})
  BY Zenon, <1>2, <1>6 DEF IInv, CountInv
<1>9. outstanding' \in 0 .. Cardinality(Procs)
  BY SMTT(30), <1>1, <1>2, <1>7, <1>8, LogAssumption, FS_CardinalityType
<1> DEFINE L == Listed(lh)
           O == Open \ {p}
<1>10. O \subseteq Open
  OBVIOUS
<1>11. \A q \in Procs : q \in O => wrote[q] \cap L \subseteq wrote'[q] \cap L /\ IsFiniteSet(wrote'[q])
  BY Zenon, <1>4, <1>5
<1>12. Len(lh) + Cardinality(Unused(Open, wrote, L)) <= LOGSIZE
  BY Zenon DEF IInv, CountInv
<1> HIDE DEF L, O
<1>13. Cardinality(Unused(O, wrote', L)) <= Cardinality(Unused(Open, wrote, L))
  BY Zenon, <1>10, <1>11, UnusedShrinks
<1>14. Cardinality(Unused(O, wrote', L)) \in Nat /\ Cardinality(Unused(Open, wrote, L)) \in Nat
  BY Zenon, UnusedFinite
<1>15. Len(lh) + Cardinality(Unused(O, wrote', L)) <= LOGSIZE
  BY <1>12, <1>13, <1>14, OpenFacts, LogAssumption
<1> QED BY Zenon, <1>1, <1>2, <1>3, <1>4, <1>5, <1>7, <1>8, <1>9, <1>15 DEF L, O

\* What end_op leaves, whether it commits or not, where the calls under way are the
\* others: the part of the invariant about the lists, the buffers and the disk.
LEMMA EndOpFrame ==
  ASSUME IInv, NEW p \in Procs, EndOp(p), Open' = Open \ {p}, pc' \in [Procs -> PC],
         \A q \in Procs : q # p /\ pc[q] \in {"check", "append", "panic"} => pc'[q] = pc[q],
         committing' \in BOOLEAN, cpc' \in CPC, tail' \in 1 .. LOGSIZE
  PROVE  TypeOK' /\ CountInv' /\ ListInv' /\ BufInv'
<1>1. /\ UNCHANGED <<lh, cache, dirty, buf, up, home, head, logdata>> /\ pc[p] = "op"
      /\ wrote' \in [Procs -> SUBSET Blocks] /\ wrote'[p] = {}
      /\ \A q \in Procs : q # p => wrote'[q] = wrote[q]
      /\ outstanding' \in 0 .. Cardinality(Procs)
  BY Zenon, EndOpCounts
<1>2. TypeOK'
  BY Zenon, <1>1 DEF IInv, TypeOK
<1>3. CountInv'
  <2>1. /\ \A q \in Procs : IsFiniteSet(wrote'[q]) /\ Cardinality(wrote'[q]) <= MAXOPBLOCKS
        /\ outstanding' = Cardinality(Open')
    BY Zenon, EndOpCounts
  <2>2. Len(lh) + Cardinality(Unused(Open \ {p}, wrote', Listed(lh))) <= LOGSIZE
    BY Zenon, EndOpCounts
  <2>3. Len(lh') + Cardinality(Unused(Open', wrote', Listed(lh'))) <= LOGSIZE
    BY Zenon, <2>2, <1>1
  <2> QED BY Zenon, <2>1, <2>3 DEF CountInv, Unused, Listed
<1>4. ListInv'
  BY ZenonT(60), <1>1 DEF IInv, ListInv, OnceIn
<1>5. buf[p] = {}
  BY Zenon, <1>1 DEF IInv, BufInv
<1>6. BufInv'
  <2>1. \A q \in Procs : buf'[q] # {} => pc'[q] \in {"check", "append", "panic"}
    BY Zenon, <1>1, <1>5 DEF IInv, BufInv
  <2>2. \A q \in Procs : (\A x, y \in buf'[q] : x = y) /\ buf'[q] \subseteq wrote'[q]
    BY ZenonT(60), <1>1, <1>5 DEF IInv, BufInv
  <2>3. \A x \in Blocks : x \notin dirty' /\ (\A q \in Procs : x \notin buf'[q]) => cache'[x] = home'[x]
    BY Zenon, <1>1 DEF IInv, BufInv
  <2> QED BY Zenon, <2>1, <2>2, <2>3 DEF BufInv
<1> QED BY Zenon, <1>2, <1>3, <1>4, <1>6

\* end_op: what the call reserved and did not use is given back, and the last one starts the commit.
LEMMA EndOpInv == ASSUME IInv, NEW p \in Procs, EndOp(p) PROVE IInv'
<1>1. /\ pc \in [Procs -> PC] /\ pc[p] = "op" /\ up /\ ~committing /\ cpc = "none" /\ head = <<>>
      /\ outstanding' = outstanding - 1 /\ (outstanding' = 0 <=> Open \ {p} = {})
      /\ UNCHANGED <<lh, cache, dirty, buf, up, home, head, logdata>>
  BY Zenon, EndOpCounts DEF IInv, TypeOK
<1>2. 1 \in 1 .. LOGSIZE /\ Len(lh) \in Nat /\ lh \in Seq(Blocks)
  BY LogAssumption, OpenFacts
<1>3. CASE outstanding' = 0
  <2>1. /\ committing' = TRUE /\ pc' = [pc EXCEPT ![p] = "commit"] /\ tail' = 1
        /\ cpc' = IF lh # <<>> THEN "write_log" ELSE "done"
    BY Zenon, <1>1, <1>3 DEF EndOp, LastOut, Set
  <2>2. pc' \in [Procs -> PC] /\ pc'[p] = "commit" /\ \A q \in Procs : q # p => pc'[q] = pc[q]
    BY Zenon, <1>1, <2>1 DEF PC
  <2>3. Open' = Open \ {p} /\ Open' = {}
    <3>1. Open' = Open \ {p}
      BY Zenon, <2>2 DEF Open
    <3> QED BY Zenon, <3>1, <1>1, <1>3
  <2>4. TypeOK' /\ CountInv' /\ ListInv' /\ BufInv'
    BY Zenon, <1>2, <2>1, <2>2, <2>3, EndOpFrame DEF CPC
  <2>5. PhaseInv'
    BY <1>1, <1>2, <2>1 DEF PhaseInv
  <2>6. CommitInv'
    <3>1. \A q \in Procs : pc[q] # "commit"
      BY Zenon, <1>1 DEF IInv, CommitInv
    <3> QED BY Zenon, <3>1, <2>1, <2>2, <2>3 DEF CommitInv
  <2>7. DirtyInv'
    BY Zenon, <1>1, <2>1 DEF IInv, DirtyInv
  <2>8. DataInv'
    BY <1>1, <2>1 DEF DataInv
  <2>9. NoLostWakeup'
    BY Zenon, <2>1 DEF NoLostWakeup, MustWait
  <2> QED BY Zenon, <2>4, <2>5, <2>6, <2>7, <2>8, <2>9 DEF IInv
<1>4. CASE outstanding' # 0
  <2> DEFINE at == [pc EXCEPT ![p] = "idle"]
  <2>1. pc' = WakeupLog(at) /\ UNCHANGED <<committing, cpc, tail>>
    BY Zenon, <1>1, <1>4 DEF EndOp, LastOut, Set
  <2>2. at \in [Procs -> PC] /\ at[p] = "idle" /\ \A q \in Procs : q # p => at[q] = pc[q]
    BY Zenon, <1>1 DEF PC
  <2> HIDE DEF at
  <2>3. /\ pc' \in [Procs -> PC] /\ pc'[p] = "idle"
        /\ \A q \in Procs : /\ pc'[q] # "asleep"
                            /\ q # p /\ pc[q] # "asleep" => pc'[q] = pc[q]
                            /\ q # p /\ pc[q] = "asleep" => pc'[q] = "begin"
    BY Zenon, <2>1, <2>2, WakeupIs
  <2>4. Open' = Open \ {p} /\ Open' # {}
    <3>1. Open' = Open \ {p}
      BY Zenon, <2>3 DEF Open
    <3> QED BY Zenon, <3>1, <1>1, <1>4
  <2>5. TypeOK' /\ CountInv' /\ ListInv' /\ BufInv'
    <3>1. committing' \in BOOLEAN /\ cpc' \in CPC /\ tail' \in 1 .. LOGSIZE
      BY Zenon, <2>1 DEF IInv, TypeOK
    <3> QED BY Zenon, <3>1, <2>3, <2>4, EndOpFrame
  <2>6. PhaseInv'
    BY Zenon, <1>1, <2>1 DEF IInv, PhaseInv
  <2>7. CommitInv'
    <3>1. \A q \in Procs : pc[q] # "commit"
      BY Zenon, <1>1 DEF IInv, CommitInv
    <3>2. \A q \in Procs : pc'[q] # "commit"
      BY Zenon, <3>1, <2>3
    <3> QED BY Zenon, <3>2, <1>1, <2>1, <2>4 DEF CommitInv
  <2>8. DirtyInv'
    BY Zenon, <1>1, <2>1 DEF IInv, DirtyInv
  <2>9. DataInv'
    BY Zenon, <1>1, <2>1 DEF DataInv
  <2>10. NoLostWakeup'
    BY Zenon, <2>3 DEF NoLostWakeup
  <2> QED BY Zenon, <2>5, <2>6, <2>7, <2>8, <2>9, <2>10 DEF IInv
<1> QED BY Zenon, <1>3, <1>4

-----------------------------------------------------------------------------
(* Commit and recovery                                                     *)

\* While there is no call under way (a commit, a recovery), no block is locked, nobody
\* is waiting without a commit, and the log's bound is what is left to keep.
LEMMA NoCalls ==
  ASSUME IInv, cpc # "none"
  PROVE  /\ Open = {} /\ outstanding = 0
         /\ \A q \in Procs : buf[q] = {}
         /\ up <=> committing
         /\ \A x \in Blocks : x \notin dirty => cache[x] = home[x]
<1>1. up <=> committing
  BY Zenon DEF IInv, PhaseInv
<1>2. Open = {}
  BY Zenon, <1>1 DEF IInv, PhaseInv, CommitInv, Open
<1>3. \A q \in Procs : buf[q] = {}
  BY Zenon, <1>2 DEF Open, IInv, BufInv
<1> QED BY Zenon, <1>1, <1>2, <1>3, OpenFacts DEF IInv, BufInv

\* What those steps of commit and recovery keep that leave the processes alone and the
\* list no longer than it may be.
LEMMA CommitFrame ==
  ASSUME IInv, Open = {}, UNCHANGED <<outstanding, committing, pc, buf, wrote>>,
         lh' \in Seq(Blocks), Len(lh') <= LOGSIZE
  PROVE  CountInv'
<1>1. Open' = {}
  BY Zenon DEF Open
<1>2. Cardinality(Unused({}, wrote', Listed(lh'))) = 0
  BY Zenon, UnusedNone
<1>3. Len(lh') + Cardinality(Unused(Open', wrote', Listed(lh'))) <= LOGSIZE
  BY <1>1, <1>2, LogAssumption
<1> QED BY Zenon, <1>1, <1>3 DEF IInv, CountInv, Unused, Listed

\* The variables that a loop over the list advances.
LEMMA LoopIs ==
  ASSUME IInv, tail <= Len(lh), NEW again \in CPC, NEW after \in CPC, Loop(again, after)
  PROVE  /\ tail \in 1 .. Len(lh) /\ tail' \in 1 .. LOGSIZE /\ cpc' \in CPC
         /\ tail < Len(lh) => cpc' = again /\ tail' = tail + 1
         /\ ~(tail < Len(lh)) => cpc' = after /\ tail' = 1 /\ tail = Len(lh)
<1>1. tail \in 1 .. LOGSIZE /\ Len(lh) <= LOGSIZE /\ Len(lh) \in Nat
  BY Zenon, OpenFacts DEF IInv, TypeOK
<1>2. tail < Len(lh) => cpc' = again /\ tail' = tail + 1
  BY Zenon DEF Loop, More
<1>3. ~(tail < Len(lh)) => cpc' = after /\ tail' = 1
  BY Zenon DEF Loop, More
<1> QED BY <1>1, <1>2, <1>3, LogAssumption

\* write_log copies a block from the cache to the log.
LEMMA WriteLogInv == ASSUME IInv, WriteLog PROVE IInv'
<1>1. cpc = "write_log" /\ tail <= Len(lh) /\ logdata \in [LogSlots -> Vals] /\ Len(lh) <= LOGSIZE
  BY Zenon DEF WriteLog, IInv, PhaseInv, TypeOK
<1>2. /\ logdata' = [logdata EXCEPT ![tail] = cache[lh[tail]]] /\ Loop("write_log", "write_head")
      /\ UNCHANGED <<outstanding, committing, lh, cache, dirty, pc, buf, wrote, up, home, head>>
  BY Zenon DEF WriteLog, Set, logvars, callvars
<1>3. Open = {} /\ outstanding = 0 /\ (up <=> committing) /\ lh \in Seq(Blocks) /\ Len(lh) \in Nat
  BY Zenon, <1>1, NoCalls, OpenFacts
<1>4. /\ tail \in 1 .. Len(lh) /\ tail' \in 1 .. LOGSIZE /\ cpc' \in CPC
      /\ tail < Len(lh) => cpc' = "write_log" /\ tail' = tail + 1
      /\ ~(tail < Len(lh)) => cpc' = "write_head" /\ tail' = 1 /\ tail = Len(lh)
  BY Zenon, <1>1, <1>2, LoopIs DEF CPC
<1>5. lh[tail] \in Blocks /\ tail \in LogSlots
  BY <1>1, <1>3, <1>4, LogAssumption DEF LogSlots
<1>6. /\ logdata' \in [LogSlots -> Vals] /\ logdata'[tail] = cache[lh[tail]]
      /\ \A i \in LogSlots : i # tail => logdata'[i] = logdata[i]
  BY Zenon, <1>1, <1>2, <1>5 DEF IInv, TypeOK
<1>7. cpc' \in {"write_log", "write_head"} /\ up /\ committing
  BY Zenon, <1>1, <1>4 DEF IInv, PhaseInv
<1>8. TypeOK'
  BY Zenon, <1>2, <1>4, <1>6 DEF IInv, TypeOK
<1>9. CountInv'
  BY Zenon, <1>2, <1>3, CommitFrame DEF IInv, TypeOK
<1>10. ListInv'
  BY Zenon, <1>2 DEF IInv, ListInv, OnceIn
<1>11. PhaseInv'
  <2>1. head = <<>>
    BY Zenon, <1>1 DEF IInv, PhaseInv
  <2>2. cpc' = "write_log" => tail' <= Len(lh)
    BY <1>3, <1>4
  <2>3. cpc' = "write_head" => tail' = 1 /\ lh # <<>>
    BY <1>4, ListedEmpty
  <2> QED BY Zenon, <2>1, <2>2, <2>3, <1>2, <1>7 DEF PhaseInv
<1>12. CommitInv'
  BY Zenon, <1>2, <1>3, <1>7 DEF IInv, CommitInv, Open
<1>13. BufInv'
  BY Zenon, <1>2 DEF IInv, BufInv
<1>14. DirtyInv'
  BY Zenon, <1>2, <1>7 DEF IInv, DirtyInv
<1>15. DataInv'
  <2> SUFFICES ASSUME NEW i \in 1 .. Len(lh), cpc' = "write_head" \/ i < tail'
               PROVE  logdata'[i] = cache[lh[i]]
    BY Zenon, <1>2, <1>7 DEF DataInv
  <2>1. i \in LogSlots
    BY <1>1, <1>3, LogAssumption DEF LogSlots
  <2>2. i <= tail
    BY <1>3, <1>4
  <2>3. CASE i = tail
    BY Zenon, <2>3, <1>6
  <2>4. CASE i < tail
    BY Zenon, <2>1, <2>4, <1>1, <1>6, <1>3, <1>4 DEF IInv, DataInv
  <2> QED BY SMTT(30), <2>2, <2>3, <2>4, <1>3, <1>4
<1>16. NoLostWakeup'
  BY ZenonT(60), <1>2, <1>7 DEF NoLostWakeup, MustWait
<1> QED BY Zenon, <1>8, <1>9, <1>10, <1>11, <1>12, <1>13, <1>14, <1>15, <1>16 DEF IInv

\* write_head, the commit point: the header names every block that is in the log.
LEMMA WriteHeadInv == ASSUME IInv, WriteHead PROVE IInv'
<1>1. cpc = "write_head" /\ tail = 1 /\ lh # <<>> /\ up /\ committing
  BY Zenon DEF WriteHead, IInv, PhaseInv
<1>2. /\ head' = lh /\ cpc' = "install"
      /\ UNCHANGED <<outstanding, committing, lh, cache, dirty, pc, buf, wrote, tail, up, home, logdata>>
  BY Zenon DEF WriteHead, logvars, callvars
<1>3. Open = {} /\ lh \in Seq(Blocks) /\ Len(lh) \in Nat /\ Len(lh) <= LOGSIZE /\ tail <= Len(lh)
  BY <1>1, NoCalls, OpenFacts DEF IInv, TypeOK
<1>4. TypeOK'
  BY Zenon, <1>2 DEF IInv, TypeOK, CPC
<1>5. CountInv'
  BY Zenon, <1>2, <1>3, CommitFrame
<1>6. ListInv'
  BY Zenon, <1>2, <1>3 DEF IInv, ListInv, OnceIn
<1>7. PhaseInv'
  BY Zenon, <1>1, <1>2, <1>3 DEF PhaseInv
<1>8. CommitInv'
  BY Zenon, <1>1, <1>2 DEF IInv, CommitInv, Open
<1>9. BufInv'
  BY Zenon, <1>2 DEF IInv, BufInv
<1>10. DirtyInv'
  BY SMTT(30), <1>1, <1>2, <1>3 DEF IInv, DirtyInv
<1>11. DataInv'
  BY <1>1, <1>2 DEF IInv, DataInv
<1>12. NoLostWakeup'
  BY Zenon, <1>1, <1>2 DEF NoLostWakeup, MustWait
<1> QED BY Zenon, <1>4, <1>5, <1>6, <1>7, <1>8, <1>9, <1>10, <1>11, <1>12 DEF IInv

\* install_trans copies a block from the log to its place on disk, in commit and in
\* recovery: what a running system reads there does not change.
LEMMA InstallIs ==
  ASSUME IInv, InstallTrans
  PROVE  /\ cpc = "install" /\ tail \in 1 .. Len(lh) /\ tail \in LogSlots /\ lh[tail] \in Blocks
         /\ home \in [Blocks -> Vals] /\ cache \in [Blocks -> Vals] /\ logdata \in [LogSlots -> Vals]
         /\ home' = [home EXCEPT ![lh[tail]] = logdata[tail]]
         /\ cache' = [cache EXCEPT ![lh[tail]] = logdata[tail]]
         /\ dirty' = dirty \ {lh[tail]} /\ Loop("install", "clear")
         /\ UNCHANGED <<outstanding, committing, lh, pc, buf, wrote, up, head, logdata>>
         /\ head = lh /\ Open = {} /\ lh \in Seq(Blocks) /\ Len(lh) \in Nat /\ Len(lh) <= LOGSIZE
         /\ home' \in [Blocks -> Vals] /\ home'[lh[tail]] = logdata[tail]
         /\ \A x \in Blocks : x # lh[tail] => home'[x] = home[x] /\ cache'[x] = cache[x]
         /\ cache' \in [Blocks -> Vals] /\ cache'[lh[tail]] = logdata[tail]
         /\ up => cache' = cache
<1>1. cpc = "install" /\ tail <= Len(lh) /\ head = lh
  BY Zenon DEF InstallTrans, IInv, PhaseInv
<1>2. /\ lh \in Seq(Blocks) /\ Len(lh) \in Nat /\ Len(lh) <= LOGSIZE /\ tail \in 1 .. LOGSIZE
      /\ home \in [Blocks -> Vals] /\ cache \in [Blocks -> Vals] /\ logdata \in [LogSlots -> Vals]
  BY Zenon, OpenFacts DEF IInv, TypeOK
<1>3. tail \in 1 .. Len(lh) /\ tail \in LogSlots
  BY <1>1, <1>2, LogAssumption DEF LogSlots
<1>4. lh[tail] \in Blocks /\ logdata[tail] \in Vals
  BY <1>2, <1>3
<1>5. /\ home' = [home EXCEPT ![lh[tail]] = logdata[tail]]
      /\ cache' = [cache EXCEPT ![lh[tail]] = logdata[tail]]
      /\ dirty' = dirty \ {lh[tail]} /\ Loop("install", "clear")
      /\ UNCHANGED <<outstanding, committing, lh, pc, buf, wrote, up, head, logdata>>
  BY Zenon DEF InstallTrans, Set, logvars, callvars
<1>6. /\ home' \in [Blocks -> Vals] /\ home'[lh[tail]] = logdata[tail]
      /\ cache' \in [Blocks -> Vals] /\ cache'[lh[tail]] = logdata[tail]
      /\ \A x \in Blocks : x # lh[tail] => home'[x] = home[x] /\ cache'[x] = cache[x]
  BY Zenon, <1>2, <1>4, <1>5
<1>7. up => cache' = cache
  <2>1. up => logdata[tail] = cache[lh[tail]]
    BY Zenon, <1>1, <1>3 DEF IInv, DataInv
  <2> QED BY Zenon, <2>1, <1>2, <1>5
<1>8. Open = {}
  BY ZenonT(60), <1>1, NoCalls
<1> QED BY ZenonT(60), <1>1, <1>2, <1>3, <1>4, <1>5, <1>6, <1>7, <1>8

\* install_trans: a block gets home from the log, and leaves the cache clean.
LEMMA InstallTransInv == ASSUME IInv, InstallTrans PROVE IInv'
<1>1. /\ cpc = "install" /\ tail \in 1 .. Len(lh) /\ tail \in LogSlots /\ lh[tail] \in Blocks
      /\ dirty' = dirty \ {lh[tail]} /\ Loop("install", "clear")
      /\ UNCHANGED <<outstanding, committing, lh, pc, buf, wrote, up, head, logdata>>
      /\ head = lh /\ Open = {} /\ lh \in Seq(Blocks) /\ Len(lh) \in Nat /\ Len(lh) <= LOGSIZE
      /\ home' \in [Blocks -> Vals] /\ home'[lh[tail]] = logdata[tail]
      /\ cache' \in [Blocks -> Vals] /\ cache'[lh[tail]] = logdata[tail]
  BY Zenon, InstallIs
<1>2. /\ \A x \in Blocks : x # lh[tail] => home'[x] = home[x] /\ cache'[x] = cache[x]
      /\ up => cache' = cache
  BY Zenon, InstallIs
<1>3. /\ tail' \in 1 .. LOGSIZE /\ cpc' \in CPC
      /\ tail < Len(lh) => cpc' = "install" /\ tail' = tail + 1
      /\ ~(tail < Len(lh)) => cpc' = "clear" /\ tail' = 1 /\ tail = Len(lh)
  <2>1. tail <= Len(lh)
    BY <1>1
  <2> QED BY Zenon, <1>1, <2>1, LoopIs DEF CPC
<1>4. cpc' \in {"install", "clear"}
  BY Zenon, <1>3
<1>5. OnceIn(lh)
  BY Zenon DEF IInv, ListInv
<1>6. TypeOK'
  BY Zenon, <1>1, <1>3 DEF IInv, TypeOK
<1>7. CountInv'
  BY Zenon, <1>1, CommitFrame
<1>8. ListInv'
  BY <1>1 DEF IInv, ListInv, OnceIn
<1>9. PhaseInv'
  <2>1. cpc' = "install" => tail' <= Len(lh)
    BY <1>1, <1>3
  <2> QED BY Zenon, <2>1, <1>1, <1>4 DEF IInv, PhaseInv
<1>10. CommitInv'
  BY Zenon, <1>1, <1>4 DEF IInv, CommitInv, Open
<1>11. BufInv'
  <2>1. ASSUME NEW x \in Blocks, x \notin dirty', \A q \in Procs : x \notin buf'[q]
        PROVE  cache'[x] = home'[x]
    <3>1. CASE x = lh[tail]
      BY Zenon, <3>1, <1>1
    <3>2. CASE x # lh[tail]
      BY Zenon, <3>2, <2>1, <1>1, <1>2 DEF IInv, BufInv
    <3> QED BY Zenon, <3>1, <3>2
  <2> QED BY Zenon, <2>1, <1>1 DEF IInv, BufInv
<1>12. DirtyInv'
  <2>1. ASSUME NEW x \in dirty' PROVE \E i \in 1 .. Len(lh) : lh[i] = x /\ tail + 1 <= i
    <3>1. x \in dirty /\ x # lh[tail]
      BY Zenon, <2>1, <1>1
    <3>2. PICK i \in 1 .. Len(lh) : lh[i] = x /\ tail <= i
      BY Zenon, <3>1, <1>1 DEF IInv, DirtyInv
    <3>3. i # tail
      BY Zenon, <3>1, <3>2
    <3> QED BY <3>2, <3>3, <1>1
  <2>2. \A x \in dirty' : \E i \in 1 .. Len(lh) : lh[i] = x /\ (cpc' = "install" => tail' <= i)
    BY Zenon, <2>1, <1>1, <1>3
  <2>3. cpc' = "clear" => dirty' = {}
    BY <2>1, <1>1, <1>3
  <2>4. ~up => dirty' = {}
    BY Zenon, <1>1 DEF IInv, DirtyInv
  <2> QED BY ZenonT(60), <2>2, <2>3, <2>4, <1>1 DEF DirtyInv
<1>13. DataInv'
  <2>1. ASSUME NEW i \in 1 .. Len(lh), up PROVE logdata[i] = cache'[lh[i]]
    BY Zenon, <2>1, <1>1, <1>2 DEF IInv, DataInv
  <2>2. ASSUME NEW i \in 1 .. Len(lh), i < tail' \/ cpc' = "clear" PROVE home'[lh[i]] = logdata[i]
    <3>1. i <= tail /\ lh[i] \in Blocks
      BY <2>2, <1>1, <1>3
    <3>2. CASE i = tail
      BY Zenon, <3>2, <1>1
    <3>3. CASE i < tail
      <4>1. lh[i] # lh[tail]
        BY <3>3, <1>1, <1>5 DEF OnceIn
      <4>2. home[lh[i]] = logdata[i]
        BY Zenon, <3>3, <1>1 DEF IInv, DataInv
      <4> QED BY Zenon, <4>1, <4>2, <3>1, <1>2
    <3> QED BY SMTT(30), <3>1, <3>2, <3>3, <1>1
  <2> QED BY ZenonT(60), <2>1, <2>2, <1>1, <1>4 DEF DataInv
<1>14. NoLostWakeup'
  BY ZenonT(60), <1>1 DEF IInv, NoLostWakeup, MustWait
<1> QED BY Zenon, <1>6, <1>7, <1>8, <1>9, <1>10, <1>11, <1>12, <1>13, <1>14 DEF IInv

\* The header is written empty once everything is in its place.
LEMMA ClearHeadInv == ASSUME IInv, ClearHead PROVE IInv'
<1>1. cpc = "clear" /\ Open = {} /\ (up <=> committing) /\ dirty = {}
  BY Zenon, NoCalls DEF ClearHead, IInv, DirtyInv
<1>2. /\ lh' = <<>> /\ head' = <<>> /\ up' = TRUE
      /\ cpc' = IF up THEN "done" ELSE "none"
      /\ UNCHANGED <<outstanding, committing, cache, dirty, pc, buf, wrote, tail, home, logdata>>
  BY Zenon DEF ClearHead, callvars
<1>3. <<>> \in Seq(Blocks) /\ Len(<<>>) = 0 /\ 0 <= LOGSIZE
  BY LogAssumption
<1>4. TypeOK'
  BY Zenon, <1>2, <1>3 DEF IInv, TypeOK, CPC
<1>5. CountInv'
  BY Zenon, <1>1, <1>2, <1>3, CommitFrame
<1>6. ListInv'
  BY <1>2, <1>3 DEF ListInv, OnceIn
<1>7. PhaseInv'
  BY Zenon, <1>1, <1>2 DEF PhaseInv
<1>8. CommitInv'
  BY Zenon, <1>1, <1>2 DEF IInv, CommitInv, Open
<1>9. BufInv'
  BY Zenon, <1>2 DEF IInv, BufInv
<1>10. DirtyInv'
  BY Zenon, <1>1, <1>2 DEF DirtyInv
<1>11. DataInv'
  BY Zenon, <1>2, <1>3 DEF DataInv
<1>12. NoLostWakeup'
  <2>1. CASE up
    BY Zenon, <2>1, <1>1, <1>2 DEF NoLostWakeup, MustWait
  <2>2. CASE ~up
    BY Zenon, <2>2, <1>2 DEF IInv, PhaseInv, NoLostWakeup
  <2> QED BY Zenon, <2>1, <2>2
<1> QED BY Zenon, <1>4, <1>5, <1>6, <1>7, <1>8, <1>9, <1>10, <1>11, <1>12 DEF IInv

\* end_op after the commit lets everybody try again.
LEMMA CommitDoneInv == ASSUME IInv, NEW p \in Procs, CommitDone(p) PROVE IInv'
<1> DEFINE at == [pc EXCEPT ![p] = "idle"]
<1>1. /\ pc[p] = "commit" /\ cpc = "done" /\ pc \in [Procs -> PC] /\ Open = {}
      /\ up /\ committing /\ lh = <<>> /\ head = <<>>
  <2>1. pc[p] = "commit" /\ cpc = "done" /\ pc \in [Procs -> PC]
    BY Zenon DEF CommitDone, IInv, TypeOK
  <2> QED BY Zenon, <2>1, NoCalls DEF IInv, PhaseInv
<1>2. /\ committing' = FALSE /\ cpc' = "none" /\ pc' = WakeupLog(at)
      /\ UNCHANGED <<outstanding, lh, cache, dirty, buf, wrote, tail, up, home, head, logdata>>
  BY Zenon DEF CommitDone, Set, callvars
<1>3. at \in [Procs -> PC] /\ at[p] = "idle" /\ \A q \in Procs : q # p => at[q] = pc[q]
  BY Zenon, <1>1 DEF PC
<1> HIDE DEF at
<1>4. /\ pc' \in [Procs -> PC] /\ pc'[p] = "idle"
      /\ \A q \in Procs : /\ pc'[q] # "asleep"
                          /\ q # p /\ pc[q] # "asleep" => pc'[q] = pc[q]
                          /\ q # p /\ pc[q] = "asleep" => pc'[q] = "begin"
  BY Zenon, <1>2, <1>3, WakeupIs
<1>5. Open' = Open
  BY Zenon, <1>1, <1>4 DEF Open
<1>6. TypeOK'
  BY Zenon, <1>2, <1>4 DEF IInv, TypeOK, CPC
<1>7. CountInv'
  BY <1>2, <1>5 DEF IInv, CountInv, Unused, Listed
<1>8. ListInv'
  BY Zenon, <1>2 DEF IInv, ListInv, OnceIn
<1>9. PhaseInv'
  BY Zenon, <1>1, <1>2 DEF PhaseInv
<1>10. CommitInv'
  <2>1. \A q \in Procs : pc'[q] # "commit"
    BY Zenon, <1>1, <1>4 DEF IInv, CommitInv
  <2> QED BY Zenon, <2>1, <1>1, <1>2 DEF CommitInv
<1>11. BufInv'
  BY Zenon, <1>1, <1>2, <1>4 DEF IInv, BufInv
<1>12. DirtyInv'
  BY Zenon, <1>1, <1>2 DEF IInv, DirtyInv
<1>13. DataInv'
  BY ZenonT(60), <1>2 DEF DataInv
<1>14. NoLostWakeup'
  BY Zenon, <1>4 DEF NoLostWakeup
<1> QED BY ZenonT(60), <1>6, <1>7, <1>8, <1>9, <1>10, <1>11, <1>12, <1>13, <1>14 DEF IInv

\* recover_from_log reads the header of the disk.
LEMMA ReadHeadInv == ASSUME IInv, ReadHead PROVE IInv'
<1>1. cpc = "read" /\ Open = {} /\ ~up /\ ~committing /\ tail = 1 /\ dirty = {}
  <2>1. cpc = "read"
    BY Zenon DEF ReadHead
  <2>2. ~up /\ tail = 1
    BY Zenon, <2>1 DEF IInv, PhaseInv
  <2> QED BY Zenon, <2>1, <2>2, NoCalls DEF IInv, DirtyInv
<1>2. /\ lh' = head /\ cpc' = IF head # <<>> THEN "install" ELSE "clear"
      /\ UNCHANGED <<outstanding, committing, cache, dirty, pc, buf, wrote, tail, up, home, head, logdata>>
  BY Zenon DEF ReadHead, callvars
<1>3. head \in Seq(Blocks) /\ Len(head) <= LOGSIZE /\ OnceIn(head)
  BY Zenon DEF IInv, TypeOK, ListInv
<1>4. TypeOK'
  BY Zenon, <1>2, <1>3 DEF IInv, TypeOK, CPC
<1>5. CountInv'
  BY Zenon, <1>1, <1>2, <1>3, CommitFrame
<1>6. ListInv'
  BY Zenon, <1>2, <1>3 DEF ListInv, OnceIn
<1>7. PhaseInv'
  <2>1. head # <<>> => 1 <= Len(head)
    BY <1>3
  <2> QED BY Zenon, <2>1, <1>1, <1>2 DEF IInv, PhaseInv
<1>8. CommitInv'
  BY Zenon, <1>1, <1>2 DEF IInv, CommitInv, Open
<1>9. BufInv'
  BY Zenon, <1>2 DEF IInv, BufInv
<1>10. DirtyInv'
  BY Zenon, <1>1, <1>2 DEF DirtyInv
<1>11. DataInv'
  <2>1. cpc' = "clear" => Len(lh') = 0
    BY <1>2
  <2> QED BY <2>1, <1>1, <1>2 DEF DataInv
<1>12. NoLostWakeup'
  BY Zenon, <1>1, <1>2 DEF IInv, PhaseInv, NoLostWakeup
<1> QED BY Zenon, <1>4, <1>5, <1>6, <1>7, <1>8, <1>9, <1>10, <1>11, <1>12 DEF IInv

\* A buffer that may be recycled holds what the disk holds.
LEMMA EvictSame == ASSUME IInv, NEW b \in Blocks, Evict(b) PROVE UNCHANGED vars
<1>1. cache[b] = home[b] /\ cache \in [Blocks -> Vals]
  BY Zenon DEF Evict, IInv, BufInv, TypeOK
<1>2. cache' = cache
  BY Zenon, <1>1 DEF Evict, Set
<1> QED BY Zenon, <1>2 DEF Evict, vars, logvars, callvars

\* A crash leaves the disk, and recovery to be done.
LEMMA CrashInv == ASSUME IInv, Crash PROVE IInv'
<1>1. /\ outstanding' = 0 /\ committing' = FALSE /\ lh' = <<>> /\ cache' = home /\ dirty' = {}
      /\ pc' = [p \in Procs |-> "idle"]
      /\ buf' = [p \in Procs |-> {}] /\ wrote' = [p \in Procs |-> {}]
      /\ cpc' = "read" /\ tail' = 1 /\ up' = FALSE
      /\ UNCHANGED <<home, head, logdata>>
  BY Zenon DEF Crash
<1>2. Open' = {}
  BY Zenon, <1>1 DEF Open
<1>3. <<>> \in Seq(Blocks) /\ Len(<<>>) = 0 /\ 0 <= LOGSIZE /\ 1 \in 1 .. LOGSIZE
  BY LogAssumption
<1>4. TypeOK'
  <2>1. 0 \in 0 .. Cardinality(Procs)
    BY LogAssumption, FS_CardinalityType
  <2> QED BY ZenonT(60), <2>1, <1>1, <1>3 DEF IInv, TypeOK, CPC, PC
<1>5. CountInv'
  <2>1. Cardinality(Unused({}, wrote', Listed(lh'))) = 0
    BY Zenon, UnusedNone
  <2>2. Len(lh') + Cardinality(Unused(Open', wrote', Listed(lh'))) <= LOGSIZE
    BY SMTT(30), <2>1, <1>1, <1>2, <1>3
  <2>3. \A q \in Procs : IsFiniteSet(wrote'[q]) /\ Cardinality(wrote'[q]) <= MAXOPBLOCKS
    BY SMTT(30), <1>1, FS_EmptySet, LogAssumption
  <2>4. outstanding' = Cardinality(Open')
    BY Zenon, <1>1, <1>2, FS_EmptySet
  <2> QED BY Zenon, <2>2, <2>3, <2>4 DEF CountInv, Unused, Listed
<1>6. ListInv'
  BY <1>1, <1>3 DEF IInv, ListInv, OnceIn
<1>7. PhaseInv'
  BY Zenon, <1>1 DEF PhaseInv
<1>8. CommitInv'
  BY Zenon, <1>1 DEF CommitInv
<1>9. BufInv'
  BY Zenon, <1>1 DEF BufInv
<1>10. DirtyInv' /\ DataInv'
  BY Zenon, <1>1, <1>3 DEF DirtyInv, DataInv
<1>11. NoLostWakeup'
  BY Zenon, <1>1 DEF NoLostWakeup
<1> QED BY ZenonT(60), <1>4, <1>5, <1>6, <1>7, <1>8, <1>9, <1>10, <1>11 DEF IInv

\* An empty log, and a cache that has what the disk has.
LEMMA InitInv == Init => IInv
<1> SUFFICES ASSUME Init PROVE IInv
  OBVIOUS
<1>1. /\ outstanding = 0 /\ committing = FALSE /\ lh = <<>> /\ cache = home /\ dirty = {}
      /\ pc = [p \in Procs |-> "idle"]
      /\ buf = [p \in Procs |-> {}] /\ wrote = [p \in Procs |-> {}]
      /\ cpc = "read" /\ tail = 1 /\ up = FALSE /\ head = <<>> /\ home \in [Blocks -> Vals]
  BY Zenon DEF Init
<1>2. Open = {}
  BY Zenon, <1>1 DEF Open
<1>3. <<>> \in Seq(Blocks) /\ Len(<<>>) = 0 /\ 0 <= LOGSIZE /\ 1 \in 1 .. LOGSIZE
  BY SMTT(30), LogAssumption
<1>4. TypeOK
  <2>1. 0 \in 0 .. Cardinality(Procs)
    BY LogAssumption, FS_CardinalityType
  <2>2. logdata \in [LogSlots -> Vals]
    BY Zenon DEF Init
  <2> QED BY Zenon, <2>1, <2>2, <1>1, <1>3 DEF TypeOK, CPC, PC
<1>5. CountInv
  <2>1. Cardinality(Unused({}, wrote, Listed(lh))) = 0
    BY Zenon, UnusedNone
  <2>2. Len(lh) + Cardinality(Unused(Open, wrote, Listed(lh))) <= LOGSIZE
    BY SMTT(30), <2>1, <1>1, <1>2, <1>3
  <2>3. \A q \in Procs : IsFiniteSet(wrote[q]) /\ Cardinality(wrote[q]) <= MAXOPBLOCKS
    BY <1>1, FS_EmptySet, LogAssumption
  <2>4. outstanding = Cardinality(Open)
    BY Zenon, <1>1, <1>2, FS_EmptySet
  <2> QED BY Zenon, <2>2, <2>3, <2>4 DEF CountInv
<1>6. ListInv
  BY <1>1, <1>3 DEF ListInv, OnceIn
<1>7. PhaseInv /\ CommitInv /\ BufInv
  BY Zenon, <1>1 DEF PhaseInv, CommitInv, BufInv
<1>8. DirtyInv /\ DataInv /\ NoLostWakeup
  BY Zenon, <1>1, <1>3 DEF DirtyInv, DataInv, NoLostWakeup
<1> QED BY ZenonT(60), <1>4, <1>5, <1>6, <1>7, <1>8 DEF IInv

\* Nothing changes.
LEMMA StutterInv == ASSUME IInv, UNCHANGED vars PROVE IInv'
<1>1. UNCHANGED <<outstanding, committing, lh, cache, dirty, pc, buf, wrote, cpc, tail, up, home,
                  head, logdata>>
  BY Zenon DEF vars, logvars, callvars
<1>2. Open' = Open
  BY Zenon, <1>1 DEF Open
<1>3. TypeOK' /\ PhaseInv' /\ DirtyInv' /\ DataInv'
  BY ZenonT(60), <1>1 DEF IInv, TypeOK, PhaseInv, DirtyInv, DataInv
<1>4. CountInv' /\ CommitInv'
  BY <1>1, <1>2 DEF IInv, CountInv, CommitInv, Unused, Listed
<1>5. ListInv' /\ BufInv' /\ NoLostWakeup'
  BY ZenonT(60), <1>1 DEF IInv, ListInv, OnceIn, BufInv, NoLostWakeup, MustWait
<1> QED BY ZenonT(60), <1>3, <1>4, <1>5 DEF IInv

\* Every step keeps the invariant.
LEMMA NextInv == IInv /\ [Next]_vars => IInv'
<1> SUFFICES ASSUME IInv, [Next]_vars PROVE IInv'
  OBVIOUS
<1>1. ASSUME NEW p \in Procs, BeginOp(p) PROVE IInv'
  BY Zenon, <1>1, BeginOpSleeps, BeginOpEnters
<1>2. ASSUME NEW p \in Procs, InCall(p) PROVE IInv'
  BY Zenon, <1>2, LogCheckInv, LogWriteInv DEF InCall
<1>3. ASSUME NEW p \in Procs, EndOp(p) PROVE IInv'
  BY Zenon, <1>3, EndOpInv
<1>4. ASSUME NEW p \in Procs, NEW b \in Blocks, NEW v \in Vals, Modify(p, b, v) PROVE IInv'
  BY Zenon, <1>4, ModifyInv
<1>5. CASE Commit
  BY Zenon, <1>5, WriteLogInv, WriteHeadInv, InstallTransInv, ClearHeadInv, CommitDoneInv DEF Commit
<1>6. CASE ReadHead
  BY Zenon, <1>6, ReadHeadInv
<1>7. CASE Crash
  BY Zenon, <1>7, CrashInv
<1>8. ASSUME NEW b \in Blocks, Evict(b) PROVE IInv'
  BY Zenon, <1>8, EvictSame, StutterInv
<1>9. CASE UNCHANGED vars
  BY Zenon, <1>9, StutterInv
<1> QED BY Zenon, <1>1, <1>2, <1>3, <1>4, <1>5, <1>6, <1>7, <1>8, <1>9 DEF Next

\* The invariant holds in every reachable state of log.c.
THEOREM Invariance == Spec => []IInv
  BY InitInv, NextInv, PTL DEF Spec

\* begin_op: nobody sleeps there once the reason is gone, and somebody is left to wake
\* those who sleep.
THEOREM WakeupSure == Spec => []NoLostWakeup
<1>1. IInv => NoLostWakeup
  BY Zenon DEF IInv
<1> QED BY <1>1, Invariance, PTL

\* The header's array holds the list, and a block at most once.
HeaderFits == Len(lh) <= LOGSIZE /\ OnceIn(lh)

\* begin_op and log_write: the array is never outgrown, however many calls pass
\* log_write's test of its length before one of them appends.
THEOREM HeaderNeverOverflows == Spec => []HeaderFits
<1>1. IInv => HeaderFits
  BY Zenon DEF IInv, TypeOK, ListInv, HeaderFits
<1> QED BY <1>1, Invariance, PTL

-----------------------------------------------------------------------------
(* What the disk would recover to                                          *)

\* Recovered, of a header hd, log blocks ld and a file system fs.
RecoveredFrom(hd, ld, fs) == [x \in Blocks |->
  IF x \in Listed(hd) THEN ld[CHOOSE i \in DOMAIN hd : hd[i] = x] ELSE fs[x]]

\* recover_from_log: a block that the header names once comes from the log, any other
\* from where it is.
LEMMA RecoveredIs ==
  ASSUME NEW hd \in Seq(Blocks), OnceIn(hd), NEW ld, NEW fs
  PROVE  /\ \A i \in 1 .. Len(hd) : RecoveredFrom(hd, ld, fs)[hd[i]] = ld[i]
         /\ \A x \in Blocks : x \notin Listed(hd) => RecoveredFrom(hd, ld, fs)[x] = fs[x]
<1>1. \A x \in Blocks : x \notin Listed(hd) => RecoveredFrom(hd, ld, fs)[x] = fs[x]
  BY Zenon DEF RecoveredFrom
<1>2. ASSUME NEW i \in 1 .. Len(hd) PROVE RecoveredFrom(hd, ld, fs)[hd[i]] = ld[i]
  <2> DEFINE x == hd[i]
             j == CHOOSE k \in DOMAIN hd : hd[k] = x
  <2>1. DOMAIN hd = 1 .. Len(hd) /\ x \in Blocks /\ x \in Listed(hd)
    BY ListedIs
  <2>2. j \in 1 .. Len(hd) /\ hd[j] = x
    BY Zenon, <2>1
  <2>3. j = i
    <3> HIDE DEF j
    <3> QED BY Zenon, <2>2 DEF OnceIn
  <2>4. RecoveredFrom(hd, ld, fs)[x] = ld[j]
    BY Zenon, <2>1 DEF RecoveredFrom
  <2> QED BY Zenon, <2>3, <2>4
<1> QED BY Zenon, <1>1, <1>2

\* end_op and commit: when no call is active, every completed call is on disk.
THEOREM QuietDurable == Spec => []QuietIsDurable
<1>1. ASSUME IInv PROVE QuietIsDurable
  <2>1. TypeOK
    BY Zenon, <1>1 DEF IInv
  <2>2. ASSUME up, ~committing, outstanding = 0
        PROVE  Recovered = cache /\ lh = <<>> /\ head = <<>>
    <3>1. Open = {} /\ cpc = "none"
      BY Zenon, <1>1, <2>2, OpenFacts DEF IInv, PhaseInv
    <3>2. lh = <<>> /\ head = <<>>
      BY ZenonT(60), <1>1, <2>2, <3>1 DEF IInv, CommitInv, PhaseInv
    <3>3. dirty = {} /\ \A q \in Procs : buf[q] = {}
      BY SMTT(30), <1>1, <3>1, <3>2, ListedEmpty DEF IInv, DirtyInv, BufInv, Open
    <3>4. \A x \in Blocks : cache[x] = home[x]
      BY Zenon, <1>1, <3>3 DEF IInv, BufInv
    <3>5. \A x \in Blocks : Recovered[x] = home[x]
      BY Zenon, <3>2, ListedEmpty DEF Recovered
    <3>6. Recovered = [x \in Blocks |-> Recovered[x]] /\ cache = [x \in Blocks |-> cache[x]]
      BY <1>1 DEF IInv, TypeOK, Recovered
    <3>7. Recovered = cache
      BY Zenon, <3>4, <3>5, <3>6
    <3> QED BY Zenon, <3>2, <3>7
  <2> QED BY Zenon, <2>1, <2>2 DEF QuietIsDurable
<1> QED BY <1>1, Invariance, PTL

-----------------------------------------------------------------------------
(* The log implements a disk that changes by whole groups of calls         *)

\* What the running system reads.
Volatile == IF up THEN cache ELSE Recovered

\* What recovery would read depends on the disk only.
LEMMA SameDisk == UNCHANGED <<home, head, logdata>> => Recovered' = Recovered
  BY DEF Recovered, Listed

\* A step that leaves what recovery and the calls would read is none of the abstract disk.
LEMMA AtomicStutter ==
  ASSUME Recovered' = Recovered, Volatile' = Volatile, Open' = Open
  PROVE  UNCHANGED Atomic!avars
  BY Zenon DEF Atomic!avars, Volatile, Open

\* begin_op begins an operation, or sleeps.
LEMMA BeginOpStep ==
  ASSUME IInv, NEW p \in Procs, BeginOp(p) PROVE [Atomic!Next]_(Atomic!avars)
<1>1. Recovered' = Recovered /\ Volatile' = Volatile
  <2>1. UNCHANGED <<home, head, logdata>> /\ UNCHANGED <<up, cache>>
    BY Zenon DEF BeginOp
  <2> QED BY Zenon, <2>1, SameDisk DEF Volatile
<1>2. pc \in [Procs -> PC] /\ p \notin Open
  BY Zenon DEF IInv, TypeOK, BeginOp, Open
<1>3. CASE MustWait(Len(lh))
  <2>1. pc' = [pc EXCEPT ![p] = "asleep"]
    BY Zenon, <1>3 DEF BeginOp, Set
  <2>2. Open' = Open
    BY Zenon, <1>2, <2>1 DEF Open
  <2> QED BY Zenon, <1>1, <2>2, AtomicStutter
<1>4. CASE ~MustWait(Len(lh))
  <2>1. pc' = [pc EXCEPT ![p] = "op"]
    BY Zenon, <1>4 DEF BeginOp, Set
  <2>2. Open' = Open \cup {p}
    BY Zenon, <1>2, <2>1 DEF Open
  <2>3. Atomic!Begin(p)
    BY ZenonT(60), <1>1, <1>2, <2>2 DEF Atomic!Begin, Open, Volatile
  <2> QED BY Zenon, <2>3 DEF Atomic!Next
<1> QED BY Zenon, <1>3, <1>4

\* A call that changes a block writes it.
LEMMA ModifyStep ==
  ASSUME IInv, NEW p \in Procs, NEW b \in Blocks, NEW v \in Vals, Modify(p, b, v)
  PROVE  [Atomic!Next]_(Atomic!avars)
<1>1. pc \in [Procs -> PC] /\ p \in Open
  BY Zenon DEF IInv, TypeOK, Modify, Open
<1>2. up
  BY Zenon, <1>1, OpenFacts
<1>3. /\ UNCHANGED <<home, head, logdata>> /\ UNCHANGED up
      /\ cache' = [cache EXCEPT ![b] = v] /\ pc' = [pc EXCEPT ![p] = "check"]
  BY Zenon DEF Modify, Set
<1>4. Recovered' = Recovered
  BY Zenon, <1>3, SameDisk
<1>5. Volatile' = [Volatile EXCEPT ![b] = v]
  BY Zenon, <1>2, <1>3 DEF Volatile
<1>6. Open' = Open
  BY Zenon, <1>1, <1>3 DEF Open
<1>7. Atomic!Write(p, b, v)
  BY ZenonT(60), <1>1, <1>4, <1>5, <1>6 DEF Atomic!Write, Open, Volatile
<1> QED BY Zenon, <1>7 DEF Atomic!Next

\* log_write does not show: the block has its new contents and the call goes on.
LEMMA InCallStep ==
  ASSUME IInv, NEW p \in Procs, InCall(p) PROVE [Atomic!Next]_(Atomic!avars)
<1>1. UNCHANGED <<home, head, logdata>> /\ UNCHANGED <<up, cache>>
  BY Zenon DEF InCall, LogCheck, LogWrite
<1>2. Recovered' = Recovered /\ Volatile' = Volatile
  BY Zenon, <1>1, SameDisk DEF Volatile
<1>3. /\ pc \in [Procs -> PC] /\ pc[p] \in {"check", "append"}
      /\ \E s \in {"panic", "append", "op"} : pc' = [pc EXCEPT ![p] = s]
  BY Zenon DEF IInv, TypeOK, InCall, LogCheck, LogWrite, Set
<1>4. Open' = Open
  BY Zenon, <1>3 DEF Open
<1> QED BY Zenon, <1>2, <1>4, AtomicStutter

\* end_op ends the operation.
LEMMA EndOpStep ==
  ASSUME IInv, NEW p \in Procs, EndOp(p) PROVE [Atomic!Next]_(Atomic!avars)
<1>1. /\ UNCHANGED <<home, head, logdata>> /\ UNCHANGED <<up, cache>>
      /\ p \in Open /\ ~committing /\ pc \in [Procs -> PC]
  BY Zenon, EndOpCounts DEF IInv, TypeOK
<1>2. Recovered' = Recovered /\ Volatile' = Volatile
  BY Zenon, <1>1, SameDisk DEF Volatile
<1>3. pc' = [pc EXCEPT ![p] = "commit"] \/ pc' = WakeupLog([pc EXCEPT ![p] = "idle"])
  BY Zenon, <1>1 DEF EndOp, Set
<1>4. Open' = Open \ {p}
  <2>1. CASE pc' = [pc EXCEPT ![p] = "commit"]
    BY Zenon, <2>1, <1>1 DEF Open
  <2>2. CASE pc' = WakeupLog([pc EXCEPT ![p] = "idle"])
    <3>1. \A q \in Procs : pc'[q] = IF q = p THEN "idle" ELSE IF pc[q] = "asleep" THEN "begin" ELSE pc[q]
      BY Zenon, <2>2, <1>1 DEF WakeupLog
    <3> QED BY Zenon, <3>1 DEF Open
  <2> QED BY Zenon, <1>3, <2>1, <2>2
<1>5. Atomic!End(p)
  BY Zenon, <1>1, <1>2, <1>4 DEF Atomic!End, Open, Volatile
<1> QED BY Zenon, <1>5 DEF Atomic!Next

\* write_log does not show, as the header on disk is empty.
LEMMA WriteLogStep == ASSUME IInv, WriteLog PROVE [Atomic!Next]_(Atomic!avars)
<1>1. head = <<>> /\ head' = <<>> /\ UNCHANGED <<home, up, cache, pc>>
  BY Zenon DEF WriteLog, IInv, PhaseInv
<1>2. Recovered = [x \in Blocks |-> home[x]] /\ Recovered' = [x \in Blocks |-> home'[x]]
  BY Zenon, <1>1, ListedEmpty DEF Recovered
<1>3. Recovered' = Recovered
  BY Zenon, <1>1, <1>2
<1>4. Volatile' = Volatile /\ Open' = Open
  BY Zenon, <1>1, <1>3 DEF Volatile, Open
<1> QED BY Zenon, <1>3, <1>4, AtomicStutter

\* write_head commits: the disk has, at once, everything the running system reads.
LEMMA WriteHeadStep == ASSUME IInv, WriteHead PROVE [Atomic!Next]_(Atomic!avars)
<1>1. cpc = "write_head" /\ up /\ cache \in [Blocks -> Vals] /\ lh \in Seq(Blocks)
  BY Zenon DEF WriteHead, IInv, PhaseInv, TypeOK
<1>2. head' = lh /\ UNCHANGED <<home, up, cache, pc, logdata>>
  BY Zenon DEF WriteHead
<1>3. Open = {} /\ Open' = {} /\ \A x \in Blocks : x \notin dirty => cache[x] = home[x]
  BY Zenon, <1>1, <1>2, NoCalls DEF Open
<1>4. \A x \in Blocks : Recovered'[x] = cache[x]
  <2> SUFFICES ASSUME NEW x \in Blocks PROVE Recovered'[x] = cache[x]
    OBVIOUS
  <2>1. /\ \A i \in 1 .. Len(lh) : Recovered'[lh[i]] = logdata[i]
        /\ x \notin Listed(lh) => Recovered'[x] = home[x]
    <3>1. OnceIn(lh) /\ Recovered' = RecoveredFrom(lh, logdata, home)
      BY <1>2 DEF IInv, ListInv, Recovered, RecoveredFrom, Listed
    <3> QED BY SMTT(30), <3>1, <1>1, RecoveredIs
  <2>2. CASE x \in Listed(lh)
    <3>1. PICK i \in 1 .. Len(lh) : lh[i] = x
      BY Zenon, <2>2, <1>1, ListedIs
    <3>2. logdata[i] = cache[lh[i]]
      BY Zenon, <1>1 DEF IInv, DataInv
    <3> QED BY Zenon, <3>1, <3>2, <2>1
  <2>3. CASE x \notin Listed(lh)
    <3>1. x \notin dirty
      BY ZenonT(60), <2>3, <1>1, ListedIs DEF IInv, DirtyInv
    <3> QED BY ZenonT(60), <3>1, <2>1, <2>3, <1>3
  <2> QED BY Zenon, <2>2, <2>3
<1>5. Recovered' = [x \in Blocks |-> Recovered'[x]] /\ cache = [x \in Blocks |-> cache[x]]
  BY <1>1 DEF Recovered
<1>6. Recovered' = cache
  BY Zenon, <1>4, <1>5
<1>7. Atomic!Commit
  BY ZenonT(60), <1>1, <1>2, <1>3, <1>6 DEF Atomic!Commit, Open
<1> QED BY Zenon, <1>7 DEF Atomic!Next

\* install_trans does not show: recovery takes the block from the log either way.
LEMMA InstallTransStep == ASSUME IInv, InstallTrans PROVE [Atomic!Next]_(Atomic!avars)
<1>1. /\ UNCHANGED <<head, logdata, up, pc>> /\ head = lh /\ (up => cache' = cache)
      /\ \A x \in Blocks : x # lh[tail] => home'[x] = home[x]
      /\ tail \in 1 .. Len(lh) /\ lh \in Seq(Blocks)
  BY Zenon, InstallIs
<1>2. lh[tail] \in Listed(head)
  BY Zenon, <1>1, ListedIs
<1>3. \A x \in Blocks : x \notin Listed(head) => home'[x] = home[x]
  BY Zenon, <1>1, <1>2
<1>4. Recovered' = Recovered
  BY <1>1, <1>3 DEF Recovered, Listed
<1>5. Volatile' = Volatile /\ Open' = Open
  BY ZenonT(60), <1>1, <1>4 DEF Volatile, Open
<1> QED BY Zenon, <1>4, <1>5, AtomicStutter

\* Clearing the header does not show, as everything is in its place; at the end of
\* recovery the running system reads what was recovered.
LEMMA ClearHeadStep == ASSUME IInv, ClearHead PROVE [Atomic!Next]_(Atomic!avars)
<1>1. /\ cpc = "clear" /\ head = lh /\ dirty = {} /\ lh \in Seq(Blocks) /\ OnceIn(lh)
      /\ home \in [Blocks -> Vals] /\ cache \in [Blocks -> Vals]
  BY Zenon DEF ClearHead, IInv, PhaseInv, DirtyInv, TypeOK, ListInv
<1>2. head' = <<>> /\ up' = TRUE /\ UNCHANGED <<home, cache, pc, logdata>>
  BY Zenon DEF ClearHead
<1>3. \A x \in Blocks : Recovered[x] = home[x]
  <2> SUFFICES ASSUME NEW x \in Blocks PROVE Recovered[x] = home[x]
    BY SMTT(30)
  <2>1. /\ \A i \in 1 .. Len(lh) : Recovered[lh[i]] = logdata[i]
        /\ x \notin Listed(lh) => Recovered[x] = home[x]
    <3>1. Recovered = RecoveredFrom(lh, logdata, home)
      BY <1>1 DEF Recovered, RecoveredFrom
    <3> QED BY SMTT(30), <3>1, <1>1, RecoveredIs
  <2>2. CASE x \in Listed(lh)
    <3>1. PICK i \in 1 .. Len(lh) : lh[i] = x
      BY Zenon, <2>2, <1>1, ListedIs
    <3>2. home[lh[i]] = logdata[i]
      BY Zenon, <1>1 DEF IInv, DataInv
    <3> QED BY Zenon, <3>1, <3>2, <2>1
  <2> QED BY Zenon, <2>1, <2>2
<1>4. Recovered = [x \in Blocks |-> Recovered[x]] /\ home = [x \in Blocks |-> home[x]]
  BY <1>1 DEF Recovered
<1>5. Recovered = home
  BY Zenon, <1>3, <1>4
<1>6. Recovered' = [x \in Blocks |-> home'[x]]
  BY Zenon, <1>2, ListedEmpty DEF Recovered
<1>7. Recovered' = Recovered
  BY ZenonT(60), <1>2, <1>4, <1>5, <1>6
<1>8. cache = home
  <2>1. \A x \in Blocks : cache[x] = home[x]
    BY Zenon, <1>1, NoCalls
  <2>2. cache = [x \in Blocks |-> cache[x]]
    BY Zenon, <1>1
  <2> QED BY Zenon, <2>1, <2>2, <1>4
<1>9. Volatile' = Volatile /\ Open' = Open
  BY ZenonT(60), <1>2, <1>5, <1>8 DEF Volatile, Open
<1> QED BY Zenon, <1>7, <1>9, AtomicStutter

\* The end of a commit is seen by nobody.
LEMMA CommitDoneStep ==
  ASSUME IInv, NEW p \in Procs, CommitDone(p) PROVE [Atomic!Next]_(Atomic!avars)
<1>1. UNCHANGED <<home, head, logdata>> /\ UNCHANGED <<up, cache>>
  BY Zenon DEF CommitDone
<1>2. Recovered' = Recovered /\ Volatile' = Volatile
  BY Zenon, <1>1, SameDisk DEF Volatile
<1>3. /\ pc \in [Procs -> PC] /\ pc[p] = "commit" /\ pc' = WakeupLog([pc EXCEPT ![p] = "idle"])
  BY Zenon DEF CommitDone, Set, IInv, TypeOK
<1>4. \A q \in Procs : pc'[q] = IF q = p THEN "idle" ELSE IF pc[q] = "asleep" THEN "begin" ELSE pc[q]
  BY Zenon, <1>3 DEF WakeupLog
<1>5. Open' = Open
  BY Zenon, <1>3, <1>4 DEF Open
<1> QED BY Zenon, <1>2, <1>5, AtomicStutter

\* read_head is seen by nobody.
LEMMA ReadHeadStep == ASSUME IInv, ReadHead PROVE [Atomic!Next]_(Atomic!avars)
<1>1. UNCHANGED <<home, head, logdata>> /\ UNCHANGED <<up, cache, pc>>
  BY Zenon DEF ReadHead
<1>2. Recovered' = Recovered /\ Volatile' = Volatile /\ Open' = Open
  BY Zenon, <1>1, SameDisk DEF Volatile, Open
<1> QED BY Zenon, <1>2, AtomicStutter

\* A crash loses what was not committed, and the calls under way.
LEMMA CrashStep == ASSUME Crash PROVE [Atomic!Next]_(Atomic!avars)
<1>1. UNCHANGED <<home, head, logdata>> /\ up' = FALSE /\ pc' = [p \in Procs |-> "idle"]
  BY Zenon DEF Crash
<1>2. Recovered' = Recovered
  BY Zenon, <1>1, SameDisk
<1>3. Volatile' = Recovered /\ Open' = {}
  BY Zenon, <1>1, <1>2 DEF Volatile, Open
<1>4. Atomic!Crash
  BY Zenon, <1>2, <1>3 DEF Atomic!Crash, Volatile, Open
<1> QED BY Zenon, <1>4 DEF Atomic!Next

\* Nothing changes.
LEMMA UnchangedStep == ASSUME UNCHANGED vars PROVE [Atomic!Next]_(Atomic!avars)
<1>1. UNCHANGED <<home, head, logdata>> /\ UNCHANGED <<up, cache, pc>>
  BY Zenon DEF vars
<1>2. Recovered' = Recovered /\ Volatile' = Volatile /\ Open' = Open
  BY Zenon, <1>1, SameDisk DEF Volatile, Open
<1> QED BY Zenon, <1>2, AtomicStutter

\* log.c implements a disk that changes by whole groups of completed calls, wherever
\* the machine crashes, recovery included.
THEOREM LogIsAtomic == Spec => AtomicCommit
<1>1. Init => Atomic!Init
  <2> SUFFICES ASSUME Init PROVE Atomic!Init
    OBVIOUS
  <2>1. head = <<>> /\ home \in [Blocks -> Vals] /\ up = FALSE /\ pc = [p \in Procs |-> "idle"]
    BY Zenon DEF Init
  <2>2. Recovered \in [Blocks -> Vals]
    <3>1. Recovered = [x \in Blocks |-> home[x]]
      BY Zenon, <2>1, ListedEmpty DEF Recovered
    <3> QED BY Zenon, <2>1, <3>1
  <2> QED BY Zenon, <2>1, <2>2 DEF Atomic!Init
<1>2. IInv /\ [Next]_vars => [Atomic!Next]_(Atomic!avars)
  <2> SUFFICES ASSUME IInv, [Next]_vars PROVE [Atomic!Next]_(Atomic!avars)
    OBVIOUS
  <2> DEFINE Goal == [Atomic!Next]_(Atomic!avars)
  <2>1. ASSUME NEW p \in Procs, BeginOp(p) PROVE Goal
    BY Zenon, <2>1, BeginOpStep
  <2>2. ASSUME NEW p \in Procs, InCall(p) PROVE Goal
    BY Zenon, <2>2, InCallStep
  <2>3. ASSUME NEW p \in Procs, EndOp(p) PROVE Goal
    BY Zenon, <2>3, EndOpStep
  <2>4. ASSUME NEW p \in Procs, NEW b \in Blocks, NEW v \in Vals, Modify(p, b, v) PROVE Goal
    BY Zenon, <2>4, ModifyStep
  <2>5. ASSUME Commit PROVE Goal
    BY ZenonT(60), <2>5, WriteLogStep, WriteHeadStep, InstallTransStep, ClearHeadStep, CommitDoneStep DEF Commit
  <2>6. ASSUME ReadHead PROVE Goal
    BY Zenon, <2>6, ReadHeadStep
  <2>7. ASSUME Crash PROVE Goal
    BY Zenon, <2>7, CrashStep
  <2>8. ASSUME NEW b \in Blocks, Evict(b) PROVE Goal
    BY Zenon, <2>8, EvictSame, UnchangedStep
  <2>9. ASSUME UNCHANGED vars PROVE Goal
    BY Zenon, <2>9, UnchangedStep
  <2> HIDE DEF Goal
  <2>10. Goal
    BY ZenonT(60), <2>1, <2>2, <2>3, <2>4, <2>5, <2>6, <2>7, <2>8, <2>9 DEF Next
  <2> QED BY Zenon, <2>10 DEF Goal
<1> QED BY <1>1, <1>2, Invariance, PTL DEF Spec, AtomicCommit, Atomic!Spec

=============================================================================
