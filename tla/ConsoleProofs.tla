---------------------------- MODULE ConsoleProofs ----------------------------
(***************************************************************************)
(* For any sizes of buffer, counters and screen and any load: the ring     *)
(* buffer of consoleintr and consoleread implements the lines of LineQueue,*)
(* no control key stays stuck, and the cursor stays on the screen.         *)
(***************************************************************************)
EXTENDS Console, FiniteSetTheorems, TLAPS

Inputs == [buf : [0 .. INPUT_BUF - 1 -> Char], r : 0 .. W - 1, w : 0 .. W - 1, e : 0 .. W - 1]
\* The ring: what is finished and what is edited lie behind one another, and fit.
Ring == /\ Minus(input.w, input.r) + Minus(input.e, input.w) = Minus(input.e, input.r)
        /\ Minus(input.e, input.r) <= INPUT_BUF
\* The line being edited has no newline, so ^U takes all of it.
NoNewline == \A i \in 1 .. Minus(input.e, input.w) : At(input.w + i - 1) # "nl"
BufferInv == input \in Inputs /\ Ring /\ NoNewline

Pcs == {"user", "intr", "procdump", "ilocked", "acquire", "tosleep", "asleep", "relock", "dead"}
Thread == [pc : Pcs, n : Nat, got : Nat, killed : BOOLEAN, dump : BOOLEAN]
\* A reader has got no more than it asked for.
ThreadInv == th \in [Threads -> Thread] /\ \A t \in Threads : th[t].got <= th[t].n
Screen == 0 .. ROWS * COLS - 1
Types == lock \in Threads \cup {""} /\ ilock \in Threads \cup {""} /\ pos \in Screen /\ panicked \in BOOLEAN

Codes == Keys \cup {"E0", "up", "ctl"}
\* The control codes kbdgetc has yet to read, by their places.
CtlAt(F) == {i \in 1 .. Len(F) : F[i] \in {"ctl", "up"}}
\* What the flags will be when it has read them all: an E0 is followed by its code, and the
\* last control code is a press only if a control key is down.
KbdInv ==
  /\ fifo \in [Devs -> Seq(Codes \cup Char)] /\ fifo["kbd"] \in Seq(Codes)
  /\ shift \subseteq {"CTL", "E0"}
  /\ IF fifo["kbd"] = <<>> THEN "E0" \notin shift ELSE fifo["kbd"][Len(fifo["kbd"])] # "E0"
  /\ CtlAt(fifo["kbd"]) = {} => ("CTL" \in shift => down # {})
  /\ \A i \in CtlAt(fifo["kbd"]) :
       (\A j \in CtlAt(fifo["kbd"]) : j <= i) => (fifo["kbd"][i] = "ctl" => down # {})

IInv == BufferInv /\ ThreadInv /\ Types /\ KbdInv

-----------------------------------------------------------------------------
(* Arithmetic of the ring                                                  *)

\* The counters' range is a whole number of buffers.
LEMMA Range0 ==
  /\ INPUT_BUF \in Nat /\ INPUT_BUF > 0 /\ W \in Nat /\ W > INPUT_BUF
  /\ \E c \in Nat : W = c * INPUT_BUF
<1>1. INPUT_BUF \in Nat /\ INPUT_BUF > 0 /\ W \in Nat /\ W > INPUT_BUF /\ (W % INPUT_BUF) = 0
  BY ConsoleAssumption
<1>2. W \div INPUT_BUF \in Nat /\ W = (W \div INPUT_BUF) * INPUT_BUF + (W % INPUT_BUF)
  BY <1>1
<1> QED BY <1>1, <1>2

\* Quotient and remainder.
LEMMA DivMod ==
  ASSUME NEW m \in Nat, m > 0, NEW n \in Int
  PROVE  /\ n \div m \in Int /\ n % m \in 0 .. m - 1
         /\ n = (n \div m) * m + (n % m)
  OBVIOUS

\* A product grows by m with each factor.
LEMMA NextMultiple ==
  ASSUME NEW m \in Nat, NEW p \in Int, NEW q \in Int, p < q
  PROVE  p * m + m <= q * m /\ p * m \in Int /\ q * m \in Int
<1>1. p * m + m = (p + 1) * m
  OBVIOUS
<1>2. PICK r \in Nat : q = (p + 1) + r
  <2>1. q - (p + 1) \in Nat /\ q = (p + 1) + (q - (p + 1))
    OBVIOUS
  <2> QED BY Zenon, <2>1
<1>3. q * m = (p + 1) * m + r * m /\ r * m \in Nat /\ (p + 1) * m \in Int /\ p * m \in Int
  BY <1>2
<1> QED BY <1>1, <1>3

\* The remainder is the only one.
LEMMA Remainder ==
  ASSUME NEW m \in Nat, m > 0, NEW n \in Int, NEW q \in Int, NEW y \in 0 .. m - 1, n = q * m + y
  PROVE  n % m = y
<1>1. PICK p \in Int, x \in 0 .. m - 1 : p = n \div m /\ x = n % m /\ n = p * m + x
  BY Zenon, DivMod
<1>2. CASE p = q
  BY <1>1, <1>2
<1>3. CASE p < q
  <2>1. p * m + m <= q * m /\ p * m \in Int /\ q * m \in Int
    BY Zenon, <1>1, <1>3, NextMultiple
  <2> QED BY <2>1, <1>1
<1>4. CASE q < p
  <2>1. q * m + m <= p * m /\ p * m \in Int /\ q * m \in Int
    BY Zenon, <1>1, <1>4, NextMultiple
  <2> QED BY <2>1, <1>1
<1> QED BY <1>1, <1>2, <1>3, <1>4

\* One turn of the counters, as the sums and differences here make it.
LEMMA Wraps ==
  ASSUME NEW x \in Int
  PROVE  /\ x \in 0 .. W - 1 => x % W = x
         /\ x \in W .. W + W - 1 => x % W = x - W
         /\ x \in -W .. -1 => x % W = x + W
<1>1. W \in Nat /\ W > 0
  BY Range0
<1>2. ASSUME x \in 0 .. W - 1 PROVE x % W = x
  <2>1. x = 0 * W + x
    BY <1>1
  <2> QED BY <1>1, <1>2, <2>1, Remainder
<1>3. ASSUME x \in W .. W + W - 1 PROVE x % W = x - W
  <2>1. x = 1 * W + (x - W) /\ x - W \in 0 .. W - 1
    BY <1>1, <1>3
  <2> QED BY <1>1, <2>1, Remainder
<1>4. ASSUME x \in -W .. -1 PROVE x % W = x + W
  <2>1. x = (-1) * W + (x + W) /\ x + W \in 0 .. W - 1 /\ -1 \in Int
    BY <1>1, <1>4
  <2> QED BY Zenon, <1>1, <2>1, Remainder
<1> QED BY Zenon, <1>2, <1>3, <1>4

\* The distance between two counters.
LEMMA MinusIs ==
  ASSUME NEW a \in 0 .. W - 1, NEW b \in 0 .. W - 1
  PROVE  Minus(a, b) = (IF b <= a THEN a - b ELSE a - b + W) /\ Minus(a, b) \in 0 .. W - 1
<1>1. W \in Nat /\ W > 0
  BY Range0
<1>2. a - b \in Int /\ (b <= a => a - b \in 0 .. W - 1) /\ (~(b <= a) => a - b \in -W .. -1)
  BY <1>1
<1>3. Minus(a, b) = (a - b) % W
  BY Zenon DEF Minus
<1> QED BY <1>1, <1>2, <1>3, Wraps

\* A counter moved by less than a turn.
LEMMA PlusIs ==
  ASSUME NEW a \in 0 .. W - 1, NEW k \in 0 .. W - 1
  PROVE  (a + k) % W = (IF a + k < W THEN a + k ELSE a + k - W) /\ (a + k) % W \in 0 .. W - 1
<1>1. W \in Nat /\ W > 0
  BY Range0
<1>2. a + k \in Int /\ (a + k < W => a + k \in 0 .. W - 1) /\ (~(a + k < W) => a + k \in W .. W + W - 1)
  BY <1>1
<1> QED BY <1>1, <1>2, Wraps

\* A turn of the counters is the same place in the buffer.
LEMMA SamePlace ==
  ASSUME NEW x \in Int
  PROVE  (x + W) % INPUT_BUF = x % INPUT_BUF /\ (x - W) % INPUT_BUF = x % INPUT_BUF
<1>1. PICK c \in Nat : W = c * INPUT_BUF
  BY Zenon, Range0
<1>2. PICK m \in Nat : m = INPUT_BUF /\ m > 0
  BY Zenon, Range0
<1>3. PICK q \in Int, y \in 0 .. m - 1 : y = x % m /\ x = q * m + y
  BY Zenon, <1>2, DivMod
<1>4. x + c * m = (q + c) * m + y /\ x - c * m = (q - c) * m + y
  BY <1>3
<1>5. q + c \in Int /\ q - c \in Int /\ x + c * m \in Int /\ x - c * m \in Int
  OBVIOUS
<1>6. (x + c * m) % m = y /\ (x - c * m) % m = y
  BY <1>2, <1>4, <1>5, Remainder
<1> QED BY Zenon, <1>1, <1>2, <1>3, <1>6

\* Two counters less than a buffer apart have different places.
LEMMA OtherPlace ==
  ASSUME NEW x \in Int, NEW y \in Int, x < y, y < x + INPUT_BUF
  PROVE  x % INPUT_BUF # y % INPUT_BUF
<1>1. PICK m \in Nat : m = INPUT_BUF /\ m > 0
  BY Zenon, Range0
<1>2. PICK p \in Int, u \in 0 .. m - 1 : u = x % m /\ x = p * m + u
  BY Zenon, <1>1, DivMod
<1>3. PICK q \in Int, v \in 0 .. m - 1 : v = y % m /\ y = q * m + v
  BY ZenonT(60), <1>1, DivMod
<1>4. SUFFICES ASSUME u = v PROVE FALSE
  BY Zenon, <1>1, <1>2, <1>3
<1>5. PICK P \in Int, Q \in Int : P = p * m /\ Q = q * m
  OBVIOUS
<1>6. CASE p = q
  BY <1>2, <1>3, <1>4, <1>6
<1>7. CASE p < q
  <2>1. P + m <= Q
    BY Zenon, <1>7, <1>5, NextMultiple
  <2> QED BY <2>1, <1>1, <1>2, <1>3, <1>4, <1>5
<1>8. CASE q < p
  <2>1. Q + m <= P
    BY Zenon, <1>8, <1>5, NextMultiple
  <2> QED BY <2>1, <1>1, <1>2, <1>3, <1>4, <1>5
<1> QED BY <1>6, <1>7, <1>8

-----------------------------------------------------------------------------
(* Pieces of the buffer                                                    *)

\* The characters of buffer b from counter x to counter y.
Cont(b, x, y) == [i \in 1 .. Minus(y, x) |-> b[(x + i - 1) % INPUT_BUF]]

\* Sequences that agree are equal.
LEMMA AppendIs ==
  ASSUME NEW S, NEW s \in Seq(S), NEW t \in Seq(S), NEW c \in S, Len(t) = Len(s) + 1,
         \A i \in 1 .. Len(s) : t[i] = s[i], t[Len(s) + 1] = c
  PROVE  t = Append(s, c)
  OBVIOUS

\* When a sequence is the concatenation of two.
LEMMA ConcatIs ==
  ASSUME NEW S, NEW s \in Seq(S), NEW u \in Seq(S), NEW t \in Seq(S), Len(t) = Len(s) + Len(u),
         \A i \in 1 .. Len(s) : t[i] = s[i], \A i \in 1 .. Len(u) : t[Len(s) + i] = u[i]
  PROVE  t = s \o u
  OBVIOUS

\* When a sequence is another without its last element.
LEMMA PrefixIs ==
  ASSUME NEW S, NEW s \in Seq(S), NEW t \in Seq(S), Len(s) > 0, Len(t) = Len(s) - 1,
         \A i \in 1 .. Len(t) : t[i] = s[i]
  PROVE  t = SubSeq(s, 1, Len(s) - 1)
  OBVIOUS

\* When a sequence is another without its first k elements.
LEMMA SuffixIs ==
  ASSUME NEW S, NEW s \in Seq(S), NEW t \in Seq(S), NEW k \in 1 .. Len(s), Len(t) = Len(s) - k,
         \A i \in 1 .. Len(t) : t[i] = s[k + i]
  PROVE  t = SubSeq(s, k + 1, Len(s))
  BY SMTT(30)

\* A place of the buffer.
LEMMA PlaceIs ==
  ASSUME NEW x \in Int PROVE x % INPUT_BUF \in 0 .. INPUT_BUF - 1
  BY Zenon, Range0, DivMod

\* s is the n characters of buffer b from counter x on; v has the same there.
IsPiece(s, b, x, n) ==
  s \in Seq(Char) /\ Len(s) = n /\ \A i \in 1 .. n : s[i] = b[(x + i - 1) % INPUT_BUF]
Agree(b, v, x, n) == \A i \in 1 .. n : v[(x + i - 1) % INPUT_BUF] = b[(x + i - 1) % INPUT_BUF]

\* A piece is a sequence of characters.
LEMMA ContIs ==
  ASSUME NEW b \in [0 .. INPUT_BUF - 1 -> Char], NEW x \in 0 .. W - 1, NEW y \in 0 .. W - 1
  PROVE  IsPiece(Cont(b, x, y), b, x, Minus(y, x))
<1>1. PICK n \in Nat : n = Minus(y, x)
  BY MinusIs, Range0
<1>2. \A i \in 1 .. n : x + i - 1 \in Int
  BY Range0
<1>3. \A i \in 1 .. n : b[(x + i - 1) % INPUT_BUF] \in Char
  BY Zenon, <1>2, PlaceIs
<1>4. Cont(b, x, y) = [i \in 1 .. n |-> b[(x + i - 1) % INPUT_BUF]]
  BY Zenon, <1>1 DEF Cont
<1> QED BY <1>1, <1>3, <1>4 DEF IsPiece

\* The same characters, one more, two pieces, one less, a later part.
LEMMA PieceSame ==
  ASSUME NEW b, NEW v, NEW x \in Int, NEW n \in Nat, NEW s, NEW t,
         IsPiece(s, b, x, n), IsPiece(t, v, x, n), Agree(b, v, x, n)
  PROVE  s = t
<1>1. s \in Seq(Char) /\ t \in Seq(Char) /\ Len(s) = n /\ Len(t) = n
  BY Zenon DEF IsPiece
<1>2. \A i \in 1 .. n : s[i] = t[i]
  BY Zenon DEF IsPiece, Agree
<1> QED BY ONLY <1>1, <1>2, n \in Nat

\* A piece of the buffer that is one byte longer.
LEMMA PieceAppend ==
  ASSUME NEW b, NEW v, NEW x \in Int, NEW n \in Nat, NEW s, NEW t, NEW c \in Char,
         IsPiece(s, b, x, n), IsPiece(t, v, x, n + 1), Agree(b, v, x, n), v[(x + n) % INPUT_BUF] = c
  PROVE  t = Append(s, c)
<1>1. s \in Seq(Char) /\ Len(s) = n /\ t \in Seq(Char) /\ Len(t) = n + 1
  BY Zenon DEF IsPiece
<1>2. ASSUME NEW i \in 1 .. n PROVE t[i] = s[i]
  <2>1. i \in 1 .. n + 1
    OBVIOUS
  <2> QED BY Zenon, <2>1 DEF IsPiece, Agree
<1>3. t[n + 1] = c
  <2>1. n + 1 \in 1 .. n + 1 /\ x + (n + 1) - 1 = x + n
    OBVIOUS
  <2> QED BY Zenon, <2>1 DEF IsPiece
<1> QED BY ONLY <1>1, <1>2, <1>3, c \in Char, AppendIs

\* Two pieces of the buffer that meet.
LEMMA PieceConcat ==
  ASSUME NEW v, NEW x \in Int, NEW y \in Int, NEW a \in Nat, NEW n \in Nat, NEW q, NEW t, NEW u,
         IsPiece(q, v, x, a), IsPiece(t, v, y, n), IsPiece(u, v, x, a + n),
         \A i \in 1 .. n : (x + (a + i) - 1) % INPUT_BUF = (y + i - 1) % INPUT_BUF
  PROVE  u = q \o t
<1>1. /\ q \in Seq(Char) /\ Len(q) = a /\ t \in Seq(Char) /\ Len(t) = n
      /\ u \in Seq(Char) /\ Len(u) = Len(q) + Len(t)
  BY Zenon DEF IsPiece
<1>2. ASSUME NEW i \in 1 .. Len(q) PROVE u[i] = q[i]
  <2>1. i \in 1 .. a /\ i \in 1 .. a + n
    BY <1>1
  <2> QED BY Zenon, <2>1 DEF IsPiece
<1>3. ASSUME NEW i \in 1 .. Len(t) PROVE u[Len(q) + i] = t[i]
  <2>1. i \in 1 .. n /\ a + i \in 1 .. a + n
    BY <1>1
  <2> QED BY Zenon, <2>1, <1>1 DEF IsPiece
<1> QED BY ONLY Zenon, <1>1, <1>2, <1>3, ConcatIs

\* A piece of the buffer that is one byte shorter.
LEMMA PiecePrefix ==
  ASSUME NEW b, NEW x \in Int, NEW n \in Nat, n > 0, NEW s, NEW t, IsPiece(s, b, x, n), IsPiece(t, b, x, n - 1)
  PROVE  s # <<>> /\ t = SubSeq(s, 1, Len(s) - 1)
<1>1. s \in Seq(Char) /\ Len(s) > 0 /\ t \in Seq(Char) /\ Len(t) = Len(s) - 1 /\ Len(s) = n
  BY Zenon DEF IsPiece
<1>2. ASSUME NEW i \in 1 .. Len(t) PROVE t[i] = s[i]
  <2>1. i \in 1 .. n - 1 /\ i \in 1 .. n
    BY <1>1
  <2> QED BY Zenon, <2>1 DEF IsPiece
<1>3. t = SubSeq(s, 1, Len(s) - 1)
  BY ONLY Zenon, <1>1, <1>2, PrefixIs
<1> QED BY <1>1, <1>3

\* A piece of the buffer that starts k bytes later.
LEMMA PieceSuffix ==
  ASSUME NEW b, NEW x \in Int, NEW y \in Int, NEW a \in Nat, NEW k \in 1 .. a, NEW q, NEW t,
         IsPiece(q, b, x, a), IsPiece(t, b, y, a - k),
         \A i \in 1 .. a - k : (y + i - 1) % INPUT_BUF = (x + (k + i) - 1) % INPUT_BUF
  PROVE  t = SubSeq(q, k + 1, Len(q))
<1>1. q \in Seq(Char) /\ Len(q) = a /\ t \in Seq(Char) /\ Len(t) = Len(q) - k /\ k \in 1 .. Len(q)
  BY Zenon DEF IsPiece
<1>2. ASSUME NEW i \in 1 .. Len(t) PROVE t[i] = q[k + i]
  <2>1. i \in 1 .. a - k /\ k + i \in 1 .. a
    BY <1>1
  <2> QED BY Zenon, <2>1 DEF IsPiece
<1> QED BY ONLY Zenon, <1>1, <1>2, SuffixIs

\* A counter ahead of another is at its place.
LEMMA Meets ==
  ASSUME NEW x \in 0 .. W - 1, NEW y \in 0 .. W - 1, NEW j \in Int
  PROVE  (x + Minus(y, x) + j) % INPUT_BUF = (y + j) % INPUT_BUF
<1>1. W \in Nat /\ x \in Int /\ y \in Int
  BY Range0
<1>2. CASE x <= y
  <2>1. x + Minus(y, x) + j = y + j
    BY <1>1, <1>2, MinusIs
  <2> QED BY Zenon, <2>1
<1>3. CASE ~(x <= y)
  <2>1. x + Minus(y, x) + j = (y + j) + W /\ y + j \in Int
    BY <1>1, <1>3, MinusIs
  <2> QED BY Zenon, <2>1, SamePlace
<1> QED BY Zenon, <1>2, <1>3

\* A counter moved by k is at the place of the sum.
LEMMA Moved ==
  ASSUME NEW x \in 0 .. W - 1, NEW k \in 0 .. W - 1, NEW j \in Int
  PROVE  (((x + k) % W) + j) % INPUT_BUF = (x + k + j) % INPUT_BUF
<1>1. W \in Nat /\ x \in Int /\ k \in Int
  BY Range0
<1>2. CASE x + k < W
  <2>1. (x + k) % W = x + k
    BY Zenon, <1>2, PlusIs
  <2> QED BY Zenon, <2>1
<1>3. CASE ~(x + k < W)
  <2>1. PICK z \in Int : z = x + k + j
    BY <1>1
  <2>2. (x + k) % W = x + k - W
    BY Zenon, <1>3, PlusIs
  <2>3. ((x + k) % W) + j = z - W
    BY <1>1, <2>1, <2>2
  <2> QED BY Zenon, <2>1, <2>3, SamePlace
<1> QED BY Zenon, <1>2, <1>3

-----------------------------------------------------------------------------
(* What the operations do to the counters and the pieces                   *)

\* A distance is a number.
LEMMA MinusType == \A x, y \in 0 .. W - 1 : Minus(x, y) \in Nat /\ Minus(x, y) \in Int
<1> SUFFICES ASSUME NEW x \in 0 .. W - 1, NEW y \in 0 .. W - 1 PROVE Minus(x, y) \in Nat /\ Minus(x, y) \in Int
  OBVIOUS
<1>1. W \in Nat
  BY Zenon, Range0
<1>2. Minus(x, y) \in 0 .. W - 1
  BY Zenon, MinusIs
<1> QED BY ONLY <1>1, <1>2

\* input.e advances by one.
LEMMA TypeCounters ==
  ASSUME NEW r \in 0 .. W - 1, NEW w \in 0 .. W - 1, NEW e \in 0 .. W - 1, NEW n, n = (e + 1) % W,
         Minus(w, r) + Minus(e, w) = Minus(e, r), Minus(e, r) < INPUT_BUF
  PROVE  /\ n \in 0 .. W - 1 /\ Minus(n, w) = Minus(e, w) + 1 /\ Minus(n, r) = Minus(e, r) + 1
         /\ Minus(n, n) = 0 /\ (n = (r + INPUT_BUF) % W <=> Minus(e, r) + 1 = INPUT_BUF)
<1>1. W \in Nat /\ INPUT_BUF \in Nat /\ INPUT_BUF < W /\ INPUT_BUF > 0
  BY Zenon, Range0
<1>2. 1 \in 0 .. W - 1 /\ INPUT_BUF \in 0 .. W - 1
  BY <1>1
<1>3. n \in 0 .. W - 1 /\ n = IF e + 1 < W THEN e + 1 ELSE e + 1 - W
  BY Zenon, <1>2, PlusIs
<1>4. (r + INPUT_BUF) % W = IF r + INPUT_BUF < W THEN r + INPUT_BUF ELSE r + INPUT_BUF - W
  BY Zenon, <1>2, PlusIs
<1>5. Minus(e, r) = IF r <= e THEN e - r ELSE e - r + W
  BY Zenon, MinusIs
<1>6. Minus(e, w) = IF w <= e THEN e - w ELSE e - w + W
  BY Zenon, MinusIs
<1>7. Minus(w, r) \in 0 .. W - 1 /\ Minus(n, n) = 0
  BY <1>3, MinusIs
<1>8. /\ Minus(n, r) = IF r <= n THEN n - r ELSE n - r + W
      /\ Minus(n, w) = IF w <= n THEN n - w ELSE n - w + W
  BY Zenon, <1>3, MinusIs
<1>9. Minus(n, r) = Minus(e, r) + 1
  BY SMTT(30), <1>1, <1>3, <1>5, <1>8
<1>10. Minus(n, w) = Minus(e, w) + 1
  BY SMTT(30), <1>1, <1>3, <1>5, <1>6, <1>7, <1>8
<1>11. n = (r + INPUT_BUF) % W <=> Minus(e, r) + 1 = INPUT_BUF
  BY <1>1, <1>3, <1>4, <1>5
<1> QED BY Zenon, <1>3, <1>7, <1>9, <1>10, <1>11

\* Three counters of range M, one of them moved.
LEMMA Back ==
  ASSUME NEW M \in Nat, M > 1, NEW r \in 0 .. M - 1, NEW w \in 0 .. M - 1, NEW e \in 0 .. M - 1, NEW n \in Int,
         e # w, n = (IF 1 <= e THEN e - 1 ELSE e - 1 + M), NEW z \in Nat,
         z + (IF w <= e THEN e - w ELSE e - w + M) = (IF r <= e THEN e - r ELSE e - r + M)
  PROVE  /\ (IF w <= e THEN e - w ELSE e - w + M) > 0
         /\ (IF w <= n THEN n - w ELSE n - w + M) = (IF w <= e THEN e - w ELSE e - w + M) - 1
         /\ (IF r <= n THEN n - r ELSE n - r + M) = (IF r <= e THEN e - r ELSE e - r + M) - 1
  OBVIOUS

\* Counters after the reader has taken k bytes.
LEMMA Ahead ==
  ASSUME NEW M \in Nat, NEW r \in 0 .. M - 1, NEW w \in 0 .. M - 1, NEW e \in 0 .. M - 1, NEW n \in Int, NEW k \in Nat,
         NEW l \in Nat, k <= (IF r <= w THEN w - r ELSE w - r + M), n = (IF r + k < M THEN r + k ELSE r + k - M),
         (IF r <= w THEN w - r ELSE w - r + M) + l = (IF r <= e THEN e - r ELSE e - r + M)
  PROVE  /\ (IF n <= w THEN w - n ELSE w - n + M) = (IF r <= w THEN w - r ELSE w - r + M) - k
         /\ (IF n <= e THEN e - n ELSE e - n + M) = (IF r <= e THEN e - r ELSE e - r + M) - k
  OBVIOUS

\* Sums.
LEMMA Sums ==
  ASSUME NEW a \in Nat, NEW l \in Nat, NEW d \in Nat, a + l = d
  PROVE  d + 1 = a + (l + 1) /\ l + 1 \in Nat /\ l \in 0 .. d /\ d \in 0 .. d /\ a \in 0 .. d
  OBVIOUS

\* Buffer b with c at counter e.
Stored(b, e, c) == [b EXCEPT ![e % INPUT_BUF] = c]

\* v is b with c behind the pieces from r to w and from w to e, n being e's successor.
PutBehind(v, b, r, w, e, n, c) ==
  /\ Cont(v, r, w) = Cont(b, r, w)
  /\ Cont(v, w, n) = Append(Cont(b, w, e), c)
  /\ Cont(v, r, n) = Cont(b, r, w) \o Append(Cont(b, w, e), c)
  /\ Cont(v, n, n) = <<>>

\* A character is put behind the others, whose places it does not touch.
LEMMA TypePieces ==
  ASSUME NEW r \in 0 .. W - 1, NEW w \in 0 .. W - 1, NEW e \in 0 .. W - 1, NEW n, n = (e + 1) % W,
         Minus(w, r) + Minus(e, w) = Minus(e, r), Minus(e, r) < INPUT_BUF,
         NEW b \in [0 .. INPUT_BUF - 1 -> Char], NEW c \in Char, NEW v, v = Stored(b, e, c)
  PROVE  v \in [0 .. INPUT_BUF - 1 -> Char] /\ PutBehind(v, b, r, w, e, n, c)
<1>1. W \in Nat /\ INPUT_BUF \in Nat /\ r \in Int /\ w \in Int /\ e \in Int
  BY Range0
<1>2. PICK a \in Nat, l \in Nat, d \in Nat :
        a = Minus(w, r) /\ l = Minus(e, w) /\ d = Minus(e, r) /\ a + l = d /\ d < INPUT_BUF
  <2>1. Minus(w, r) \in Nat /\ Minus(e, w) \in Nat /\ Minus(e, r) \in Nat
    BY MinusIs, Range0
  <2> QED BY Zenon, <2>1
<1>a. d + 1 = a + (l + 1) /\ l + 1 \in Nat
  <2>1. a + l = d
    BY Zenon, <1>2
  <2> QED BY ONLY <2>1, Sums
<1>3. n \in 0 .. W - 1 /\ Minus(n, w) = l + 1 /\ Minus(n, r) = d + 1 /\ Minus(n, n) = 0
  BY SMTT(30), <1>2, TypeCounters
<1>4. /\ e % INPUT_BUF = (r + d) % INPUT_BUF /\ e % INPUT_BUF = (w + l) % INPUT_BUF
      /\ e % INPUT_BUF \in 0 .. INPUT_BUF - 1
  <2>1. r + d + 0 = r + d /\ w + l + 0 = w + l /\ e + 0 = e /\ 0 \in Int
    BY <1>1
  <2>2. (r + d + 0) % INPUT_BUF = (e + 0) % INPUT_BUF /\ (w + l + 0) % INPUT_BUF = (e + 0) % INPUT_BUF
    BY ZenonT(60), <1>2, <2>1, Meets
  <2> QED BY Zenon, <2>1, <2>2, <1>1, PlaceIs
<1>5. /\ v \in [0 .. INPUT_BUF - 1 -> Char] /\ v[e % INPUT_BUF] = c
      /\ \A p \in 0 .. INPUT_BUF - 1 : p # e % INPUT_BUF => v[p] = b[p]
  BY Zenon, <1>4 DEF Stored
<1>6. ASSUME NEW x \in Int, NEW m \in 0 .. d, e % INPUT_BUF = (x + m) % INPUT_BUF PROVE Agree(b, v, x, m)
  <2>1. ASSUME NEW i \in 1 .. m PROVE v[(x + i - 1) % INPUT_BUF] = b[(x + i - 1) % INPUT_BUF]
    <3>1. x + i - 1 \in Int /\ x + m \in Int /\ x + i - 1 < x + m /\ x + m < x + i - 1 + INPUT_BUF
      BY ONLY SMTT(30), <1>1, <1>2, x \in Int, m \in 0 .. d, i \in 1 .. m, d \in Nat
    <3>2. (x + i - 1) % INPUT_BUF # (x + m) % INPUT_BUF
      BY ONLY Zenon, <3>1, OtherPlace
    <3>3. (x + i - 1) % INPUT_BUF \in 0 .. INPUT_BUF - 1
      BY ONLY Zenon, <3>1, PlaceIs
    <3> QED BY ONLY Zenon, <3>2, <3>3, <1>5, <1>6
  <2> QED BY ONLY Zenon, <2>1 DEF Agree
<1>7. Agree(b, v, r, a) /\ Agree(b, v, w, l)
  <2>1. l \in 0 .. d /\ d \in 0 .. d /\ a \in 0 .. d
    BY ONLY SMTT(30), <1>2, Sums
  <2>2. Agree(b, v, w, l)
    BY Zenon, <1>1, <2>1, <1>4, <1>6
  <2>3. Agree(b, v, r, d)
    BY Zenon, <1>1, <2>1, <1>4, <1>6
  <2>4. \A i \in 1 .. a : i \in 1 .. d
    BY ONLY <2>1
  <2>5. Agree(b, v, r, a)
    BY Zenon, <2>3, <2>4 DEF Agree
  <2> QED BY Zenon, <2>2, <2>5
<1>8. PICK q, s, y, t, u :
        /\ q = Cont(b, r, w) /\ IsPiece(q, b, r, a) /\ s = Cont(b, w, e) /\ IsPiece(s, b, w, l)
        /\ y = Cont(v, r, w) /\ IsPiece(y, v, r, a) /\ t = Cont(v, w, n) /\ IsPiece(t, v, w, l + 1)
        /\ u = Cont(v, r, n) /\ IsPiece(u, v, r, d + 1)
  <2>1. IsPiece(Cont(b, r, w), b, r, a) /\ IsPiece(Cont(b, w, e), b, w, l)
    BY ONLY ZenonT(60), ContIs, <1>2, r \in 0 .. W - 1, w \in 0 .. W - 1, e \in 0 .. W - 1, b \in [0 .. INPUT_BUF - 1 -> Char]
  <2>2. IsPiece(Cont(v, r, w), v, r, a) /\ IsPiece(Cont(v, w, n), v, w, l + 1) /\ IsPiece(Cont(v, r, n), v, r, d + 1)
    BY ONLY Zenon, ContIs, <1>2, <1>3, <1>5, r \in 0 .. W - 1, w \in 0 .. W - 1
  <2> QED BY ONLY Zenon, <2>1, <2>2
<1>10. y = q
  BY ONLY ZenonT(60), <1>1, <1>7, <1>8, a \in Nat, PieceSame
<1>12. t = Append(s, c)
  <2>1. v[(w + l) % INPUT_BUF] = c
    BY ONLY Zenon, <1>4, <1>5
  <2> QED BY ONLY ZenonT(60), <2>1, <1>1, <1>7, <1>8, l \in Nat, c \in Char, PieceAppend
<1>14. u = y \o t
  <2>1. ASSUME NEW i \in 1 .. l + 1 PROVE (r + (a + i) - 1) % INPUT_BUF = (w + i - 1) % INPUT_BUF
    <3>1. r + (a + i) - 1 = r + a + (i - 1) /\ w + i - 1 = w + (i - 1) /\ i - 1 \in Int
      BY ONLY SMTT(30), <1>1, a \in Nat, l \in Nat, i \in 1 .. l + 1
    <3>2. (r + a + (i - 1)) % INPUT_BUF = (w + (i - 1)) % INPUT_BUF
      BY ONLY ZenonT(60), <3>1, <1>2, r \in 0 .. W - 1, w \in 0 .. W - 1, Meets
    <3> QED BY ONLY Zenon, <3>1, <3>2
  <2>2. d + 1 = a + (l + 1) /\ l + 1 \in Nat
    BY Zenon, <1>a
  <2>3. PICK m \in Nat : m = l + 1
    BY Zenon, <2>2
  <2>4. IsPiece(y, v, r, a) /\ IsPiece(t, v, w, m) /\ IsPiece(u, v, r, a + m)
    BY ZenonT(60), <2>2, <2>3, <1>8
  <2>5. \A i \in 1 .. m : (r + (a + i) - 1) % INPUT_BUF = (w + i - 1) % INPUT_BUF
    BY ZenonT(60), <2>1, <2>3
  <2> QED BY ONLY ZenonT(60), <2>4, <2>5, <1>1, PieceConcat
<1>15. Cont(v, n, n) = <<>>
  BY ONLY <1>3 DEF Cont
<1> QED BY ONLY ZenonT(60), <1>5, <1>8, <1>10, <1>12, <1>14, <1>15 DEF PutBehind

\* input.e goes back by one.
LEMMA EraseStep ==
  ASSUME NEW r \in 0 .. W - 1, NEW w \in 0 .. W - 1, NEW e \in 0 .. W - 1, NEW n, n = Minus(e, 1), e # w,
         Minus(w, r) + Minus(e, w) = Minus(e, r), NEW b \in [0 .. INPUT_BUF - 1 -> Char]
  PROVE  /\ n \in 0 .. W - 1 /\ Minus(n, w) = Minus(e, w) - 1 /\ Minus(n, r) = Minus(e, r) - 1
         /\ Minus(e, w) > 0 /\ Cont(b, w, e) # <<>>
         /\ Cont(b, w, n) = SubSeq(Cont(b, w, e), 1, Len(Cont(b, w, e)) - 1)
<1>1. W \in Nat /\ W > 1
  BY Range0
<1>2. 1 \in 0 .. W - 1
  BY <1>1
<1>3. n \in 0 .. W - 1 /\ n = IF 1 <= e THEN e - 1 ELSE e - 1 + W
  BY Zenon, <1>2, MinusIs
<1>4. /\ Minus(e, r) = IF r <= e THEN e - r ELSE e - r + W
      /\ Minus(e, w) = IF w <= e THEN e - w ELSE e - w + W
      /\ Minus(n, r) = IF r <= n THEN n - r ELSE n - r + W
      /\ Minus(n, w) = IF w <= n THEN n - w ELSE n - w + W
      /\ Minus(w, r) \in 0 .. W - 1
  BY Zenon, <1>3, MinusIs
<1>5. PICK x1 \in Int, x2 \in Int, y1 \in Int, y2 \in Int, z \in Nat :
        /\ x1 = Minus(e, r) /\ x2 = Minus(e, w) /\ y1 = Minus(n, r) /\ y2 = Minus(n, w) /\ z = Minus(w, r)
        /\ x1 = (IF r <= e THEN e - r ELSE e - r + W) /\ x2 = (IF w <= e THEN e - w ELSE e - w + W)
        /\ y1 = (IF r <= n THEN n - r ELSE n - r + W) /\ y2 = (IF w <= n THEN n - w ELSE n - w + W)
        /\ z + x2 = x1
  <2>1. Minus(e, r) \in Int /\ Minus(e, w) \in Int /\ Minus(n, r) \in Int /\ Minus(n, w) \in Int /\ Minus(w, r) \in Nat
    BY <1>3, MinusIs, Range0
  <2> QED BY Zenon, <1>4, <2>1
<1>6. /\ x2 > 0 /\ y2 = x2 - 1 /\ y1 = x1 - 1
  <2>1. /\ z + (IF w <= e THEN e - w ELSE e - w + W) = (IF r <= e THEN e - r ELSE e - r + W) /\ e # w
        /\ n = (IF 1 <= e THEN e - 1 ELSE e - 1 + W) /\ n \in Int /\ W \in Nat /\ W > 1
    <3>1. n \in Int
      BY ONLY SMTT(30), <1>1, <1>3
    <3> QED BY ZenonT(60), <3>1, <1>1, <1>3, <1>5
  <2>2. /\ (IF w <= e THEN e - w ELSE e - w + W) > 0
        /\ (IF w <= n THEN n - w ELSE n - w + W) = (IF w <= e THEN e - w ELSE e - w + W) - 1
        /\ (IF r <= n THEN n - r ELSE n - r + W) = (IF r <= e THEN e - r ELSE e - r + W) - 1
    BY ONLY <2>1, Back
  <2> QED BY Zenon, <2>2, <1>5
<1>7. x2 \in Nat
  BY ONLY <1>6, x2 \in Int
<1>8. IsPiece(Cont(b, w, e), b, w, x2) /\ IsPiece(Cont(b, w, n), b, w, x2 - 1)
  BY ONLY ZenonT(60), <1>3, <1>5, <1>6, ContIs, w \in 0 .. W - 1, e \in 0 .. W - 1, b \in [0 .. INPUT_BUF - 1 -> Char]
<1>9. w \in Int
  BY <1>1
<1>10. Cont(b, w, e) # <<>> /\ Cont(b, w, n) = SubSeq(Cont(b, w, e), 1, Len(Cont(b, w, e)) - 1)
  BY ONLY SMTT(30), <1>6, <1>7, <1>8, <1>9, PiecePrefix
<1> QED BY ZenonT(60), <1>3, <1>5, <1>6, <1>10

\* input.e goes back to input.w.
LEMMA KillStep ==
  ASSUME NEW w \in 0 .. W - 1, NEW e \in 0 .. W - 1, NEW b
  PROVE  Minus(e, Minus(e, w)) = w /\ Minus(w, w) = 0 /\ Cont(b, w, w) = <<>>
<1>1. W \in Nat
  BY Zenon, Range0
<1>2. Minus(e, w) = (IF w <= e THEN e - w ELSE e - w + W) /\ Minus(e, w) \in 0 .. W - 1 /\ Minus(w, w) = 0
  BY MinusIs
<1>3. Minus(e, Minus(e, w)) = IF Minus(e, w) <= e THEN e - Minus(e, w) ELSE e - Minus(e, w) + W
  BY ZenonT(60), <1>2, MinusIs
<1>4. Cont(b, w, w) = <<>>
  BY <1>2 DEF Cont
<1> QED BY SMTT(30), <1>1, <1>2, <1>3, <1>4

\* input.r advances by k.
LEMMA ReadStep ==
  ASSUME NEW r \in 0 .. W - 1, NEW w \in 0 .. W - 1, NEW e \in 0 .. W - 1, NEW k \in 0 .. Minus(w, r),
         Minus(w, r) + Minus(e, w) = Minus(e, r), NEW n, n = (r + k) % W,
         NEW b \in [0 .. INPUT_BUF - 1 -> Char]
  PROVE  /\ n \in 0 .. W - 1 /\ Minus(w, n) = Minus(w, r) - k /\ Minus(e, n) = Minus(e, r) - k
         /\ k > 0 => Cont(b, n, w) = SubSeq(Cont(b, r, w), k + 1, Len(Cont(b, r, w)))
<1>1. W \in Nat
  BY Zenon, Range0
<1>2. /\ Minus(w, r) = (IF r <= w THEN w - r ELSE w - r + W) /\ Minus(w, r) \in 0 .. W - 1
      /\ Minus(e, r) = (IF r <= e THEN e - r ELSE e - r + W) /\ Minus(e, w) \in 0 .. W - 1
  BY Zenon, MinusIs
<1>3. k \in 0 .. W - 1
  BY <1>1, <1>2
<1>4. n \in 0 .. W - 1 /\ n = IF r + k < W THEN r + k ELSE r + k - W
  BY Zenon, <1>3, PlusIs
<1>5. /\ Minus(w, n) = IF n <= w THEN w - n ELSE w - n + W
      /\ Minus(e, n) = IF n <= e THEN e - n ELSE e - n + W
  BY Zenon, <1>4, MinusIs
<1>6. PICK a \in Nat, x \in Int, y \in Int, z \in Int, l \in Nat :
        /\ a = Minus(w, r) /\ x = Minus(e, r) /\ y = Minus(w, n) /\ z = Minus(e, n) /\ l = Minus(e, w)
        /\ a = (IF r <= w THEN w - r ELSE w - r + W) /\ x = (IF r <= e THEN e - r ELSE e - r + W)
        /\ y = (IF n <= w THEN w - n ELSE w - n + W) /\ z = (IF n <= e THEN e - n ELSE e - n + W)
        /\ a + l = x /\ k \in 0 .. a
  <2>1. Minus(e, r) \in Int /\ Minus(e, w) \in Nat /\ Minus(w, n) \in Int /\ Minus(e, n) \in Int /\ Minus(w, r) \in Nat
    <3>1. \A x \in 0 .. W - 1, y \in 0 .. W - 1 : Minus(x, y) \in Nat /\ Minus(x, y) \in Int
      BY Zenon, MinusType
    <3> QED BY Zenon, <1>4, <3>1
  <2> QED BY ZenonT(60), <1>2, <1>5, <2>1
<1>7. y = a - k /\ z = x - k
  <2>1. /\ (IF r <= w THEN w - r ELSE w - r + W) + l = (IF r <= e THEN e - r ELSE e - r + W)
        /\ k <= (IF r <= w THEN w - r ELSE w - r + W) /\ k \in Nat
        /\ n = (IF r + k < W THEN r + k ELSE r + k - W) /\ n \in Int /\ W \in Nat
    <3>1. n \in Int
      BY ONLY <1>1, <1>4
    <3>2. k <= a /\ k \in Nat
      BY ONLY SMTT(30), <1>6
    <3> QED BY ZenonT(60), <3>1, <3>2, <1>1, <1>4, <1>6
  <2>2. /\ (IF n <= w THEN w - n ELSE w - n + W) = (IF r <= w THEN w - r ELSE w - r + W) - k
        /\ (IF n <= e THEN e - n ELSE e - n + W) = (IF r <= e THEN e - r ELSE e - r + W) - k
    BY ONLY <2>1, Ahead
  <2> QED BY Zenon, <2>2, <1>6
<1>8. ASSUME k > 0 PROVE Cont(b, n, w) = SubSeq(Cont(b, r, w), k + 1, Len(Cont(b, r, w)))
  <2>1. k \in 1 .. a /\ r \in Int /\ n \in Int
    BY ONLY SMTT(30), <1>1, <1>4, <1>6, <1>8, r \in 0 .. W - 1, a \in Nat
  <2>2. IsPiece(Cont(b, r, w), b, r, a) /\ IsPiece(Cont(b, n, w), b, n, a - k)
    BY ONLY ZenonT(60), <1>4, <1>6, <1>7, ContIs, r \in 0 .. W - 1, w \in 0 .. W - 1, b \in [0 .. INPUT_BUF - 1 -> Char]
  <2>3. ASSUME NEW i \in 1 .. a - k PROVE (n + i - 1) % INPUT_BUF = (r + (k + i) - 1) % INPUT_BUF
    <3>1. n + i - 1 = n + (i - 1) /\ r + (k + i) - 1 = r + k + (i - 1) /\ i - 1 \in Int
      BY ONLY SMTT(30), <2>1, i \in 1 .. a - k, a \in Nat
    <3>2. (((r + k) % W) + (i - 1)) % INPUT_BUF = (r + k + (i - 1)) % INPUT_BUF
      BY ONLY ZenonT(60), <3>1, <1>3, r \in 0 .. W - 1, Moved
    <3> QED BY ONLY ZenonT(60), <3>1, <3>2, n = (r + k) % W
  <2> QED BY ONLY ZenonT(60), <2>1, <2>2, <2>3, a \in Nat, PieceSuffix
<1> QED BY ZenonT(60), <1>4, <1>6, <1>7, <1>8

-----------------------------------------------------------------------------
(* The cursor                                                              *)

\* A set of numbers that is not empty has a least one.
LEMMA LeastExists ==
  ASSUME NEW T, T \subseteq Nat, T # {}
  PROVE  \E n \in T : \A m \in T : n <= m
<1> DEFINE F == {1 .. n : n \in T}
           R == StrictSubsetOrdering(Nat)
<1>1. IsWellFoundedOn(R, FiniteSubsetsOf(Nat))
  BY Zenon, FS_StrictSubsetOrderingWellFounded
<1>2. \A n \in T : 1 .. n \in SUBSET Nat /\ IsFiniteSet(1 .. n)
  BY FS_Interval
<1>3. F \subseteq FiniteSubsetsOf(Nat)
  BY Zenon, <1>2 DEF FiniteSubsetsOf
<1>4. F # {}
  OBVIOUS
<1>5. PICK I \in F : \A J \in F : ~(<<J, I>> \in R)
  <2> HIDE DEF F, R
  <2> QED BY Zenon, <1>1, <1>3, <1>4, WFMin
<1>6. PICK n \in T : I = 1 .. n
  BY Zenon, <1>5
<1>7. ASSUME NEW m \in T, m < n PROVE FALSE
  <2>1. 1 .. m \in F
    OBVIOUS
  <2>2. (1 .. m) \subseteq (1 .. n) /\ 1 .. m # 1 .. n
    <3>1. m \in Nat /\ n \in Nat
      OBVIOUS
    <3>2. n \in 1 .. n /\ n \notin 1 .. m
      BY <3>1, <1>7
    <3>3. (1 .. m) \subseteq (1 .. n)
      BY <3>1, <1>7
    <3> QED BY Zenon, <3>2, <3>3
  <2>3. <<1 .. m, 1 .. n>> \in R
    BY Zenon, <1>2, <2>2 DEF StrictSubsetOrdering
  <2> QED BY Zenon, <1>5, <1>6, <2>1, <2>3
<1>8. ASSUME NEW m \in T PROVE n <= m
  <2>1. m \in Nat /\ n \in Nat /\ ~(m < n)
    BY Zenon, <1>7
  <2> QED BY <2>1
<1> QED BY Zenon, <1>8

\* cgaputc leaves the cursor on the screen.
LEMMA CursorStays ==
  ASSUME NEW p \in Screen, NEW c
  PROVE  Cgaputc(p, c) \in Screen
<1>1. PICK C \in Nat, R \in Nat : C = COLS /\ R = ROWS /\ C > 0 /\ R > 1
  BY ConsoleAssumption
<1>2. PICK A \in Nat, B \in Nat : A = R * C /\ B = (R - 1) * C /\ B + C = A /\ C <= B
  <2>1. R * C \in Nat /\ (R - 1) * C \in Nat /\ (R - 1) * C + C = R * C
    BY <1>1
  <2>2. 0 < R - 1 /\ R - 1 \in Int
    BY <1>1
  <2>3. 0 * C + C <= (R - 1) * C /\ 0 * C = 0
    BY <2>2, NextMultiple
  <2> QED BY <2>1, <2>3
<1>3. p \in Nat /\ p < A
  BY <1>1, <1>2 DEF Screen
<1>4. PICK d \in Int, y \in 0 .. C - 1 : d = p \div C /\ y = p % C /\ p = d * C + y
  BY SMTT(30), <1>1, <1>3, DivMod
<1>5. p + C - y <= A /\ p + C - y >= 0
  <2>1. d < R
    <3>1. ASSUME R <= d PROVE FALSE
      <4>1. CASE R = d
        BY SMTT(30), <4>1, <1>2, <1>3, <1>4
      <4>2. CASE R < d
        <5>1. R * C + C <= d * C /\ d * C \in Int
          BY <4>2, NextMultiple
        <5> QED BY SMTT(30), <5>1, <1>1, <1>2, <1>3, <1>4
      <4> QED BY SMTT(30), <3>1, <4>1, <4>2
    <3> QED BY <3>1
  <2>2. d * C + C <= R * C /\ d * C \in Int
    BY <2>1, NextMultiple
  <2> QED BY SMTT(30), <2>2, <1>1, <1>2, <1>3, <1>4
<1>6. PICK x \in Int : /\ 0 <= x /\ x <= A
                       /\ Cgaputc(p, c) = IF x \div C >= R - 1 THEN x - C ELSE x
  <2>1. CASE c = "nl"
    <3>0. p + C - y \in Int /\ 0 <= p + C - y /\ p + C - y <= A
      BY ONLY SMTT(30), <1>3, <1>5, C \in Nat, y \in 0 .. C - 1
    <3>1. PICK x \in Int : x = p + C - y /\ 0 <= x /\ x <= A
      BY Zenon, <3>0
    <3>2. Cgaputc(p, c) = IF x \div C >= R - 1 THEN x - C ELSE x
      BY Zenon, <1>1, <1>4, <2>1, <3>1 DEF Cgaputc, Scrolls
    <3> QED BY Zenon, <3>1, <3>2
  <2>2. CASE c = "BS"
    <3>1. PICK x \in Int : x = (IF p > 0 THEN p - 1 ELSE p) /\ 0 <= x /\ x <= A
      BY <1>3
    <3>2. Cgaputc(p, c) = IF x \div C >= R - 1 THEN x - C ELSE x
      BY Zenon, <1>1, <2>2, <3>1 DEF Cgaputc, Scrolls
    <3> QED BY Zenon, <3>1, <3>2
  <2>3. CASE c # "nl" /\ c # "BS"
    <3>1. PICK x \in Int : x = p + 1 /\ 0 <= x /\ x <= A
      BY <1>3
    <3>2. Cgaputc(p, c) = IF x \div C >= R - 1 THEN x - C ELSE x
      BY Zenon, <1>1, <2>3, <3>1 DEF Cgaputc, Scrolls
    <3> QED BY Zenon, <3>1, <3>2
  <2> QED BY Zenon, <2>1, <2>2, <2>3
<1>7. PICK f \in Int, z \in 0 .. C - 1 : f = x \div C /\ x = f * C + z
  BY <1>1, <1>6, DivMod
<1>8. CASE f >= R - 1
  <2>1. B <= x
    <3>1. CASE f = R - 1
      BY SMTT(30), <3>1, <1>2, <1>7
    <3>2. CASE R - 1 < f
      <4>1. (R - 1) * C + C <= f * C /\ f * C \in Int
        BY <3>2, NextMultiple
      <4> QED BY SMTT(30), <4>1, <1>1, <1>2, <1>7
    <3> QED BY SMTT(30), <1>8, <3>1, <3>2
  <2>2. x - C \in 0 .. A - 1
    BY SMTT(30), <1>1, <1>2, <1>6, <2>1
  <2>3. Cgaputc(p, c) = x - C
    BY Zenon, <1>6, <1>7, <1>8
  <2> QED BY Zenon, <1>1, <1>2, <2>2, <2>3 DEF Screen
<1>9. CASE ~(f >= R - 1)
  <2>1. f < R - 1 /\ R - 1 \in Int
    BY <1>9
  <2>2. f * C + C <= (R - 1) * C /\ f * C \in Int
    BY Zenon, <2>1, NextMultiple
  <2>3. x \in 0 .. A - 1
    BY SMTT(30), <1>1, <1>2, <1>6, <1>7, <2>2
  <2>4. Cgaputc(p, c) = x
    BY Zenon, <1>6, <1>7, <1>9
  <2> QED BY Zenon, <1>1, <1>2, <2>3, <2>4 DEF Screen
<1> QED BY Zenon, <1>8, <1>9

\* f gives the cursor's places as consputc puts k characters c from p on.
Puts(f, p, c, k) == f = [n \in 0 .. k |-> IF n = 0 THEN p ELSE Cgaputc(f[n - 1], c)]

\* They are on the screen.
LEMMA PutsStay ==
  ASSUME NEW p \in Screen, NEW c, NEW k \in Nat, NEW f, Puts(f, p, c, k)
  PROVE  f[k] \in Screen
<1> DEFINE T == {n \in 0 .. k : f[n] \notin Screen}
<1>1. SUFFICES ASSUME T # {} PROVE FALSE
  <2>1. k \in 0 .. k
    OBVIOUS
  <2> QED BY Zenon, <2>1
<1>2. T \subseteq Nat
  OBVIOUS
<1>3. PICK n \in T : \A m \in T : n <= m
  <2> HIDE DEF T
  <2> QED BY ONLY Zenon, <1>1, <1>2, LeastExists
<1>4. f[n] = IF n = 0 THEN p ELSE Cgaputc(f[n - 1], c)
  BY Zenon DEF Puts
<1>5. n # 0
  BY Zenon, <1>4
<1>6. n - 1 \in 0 .. k /\ ~(n <= n - 1)
  BY <1>5
<1>7. f[n - 1] \in Screen
  BY Zenon, <1>3, <1>6
<1>8. f[n] \in Screen
  BY Zenon, <1>4, <1>5, <1>7, CursorStays
<1> QED BY Zenon, <1>8

\* The places exist, for as many characters as one likes.
LEMMA PutsExist ==
  ASSUME NEW p, NEW c, NEW k \in Nat
  PROVE  \E f : Puts(f, p, c, k)
<1> DEFINE T == {n \in Nat : ~\E f : Puts(f, p, c, n)}
<1>1. SUFFICES ASSUME T # {} PROVE FALSE
  BY Zenon
<1>2. T \subseteq Nat
  OBVIOUS
<1>3. PICK n \in T : \A m \in T : n <= m
  <2> HIDE DEF T
  <2> QED BY ONLY Zenon, <1>1, <1>2, LeastExists
<1>4. n # 0
  <2>1. ASSUME n = 0 PROVE FALSE
    <3>1. Puts([i \in 0 .. 0 |-> p], p, c, 0)
      BY DEF Puts
    <3> QED BY Zenon, <2>1, <3>1
  <2> QED BY Zenon, <2>1
<1>5. n \in Nat /\ n - 1 \in Nat /\ ~(n <= n - 1)
  BY <1>4
<1>6. PICK f : Puts(f, p, c, n - 1)
  BY Zenon, <1>3, <1>5
<1> DEFINE g == [i \in 0 .. n |-> IF i < n THEN f[i] ELSE Cgaputc(f[n - 1], c)]
<1>7. ASSUME NEW i \in 0 .. n PROVE g[i] = IF i = 0 THEN p ELSE Cgaputc(g[i - 1], c)
  <2>1. CASE i = 0
    <3>1. 0 \in 0 .. n - 1 /\ 0 < n
      BY <1>5, <1>4
    <3>2. f[0] = p
      BY Zenon, <3>1, <1>6 DEF Puts
    <3> QED BY Zenon, <2>1, <3>1, <3>2
  <2>2. CASE i # 0
    <3>1. i - 1 \in 0 .. n /\ i - 1 < n
      BY <2>2, <1>5
    <3>2. g[i - 1] = f[i - 1]
      BY Zenon, <3>1
    <3>3. CASE i < n
      <4>1. i \in 0 .. n - 1
        BY <3>3, <1>5
      <4>2. f[i] = Cgaputc(f[i - 1], c)
        BY Zenon, <4>1, <2>2, <1>6 DEF Puts
      <4> QED BY ZenonT(60), <3>2, <3>3, <4>2, <2>2
    <3>4. CASE i = n
      <4>1. ~(n < n)
        BY <1>5
      <4>2. g[i] = Cgaputc(f[n - 1], c)
        BY Zenon, <3>4, <4>1
      <4> QED BY ZenonT(60), <3>2, <3>4, <4>2, <2>2
    <3>5. i < n \/ i = n
      BY <1>5
    <3> QED BY Zenon, <3>3, <3>4, <3>5
  <2> QED BY Zenon, <2>1, <2>2
<1>8. Puts(g, p, c, n)
  <2>1. g = [i \in 0 .. n |-> IF i = 0 THEN p ELSE Cgaputc(g[i - 1], c)]
    <3>1. g = [i \in 0 .. n |-> g[i]]
      BY Zenon
    <3>2. [i \in 0 .. n |-> g[i]] = [i \in 0 .. n |-> IF i = 0 THEN p ELSE Cgaputc(g[i - 1], c)]
      <4> HIDE DEF g
      <4> QED BY Zenon, <1>7
    <3> HIDE DEF g
    <3> QED BY Zenon, <3>1, <3>2
  <2> HIDE DEF g
  <2> QED BY Zenon, <2>1 DEF Puts
<1> QED BY Zenon, <1>8

\* So consputc keeps the cursor on the screen, and the panic in cgaputc is never called.
LEMMA ConsputcStays ==
  ASSUME NEW c, NEW k \in Nat, pos \in Screen, Consputc(c, k)
  PROVE  pos' \in Screen
<1> DEFINE put == CHOOSE f : f = [n \in 0 .. k |-> IF n = 0 THEN pos ELSE Cgaputc(f[n - 1], c)]
<1>1. pos' = put[k]
  BY Zenon DEF Consputc
<1>2. \E f : f = [n \in 0 .. k |-> IF n = 0 THEN pos ELSE Cgaputc(f[n - 1], c)]
  <2>1. \E f : Puts(f, pos, c, k)
    BY Zenon, PutsExist
  <2> QED BY Zenon, <2>1 DEF Puts
<1>3. put = [n \in 0 .. k |-> IF n = 0 THEN pos ELSE Cgaputc(put[n - 1], c)]
  BY Zenon, <1>2
<1> HIDE DEF put
<1>4. Puts(put, pos, c, k)
  BY Zenon, <1>3 DEF Puts
<1> QED BY Zenon, <1>1, <1>4, PutsStay

-----------------------------------------------------------------------------
(* The buffer                                                              *)

\* The pieces of input.
Q == Cont(input.buf, input.r, input.w)
Ln == Cont(input.buf, input.w, input.e)

\* The fields of input, and the mapped queue and line.
LEMMA Fields ==
  ASSUME input \in Inputs
  PROVE  /\ input.r \in 0 .. W - 1 /\ input.w \in 0 .. W - 1 /\ input.e \in 0 .. W - 1
         /\ input.buf \in [0 .. INPUT_BUF - 1 -> Char]
         /\ IsPiece(Q, input.buf, input.r, Minus(input.w, input.r))
         /\ IsPiece(Ln, input.buf, input.w, Minus(input.e, input.w))
<1>1. /\ input.r \in 0 .. W - 1 /\ input.w \in 0 .. W - 1 /\ input.e \in 0 .. W - 1
      /\ input.buf \in [0 .. INPUT_BUF - 1 -> Char]
  BY Zenon DEF Inputs
<1>2. IsPiece(Q, input.buf, input.r, Minus(input.w, input.r))
  BY Zenon, <1>1, ContIs DEF Q
<1>3. IsPiece(Ln, input.buf, input.w, Minus(input.e, input.w))
  BY Zenon, <1>1, ContIs DEF Ln
<1> QED BY Zenon, <1>1, <1>2, <1>3

\* They are what the refinement mapping takes.
LEMMA MapIs == Content(input.r, input.w) = Q /\ Content(input.w, input.e) = Ln
  BY Zenon DEF Content, Q, Ln, Cont, At

\* Nothing in s is a newline.
NoNl(s) == \A i \in 1 .. Len(s) : s[i] # "nl"

\* The edited line has no newline in it.
LEMMA LineIs ==
  ASSUME input \in Inputs
  PROVE  NoNewline <=> NoNl(Ln)
<1>1. IsPiece(Ln, input.buf, input.w, Minus(input.e, input.w))
  BY Zenon, Fields
<1>2. /\ Len(Ln) = Minus(input.e, input.w)
      /\ \A i \in 1 .. Minus(input.e, input.w) : Ln[i] = At(input.w + i - 1)
  BY Zenon, <1>1 DEF IsPiece, At
<1> QED BY Zenon, <1>2 DEF NoNewline, NoNl

\* It stays so with another character, and with one less.
LEMMA NlAppend ==
  ASSUME NEW s \in Seq(Char), NEW c \in Char, c # "nl", NoNl(s)
  PROVE  NoNl(Append(s, c))
  BY DEF NoNl

\* A line without its last byte has no new newline.
LEMMA NlPrefix ==
  ASSUME NEW s \in Seq(Char), s # <<>>, NoNl(s)
  PROVE  NoNl(SubSeq(s, 1, Len(s) - 1))
  BY DEF NoNl

\* Places counted from the other end.
LEMMA Flip ==
  ASSUME NEW w \in Int, NEW e \in Int, NEW l \in Nat, NEW j \in 1 .. l
  PROVE  /\ (l - j) + 1 \in 1 .. l /\ w + ((l - j) + 1) - 1 = w + l + (0 - j)
         /\ e - j = e + (0 - j) /\ 0 - j \in Int
  OBVIOUS

\* ^U takes the whole line.
LEMMA KillToIs ==
  ASSUME BufferInv
  PROVE  KillTo = Minus(input.e, input.w) /\ KillTo \in Nat
<1> DEFINE e == input.e
           w == input.w
           P(k) == /\ \A j \in 1 .. k : At(e - j) # "nl"
                   /\ k = Minus(e, w) \/ At(e - k - 1) = "nl"
<1>1. e \in 0 .. W - 1 /\ w \in 0 .. W - 1
  BY Zenon, Fields DEF BufferInv
<1>2. PICK l \in Nat : l = Minus(e, w)
  BY Zenon, <1>1, MinusType
<1>3. e \in Int /\ w \in Int
  BY ONLY <1>1, Range0
<1>4. ASSUME NEW j \in 1 .. l PROVE At(e - j) # "nl"
  <2>1. (l - j) + 1 \in 1 .. l /\ w + ((l - j) + 1) - 1 = w + l + (0 - j) /\ e - j = e + (0 - j) /\ 0 - j \in Int
    BY ONLY SMTT(30), <1>3, j \in 1 .. l, l \in Nat, Flip
  <2>2. At(w + ((l - j) + 1) - 1) # "nl"
    BY Zenon, <2>1, <1>2 DEF BufferInv, NoNewline
  <2>3. (w + l + (0 - j)) % INPUT_BUF = (e + (0 - j)) % INPUT_BUF
    BY ONLY ZenonT(60), <1>1, <1>2, <2>1, Meets
  <2> QED BY ONLY ZenonT(60), <2>1, <2>2, <2>3 DEF At
<1>5. l \in 0 .. l /\ P(l)
  <2>1. l \in 0 .. l
    BY ONLY l \in Nat
  <2> QED BY Zenon, <2>1, <1>2, <1>4
<1>6. KillTo = CHOOSE k \in 0 .. l : P(k)
  BY Zenon, <1>2 DEF KillTo
<1>7. KillTo \in 0 .. l /\ P(KillTo)
  <2> HIDE DEF P
  <2> QED BY Zenon, <1>5, <1>6
<1>8. ASSUME KillTo # l PROVE FALSE
  <2>1. PICK k \in 0 .. l : k = KillTo
    BY Zenon, <1>7
  <2>2. k + 1 \in 1 .. l /\ e - k - 1 = e - (k + 1)
    BY ONLY SMTT(30), <1>3, <1>8, <2>1, l \in Nat
  <2>3. At(e - k - 1) = "nl"
    BY ZenonT(60), <1>2, <1>7, <1>8, <2>1
  <2> QED BY ONLY Zenon, <1>4, <2>2, <2>3
<1> QED BY Zenon, <1>2, <1>8

\* What a read takes.
LEMMA TakesIs ==
  ASSUME input \in Inputs, NEW n \in Nat
  PROVE  /\ Takes(n) \in 0 .. n /\ Takes(n) <= Avail
         /\ \A j \in 1 .. Takes(n) - 1 : ~Ends(At(input.r + j - 1))
<1>1. PICK a \in Nat : a = Avail
  BY Zenon, Fields, MinusType DEF Avail
<1> DEFINE Stop(k) == k = n \/ k = a \/ (k > 0 /\ Ends(At(input.r + k - 1)))
           P(k) == /\ k <= a /\ \A j \in 1 .. k - 1 : ~Ends(At(input.r + j - 1))
                   /\ Stop(k)
           T == {k \in Nat : Stop(k)}
<1>2. T \subseteq Nat /\ T # {} /\ n \in T /\ a \in T
  BY Zenon
<1>3. PICK k \in T : \A m \in T : k <= m
  <2> HIDE DEF T
  <2> QED BY ONLY Zenon, <1>2, LeastExists
<1>4. k \in 0 .. n /\ k <= a /\ k \in Nat
  <2>1. k <= n /\ k <= a /\ k \in Nat
    BY Zenon, <1>2, <1>3
  <2> QED BY ONLY <2>1, n \in Nat
<1>5. ASSUME NEW j \in 1 .. k - 1 PROVE ~Ends(At(input.r + j - 1))
  <2>1. j \in Nat /\ j > 0 /\ ~(k <= j)
    BY ONLY <1>4, j \in 1 .. k - 1
  <2>2. j \notin T
    BY Zenon, <1>3, <2>1
  <2> QED BY Zenon, <2>1, <2>2
<1>6. P(k)
  BY ZenonT(60), <1>3, <1>4, <1>5
<1>7. Takes(n) = CHOOSE i \in 0 .. n : P(i)
  BY Zenon, <1>1 DEF Takes
<1>8. Takes(n) \in 0 .. n /\ P(Takes(n))
  <2> HIDE DEF P
  <2> QED BY ZenonT(60), <1>4, <1>6, <1>7
<1> QED BY Zenon, <1>1, <1>8

-----------------------------------------------------------------------------
(* What happens to the buffer                                              *)

\* Where input is left alone.
LEMMA BufferSame ==
  ASSUME BufferInv, input' = input
  PROVE  BufferInv' /\ UNCHANGED <<Content(input.r, input.w), Content(input.w, input.e)>>
  BY Zenon DEF BufferInv, Inputs, Ring, NoNewline, Minus, At, Content

\* A character that is finished or stays in the line.
LEMMA BufferType ==
  ASSUME BufferInv, HasRoom, NEW c \in Char, NEW n, n = (input.e + 1) % W, NEW commit \in BOOLEAN,
         commit <=> (c \in {"nl", "^D"} \/ n = (input.r + INPUT_BUF) % W),
         input' = [input EXCEPT !.buf[input.e % INPUT_BUF] = c, !.e = n, !.w = IF commit THEN n ELSE @]
  PROVE  BufferInv' /\ Lines!Type(c)
<1>1. input \in Inputs /\ Ring /\ NoNewline
  BY Zenon DEF BufferInv
<1>2. PICK r \in 0 .. W - 1, w \in 0 .. W - 1, e \in 0 .. W - 1, b \in [0 .. INPUT_BUF - 1 -> Char] :
        /\ input.r = r /\ input.w = w /\ input.e = e /\ input.buf = b
        /\ Q = Cont(b, r, w) /\ Ln = Cont(b, w, e)
  BY Zenon, <1>1, Fields DEF Q, Ln
<1>3. PICK v : v = Stored(b, e, c)
  BY Zenon
<1>4. /\ input'.r = r /\ input'.e = n /\ input'.buf = v /\ input'.w = IF commit THEN n ELSE w
      /\ DOMAIN input' = {"buf", "r", "w", "e"}
      /\ input' = [buf |-> input'.buf, r |-> input'.r, w |-> input'.w, e |-> input'.e]
  BY ONLY ZenonT(60), <1>1, <1>2, <1>3,
          input' = [input EXCEPT !.buf[input.e % INPUT_BUF] = c, !.e = n, !.w = IF commit THEN n ELSE @]
     DEF Inputs, Stored
<1>5. Minus(w, r) + Minus(e, w) = Minus(e, r) /\ Minus(e, r) < INPUT_BUF /\ n = (e + 1) % W
  BY ZenonT(60), <1>1, <1>2 DEF Ring, HasRoom
<1>6. /\ n \in 0 .. W - 1 /\ Minus(n, w) = Minus(e, w) + 1 /\ Minus(n, r) = Minus(e, r) + 1
      /\ Minus(n, n) = 0 /\ (n = (r + INPUT_BUF) % W <=> Minus(e, r) + 1 = INPUT_BUF)
  BY ONLY <1>5, TypeCounters
<1>7. /\ v \in [0 .. INPUT_BUF - 1 -> Char]
      /\ Cont(v, r, w) = Cont(b, r, w)
      /\ Cont(v, w, n) = Append(Cont(b, w, e), c)
      /\ Cont(v, r, n) = Cont(b, r, w) \o Append(Cont(b, w, e), c)
      /\ Cont(v, n, n) = <<>>
  <2>1. v \in [0 .. INPUT_BUF - 1 -> Char] /\ PutBehind(v, b, r, w, e, n, c)
    BY ONLY ZenonT(60), <1>3, <1>5, c \in Char, TypePieces
  <2> QED BY Zenon, <2>1 DEF PutBehind
<1>8. input' \in Inputs
  BY ONLY ZenonT(60), <1>4, <1>6, <1>7, r \in 0 .. W - 1, w \in 0 .. W - 1 DEF Inputs
<1>9. PICK a \in Nat, l \in Nat, d \in Nat :
        a = Minus(w, r) /\ l = Minus(e, w) /\ d = Minus(e, r) /\ a + l = d /\ d < INPUT_BUF
  <2>1. Minus(w, r) \in Nat /\ Minus(e, w) \in Nat /\ Minus(e, r) \in Nat
    BY Zenon, MinusType
  <2> QED BY Zenon, <2>1, <1>5
<1>10. Len(Q) = a /\ Len(Ln) = l /\ Q \in Seq(Char) /\ Ln \in Seq(Char)
  BY ZenonT(60), <1>1, <1>2, <1>9, Fields DEF IsPiece
<1>11. INPUT_BUF \in Nat
  BY Zenon, Range0
<1>12. a + (l + 1) = d + 1 /\ (d + 1) + 0 = d + 1 /\ d + 1 <= INPUT_BUF /\ a + l < INPUT_BUF
       /\ (d + 1 = INPUT_BUF <=> a + l = INPUT_BUF - 1)
  <2>1. a + l = d /\ d < INPUT_BUF
    BY Zenon, <1>9
  <2> QED BY ONLY SMTT(30), <2>1, <1>11, a \in Nat, l \in Nat, d \in Nat
<1>13. commit <=> Lines!Ends(c) \/ Len(Q) + Len(Ln) = INPUT_BUF - 1
  BY ZenonT(60), <1>2, <1>6, <1>9, <1>10, <1>12 DEF Lines!Ends
<1>14. /\ Content(input.r, input.w) = Q /\ Content(input.w, input.e) = Ln
       /\ Content(input.r, input.w)' = Q' /\ Content(input.w, input.e)' = Ln'
  <2>1. Content(input.r, input.w) = Q /\ Content(input.w, input.e) = Ln
    BY Zenon, MapIs
  <2>2. (Content(input.r, input.w) = Q /\ Content(input.w, input.e) = Ln)'
    BY MapIs, PTL
  <2> QED BY Zenon, <2>1, <2>2
<1>15. Q' = Cont(v, r, input'.w) /\ Ln' = Cont(v, input'.w, n)
  BY Zenon, <1>4 DEF Q, Ln
<1>16. CASE commit
  <2>1. input'.w = n
    BY Zenon, <1>4, <1>16
  <2>2. Q' = Q \o Append(Ln, c) /\ Ln' = <<>>
    BY ZenonT(60), <1>2, <1>7, <1>15, <2>1
  <2>3. Ring'
    <3>1. Minus(n, r) + Minus(n, n) = Minus(n, r) /\ Minus(n, r) <= INPUT_BUF
      BY ZenonT(60), <1>6, <1>9, <1>12
    <3> QED BY ZenonT(60), <3>1, <1>4, <2>1 DEF Ring, Minus
  <2>4. NoNewline'
    <3>1. Minus(input.e, input.w)' = 0
      BY ZenonT(60), <1>4, <1>6, <2>1 DEF Minus
    <3> QED BY ONLY <3>1 DEF NoNewline
  <2> QED BY ZenonT(60), <1>8, <1>10, <1>12, <1>13, <1>14, <1>16, <2>2, <2>3, <2>4 DEF BufferInv, Lines!Type
<1>17. CASE ~commit
  <2>1. input'.w = w
    BY Zenon, <1>4, <1>17
  <2>2. Q' = Q /\ Ln' = Append(Ln, c)
    BY ZenonT(60), <1>2, <1>7, <1>15, <2>1
  <2>3. Ring'
    BY ZenonT(60), <1>4, <1>6, <1>9, <1>12, <2>1 DEF Ring, Minus
  <2>4. NoNewline'
    <3>1. NoNl(Ln)
      BY Zenon, <1>1, LineIs
    <3>2. c # "nl"
      BY Zenon, <1>17
    <3>3. NoNl(Append(Ln, c))
      BY ZenonT(60), <1>10, <3>1, <3>2, NlAppend
    <3>4. NoNl(Ln)'
      BY Zenon, <3>3, <2>2 DEF NoNl
    <3>5. (input \in Inputs => (NoNewline <=> NoNl(Ln)))'
      BY LineIs, PTL
    <3> QED BY ZenonT(60), <3>4, <3>5, <1>8 DEF Inputs
  <2> QED BY ZenonT(60), <1>8, <1>10, <1>12, <1>13, <1>14, <1>17, <2>2, <2>3, <2>4 DEF BufferInv, Lines!Type
<1> QED BY Zenon, <1>16, <1>17

\* ^H.
LEMMA BufferErase ==
  ASSUME BufferInv, input' = [input EXCEPT !.e = IF @ # input.w THEN Minus(@, 1) ELSE @]
  PROVE  BufferInv' /\ (Lines!Erase \/ UNCHANGED <<Content(input.r, input.w), Content(input.w, input.e)>>)
<1>1. input \in Inputs /\ Ring /\ NoNewline
  BY Zenon DEF BufferInv
<1>2. PICK r \in 0 .. W - 1, w \in 0 .. W - 1, e \in 0 .. W - 1, b \in [0 .. INPUT_BUF - 1 -> Char] :
        /\ input.r = r /\ input.w = w /\ input.e = e /\ input.buf = b
        /\ Q = Cont(b, r, w) /\ Ln = Cont(b, w, e)
  BY Zenon, <1>1, Fields DEF Q, Ln
<1>3. CASE e = w
  <2>1. input' = input
    BY Zenon, <1>1, <1>2, <1>3 DEF Inputs
  <2> QED BY Zenon, <2>1, BufferSame
<1>4. CASE e # w
  <2>1. PICK n : n = Minus(e, 1)
    BY Zenon
  <2>2. /\ input'.r = r /\ input'.e = n /\ input'.buf = b /\ input'.w = w
        /\ input' = [buf |-> input'.buf, r |-> input'.r, w |-> input'.w, e |-> input'.e]
    BY ONLY ZenonT(60), <1>1, <1>2, <1>4, <2>1, input' = [input EXCEPT !.e = IF @ # input.w THEN Minus(@, 1) ELSE @] DEF Inputs
  <2>3. Minus(w, r) + Minus(e, w) = Minus(e, r) /\ Minus(e, r) <= INPUT_BUF
    BY ZenonT(60), <1>1, <1>2 DEF Ring
  <2>4. /\ n \in 0 .. W - 1 /\ Minus(n, w) = Minus(e, w) - 1 /\ Minus(n, r) = Minus(e, r) - 1
        /\ Minus(e, w) > 0 /\ Cont(b, w, e) # <<>>
        /\ Cont(b, w, n) = SubSeq(Cont(b, w, e), 1, Len(Cont(b, w, e)) - 1)
    BY ONLY SMTT(30), <2>1, <2>3, <1>4, EraseStep
  <2>5. input' \in Inputs
    BY ONLY ZenonT(60), <2>2, <2>4, r \in 0 .. W - 1, w \in 0 .. W - 1, b \in [0 .. INPUT_BUF - 1 -> Char] DEF Inputs
  <2>6. Ring'
    <3>1. Minus(w, r) \in Nat /\ Minus(e, w) \in Nat /\ Minus(e, r) \in Nat
      BY Zenon, MinusType
    <3>2. PICK a \in Nat, l \in Nat, d \in Nat : a = Minus(w, r) /\ l = Minus(e, w) /\ d = Minus(e, r)
      BY Zenon, <3>1
    <3>3. a + l = d /\ d <= INPUT_BUF /\ INPUT_BUF \in Nat
      BY ZenonT(60), <3>2, <2>3, Range0
    <3>4. a + (l - 1) = d - 1 /\ d - 1 <= INPUT_BUF
      BY ONLY SMTT(30), <3>3, a \in Nat, l \in Nat, d \in Nat
    <3>5. Minus(w, r) + Minus(n, w) = Minus(n, r) /\ Minus(n, r) <= INPUT_BUF
      BY ZenonT(60), <3>2, <3>4, <2>4
    <3> QED BY Zenon, <3>5, <2>2 DEF Ring, Minus
  <2>7. Q' = Q /\ Ln # <<>> /\ Ln' = SubSeq(Ln, 1, Len(Ln) - 1)
    BY ZenonT(60), <1>2, <2>2, <2>4 DEF Q, Ln
  <2>8. NoNewline'
    <3>1. NoNl(Ln) /\ Ln \in Seq(Char)
      BY ZenonT(60), <1>1, LineIs, Fields DEF IsPiece
    <3>2. NoNl(SubSeq(Ln, 1, Len(Ln) - 1))
      BY ZenonT(60), <3>1, <2>7, NlPrefix
    <3>3. NoNl(Ln)'
      BY Zenon, <3>2, <2>7 DEF NoNl
    <3>4. (input \in Inputs => (NoNewline <=> NoNl(Ln)))'
      BY LineIs, PTL
    <3> QED BY ZenonT(60), <3>3, <3>4, <2>5 DEF Inputs
  <2>9. /\ Content(input.r, input.w) = Q /\ Content(input.w, input.e) = Ln
        /\ Content(input.r, input.w)' = Q' /\ Content(input.w, input.e)' = Ln'
    <3>1. Content(input.r, input.w) = Q /\ Content(input.w, input.e) = Ln
      BY Zenon, MapIs
    <3>2. (Content(input.r, input.w) = Q /\ Content(input.w, input.e) = Ln)'
      BY MapIs, PTL
    <3> QED BY Zenon, <3>1, <3>2
  <2> QED BY ZenonT(60), <2>5, <2>6, <2>7, <2>8, <2>9 DEF BufferInv, Lines!Erase
<1> QED BY Zenon, <1>3, <1>4

\* ^U.
LEMMA BufferKill ==
  ASSUME BufferInv, input' = [input EXCEPT !.e = Minus(@, KillTo)]
  PROVE  BufferInv' /\ Lines!KillLine
<1>1. input \in Inputs /\ Ring /\ NoNewline
  BY Zenon DEF BufferInv
<1>2. PICK r \in 0 .. W - 1, w \in 0 .. W - 1, e \in 0 .. W - 1, b \in [0 .. INPUT_BUF - 1 -> Char] :
        /\ input.r = r /\ input.w = w /\ input.e = e /\ input.buf = b
        /\ Q = Cont(b, r, w) /\ Ln = Cont(b, w, e)
  BY ZenonT(60), <1>1, Fields DEF Q, Ln
<1>3. Minus(e, KillTo) = w /\ Minus(w, w) = 0 /\ Cont(b, w, w) = <<>>
  <2>1. KillTo = Minus(e, w)
    BY Zenon, <1>2, KillToIs
  <2>2. Minus(e, Minus(e, w)) = w /\ Minus(w, w) = 0 /\ Cont(b, w, w) = <<>>
    BY Zenon, KillStep
  <2> QED BY ZenonT(60), <2>1, <2>2
<1>4. /\ input'.r = r /\ input'.e = w /\ input'.buf = b /\ input'.w = w
      /\ input' = [buf |-> input'.buf, r |-> input'.r, w |-> input'.w, e |-> input'.e]
  BY ONLY ZenonT(60), <1>1, <1>2, <1>3, input' = [input EXCEPT !.e = Minus(@, KillTo)] DEF Inputs
<1>5. input' \in Inputs
  BY ONLY ZenonT(60), <1>4, r \in 0 .. W - 1, w \in 0 .. W - 1, b \in [0 .. INPUT_BUF - 1 -> Char] DEF Inputs
<1>6. Ring'
  <2>1. Minus(w, r) \in Nat /\ Minus(e, w) \in Nat /\ INPUT_BUF \in Nat
    BY Zenon, MinusType, Range0
  <2>2. PICK a \in Nat, l \in Nat : a = Minus(w, r) /\ l = Minus(e, w) /\ a + l <= INPUT_BUF
    BY ZenonT(60), <1>1, <1>2, <2>1 DEF Ring
  <2>3. a + 0 = a /\ a <= INPUT_BUF
    BY ONLY SMTT(30), <2>1, <2>2
  <2>4. Minus(w, r) + Minus(w, w) = Minus(w, r) /\ Minus(w, r) <= INPUT_BUF
    BY Zenon, <2>2, <2>3, <1>3
  <2> QED BY ZenonT(60), <2>4, <1>4 DEF Ring, Minus
<1>7. Q' = Q /\ Ln' = <<>>
  BY Zenon, <1>2, <1>3, <1>4 DEF Q, Ln
<1>8. NoNewline'
  <2>1. Minus(input.e, input.w)' = 0
    BY Zenon, <1>3, <1>4 DEF Minus
  <2> QED BY ONLY <2>1 DEF NoNewline
<1>9. /\ Content(input.r, input.w) = Q /\ Content(input.w, input.e) = Ln
      /\ Content(input.r, input.w)' = Q' /\ Content(input.w, input.e)' = Ln'
  <2>1. Content(input.r, input.w) = Q /\ Content(input.w, input.e) = Ln
    BY Zenon, MapIs
  <2>2. (Content(input.r, input.w) = Q /\ Content(input.w, input.e) = Ln)'
    BY MapIs, PTL
  <2> QED BY Zenon, <2>1, <2>2
<1> QED BY ZenonT(60), <1>5, <1>6, <1>7, <1>8, <1>9 DEF BufferInv, Lines!KillLine

\* What a read takes off the queue ends at most one line, and a ^D it keeps is alone.
LEMMA PutBackIs ==
  ASSUME input \in Inputs, NEW q, NEW n \in Nat
  PROVE  /\ PutBack(q, Takes(n)) \in 0 .. Takes(n) /\ PutBack(q, Takes(n)) <= Avail
         /\ \A j \in 1 .. PutBack(q, Takes(n)) - 1 : ~Ends(At(input.r + j - 1))
         /\ PutBack(q, Takes(n)) > 0 /\ At(input.r + PutBack(q, Takes(n)) - 1) = "^D" => PutBack(q, Takes(n)) = 1
<1>1. PICK k \in Nat : k = Takes(n) /\ k <= Avail /\ \A j \in 1 .. k - 1 : ~Ends(At(input.r + j - 1))
  <2>1. Takes(n) \in 0 .. n /\ Takes(n) <= Avail /\ \A j \in 1 .. Takes(n) - 1 : ~Ends(At(input.r + j - 1))
    BY Zenon, TakesIs
  <2>2. Takes(n) \in Nat
    BY ONLY <2>1, n \in Nat
  <2> QED BY Zenon, <2>1, <2>2
<1>2. PICK a \in Nat : a = Avail
  BY Zenon, Fields, MinusType DEF Avail
<1>3. CASE k > 0 /\ At(input.r + k - 1) = "^D" /\ (k > 1 \/ th[q].got > 0)
  <2>1. PutBack(q, Takes(n)) = k - 1
    BY ZenonT(60), <1>1, <1>3 DEF PutBack
  <2>2. k - 1 \in 0 .. k /\ k - 1 <= a /\ (\A j \in 1 .. (k - 1) - 1 : j \in 1 .. k - 1)
        /\ (k - 1 > 0 => k - 1 \in 1 .. k - 1)
    BY ONLY SMTT(30), <1>1, <1>2, <1>3
  <2>3. k - 1 > 0 => At(input.r + (k - 1) - 1) # "^D"
    BY Zenon, <2>2, <1>1 DEF Ends
  <2> QED BY ZenonT(60), <1>1, <1>2, <2>1, <2>2, <2>3
<1>4. CASE ~(k > 0 /\ At(input.r + k - 1) = "^D" /\ (k > 1 \/ th[q].got > 0))
  <2>1. PutBack(q, Takes(n)) = k
    BY Zenon, <1>1, <1>4 DEF PutBack
  <2>2. k \in 0 .. k /\ (k > 0 => k = 1 \/ k > 1)
    BY ONLY k \in Nat
  <2> QED BY ZenonT(60), <1>1, <1>4, <2>1, <2>2
<1> QED BY Zenon, <1>3, <1>4

\* consoleread.
LEMMA BufferRead ==
  ASSUME BufferInv, NEW q, NEW n \in Nat, input' = [input EXCEPT !.r = (@ + PutBack(q, Takes(n))) % W]
  PROVE  /\ BufferInv'
         /\ \/ \E k \in 1 .. Len(Content(input.r, input.w)) : Lines!Read(k)
            \/ UNCHANGED <<Content(input.r, input.w), Content(input.w, input.e)>>
<1>1. input \in Inputs /\ Ring /\ NoNewline
  BY Zenon DEF BufferInv
<1>2. PICK r \in 0 .. W - 1, w \in 0 .. W - 1, e \in 0 .. W - 1, b \in [0 .. INPUT_BUF - 1 -> Char] :
        /\ input.r = r /\ input.w = w /\ input.e = e /\ input.buf = b
        /\ Q = Cont(b, r, w) /\ Ln = Cont(b, w, e)
  BY Zenon, <1>1, Fields DEF Q, Ln
<1>3. PICK a \in Nat, l \in Nat, d \in Nat :
        a = Minus(w, r) /\ l = Minus(e, w) /\ d = Minus(e, r) /\ a + l = d /\ d <= INPUT_BUF /\ a = Avail
  <2>1. Minus(w, r) \in Nat /\ Minus(e, w) \in Nat /\ Minus(e, r) \in Nat
    BY Zenon, MinusType
  <2>2. Minus(w, r) + Minus(e, w) = Minus(e, r) /\ Minus(e, r) <= INPUT_BUF /\ Minus(w, r) = Avail
    BY Zenon, <1>1, <1>2 DEF Ring, Avail
  <2> QED BY Zenon, <2>1, <2>2
<1>4. PICK k \in 0 .. a :
        /\ k = PutBack(q, Takes(n)) /\ \A j \in 1 .. k - 1 : ~Ends(At(r + j - 1))
        /\ k > 0 /\ At(r + k - 1) = "^D" => k = 1
  <2>1. PICK m : m = PutBack(q, Takes(n))
    BY Zenon
  <2>2. /\ m \in 0 .. Takes(n) /\ m <= Avail /\ \A j \in 1 .. m - 1 : ~Ends(At(r + j - 1))
        /\ m > 0 /\ At(r + m - 1) = "^D" => m = 1
    BY ZenonT(60), <1>1, <1>2, <2>1, PutBackIs
  <2>3. Takes(n) \in 0 .. n
    BY ZenonT(60), <1>1, TakesIs
  <2>4. m \in 0 .. a
    BY ONLY SMTT(30), <1>3, <2>2, <2>3, n \in Nat, a \in Nat
  <2> QED BY ZenonT(60), <2>1, <2>2, <2>4
<1>5. PICK m : m = (r + k) % W
  BY Zenon
<1>6. /\ m \in 0 .. W - 1 /\ Minus(w, m) = a - k /\ Minus(e, m) = d - k
      /\ k > 0 => Cont(b, m, w) = SubSeq(Cont(b, r, w), k + 1, Len(Cont(b, r, w)))
  <2>1. k \in 0 .. Minus(w, r) /\ Minus(w, r) + Minus(e, w) = Minus(e, r)
    BY ZenonT(60), <1>3
  <2>2. /\ m \in 0 .. W - 1 /\ Minus(w, m) = Minus(w, r) - k /\ Minus(e, m) = Minus(e, r) - k
        /\ k > 0 => Cont(b, m, w) = SubSeq(Cont(b, r, w), k + 1, Len(Cont(b, r, w)))
    BY ONLY SMTT(30), <1>5, <2>1, ReadStep
  <2> QED BY Zenon, <1>3, <2>2
<1>7. /\ input'.r = m /\ input'.e = e /\ input'.buf = b /\ input'.w = w
      /\ input' = [buf |-> input'.buf, r |-> input'.r, w |-> input'.w, e |-> input'.e]
  BY ONLY ZenonT(60), <1>1, <1>2, <1>4, <1>5, input' = [input EXCEPT !.r = (@ + PutBack(q, Takes(n))) % W] DEF Inputs
<1>8. CASE k = 0
  <2>1. m = r
    <3>1. m = r % W /\ W \in Nat
      BY ONLY SMTT(30), <1>5, <1>8, Range0, r \in 0 .. W - 1
    <3> QED BY ONLY SMTT(30), <3>1, r \in 0 .. W - 1, Wraps
  <2>2. input' = input
    BY ONLY ZenonT(60), <1>1, <1>2, <1>7, <2>1 DEF Inputs
  <2> QED BY ZenonT(60), <2>2, BufferSame
<1>9. CASE k # 0
  <2>1. k > 0 /\ k \in 1 .. a
    BY ONLY SMTT(30), <1>9, k \in 0 .. a, a \in Nat
  <2>2. input' \in Inputs
    BY ONLY ZenonT(60), <1>6, <1>7, e \in 0 .. W - 1, w \in 0 .. W - 1, b \in [0 .. INPUT_BUF - 1 -> Char] DEF Inputs
  <2>3. Ring'
    <3>1. INPUT_BUF \in Nat /\ a + l = d /\ d <= INPUT_BUF
      BY ZenonT(60), <1>3, Range0
    <3>2. (a - k) + l = d - k /\ d - k <= INPUT_BUF
      BY ONLY SMTT(30), <3>1, a \in Nat, l \in Nat, d \in Nat, k \in 0 .. a
    <3>3. Minus(w, m) + Minus(e, w) = Minus(e, m) /\ Minus(e, m) <= INPUT_BUF
      BY ZenonT(60), <3>2, <1>3, <1>6
    <3> QED BY ZenonT(60), <3>3, <1>7 DEF Ring, Minus
  <2>4. NoNewline'
    BY ZenonT(60), <1>1, <1>2, <1>7 DEF NoNewline, Minus, At
  <2>5. Q' = SubSeq(Q, k + 1, Len(Q)) /\ Ln' = Ln
    BY ZenonT(60), <1>2, <1>6, <1>7, <2>1 DEF Q, Ln
  <2>6. Len(Q) = a /\ \A i \in 1 .. a : Q[i] = At(r + i - 1)
    BY ZenonT(60), <1>1, <1>2, <1>3, Fields DEF IsPiece, At
  <2>7. /\ \A i \in 1 .. k - 1 : i \in 1 .. a
        /\ k \in 1 .. a
    BY ONLY SMTT(30), <2>1, a \in Nat
  <2>8. (\A i \in 1 .. k - 1 : ~Ends(Q[i])) /\ (Q[k] = "^D" => k = 1)
    BY ZenonT(60), <1>4, <2>1, <2>6, <2>7
  <2>9. /\ Content(input.r, input.w) = Q /\ Content(input.w, input.e) = Ln
        /\ Content(input.r, input.w)' = Q' /\ Content(input.w, input.e)' = Ln'
    <3>1. Content(input.r, input.w) = Q /\ Content(input.w, input.e) = Ln
      BY Zenon, MapIs
    <3>2. (Content(input.r, input.w) = Q /\ Content(input.w, input.e) = Ln)'
      BY MapIs, PTL
    <3> QED BY Zenon, <3>1, <3>2
  <2>10. Lines!Read(k)
    BY ZenonT(60), <2>5, <2>8, <2>9 DEF Lines!Read, Lines!Ends, Ends
  <2> QED BY ZenonT(60), <1>1, <2>2, <2>3, <2>4, <2>6, <2>7, <2>9, <2>10 DEF BufferInv
<1> QED BY Zenon, <1>8, <1>9

-----------------------------------------------------------------------------
(* The keyboard                                                            *)

\* What KbdInv says of the codes F to come, with the flags s and the keys D held down.
KbdFine(F, s, D) ==
  /\ F \in Seq(Codes) /\ s \subseteq {"CTL", "E0"}
  /\ IF F = <<>> THEN "E0" \notin s ELSE F[Len(F)] # "E0"
  /\ CtlAt(F) = {} => ("CTL" \in s => D # {})
  /\ \A i \in CtlAt(F) : (\A j \in CtlAt(F) : j <= i) => (F[i] = "ctl" => D # {})

\* The keyboard invariant, as a predicate of the codes not yet read.
LEMMA KbdIs == KbdInv <=> fifo \in [Devs -> Seq(Codes \cup Char)] /\ KbdFine(fifo["kbd"], shift, down)
  BY Zenon DEF KbdInv, KbdFine

\* A sequence and one more element, or one less in front.
LEMMA AppendTo ==
  ASSUME NEW S, NEW F \in Seq(S), NEW k \in S, NEW G, G = Append(F, k)
  PROVE  /\ G \in Seq(S) /\ G # <<>> /\ Len(G) = Len(F) + 1 /\ G[Len(G)] = k
         /\ \A i \in 1 .. Len(F) : G[i] = F[i]
  OBVIOUS

\* The codes left after one was read.
LEMMA TailOf ==
  ASSUME NEW S, NEW F \in Seq(S), F # <<>>
  PROVE  /\ Tail(F) \in Seq(S) /\ Head(F) \in S /\ Head(F) = F[1] /\ Len(Tail(F)) = Len(F) - 1
         /\ \A i \in 1 .. Len(Tail(F)) : Tail(F)[i] = F[i + 1]
  OBVIOUS

\* A key that is no control key is pressed.
LEMMA KeyPress ==
  ASSUME NEW F, NEW s, NEW D, KbdFine(F, s, D), NEW k \in Keys
  PROVE  KbdFine(Append(F, k), s, D)
<1> DEFINE G == Append(F, k)
<1>1. F \in Seq(Codes) /\ k \in Codes /\ k \notin {"E0", "ctl", "up"}
  BY Zenon DEF KbdFine, Codes, Keys
<1>2. /\ G \in Seq(Codes) /\ G # <<>> /\ Len(G) = Len(F) + 1 /\ G[Len(G)] = k
      /\ \A i \in 1 .. Len(F) : G[i] = F[i]
  <2>1. F \in Seq(Codes) /\ k \in Codes /\ G = Append(F, k)
    BY Zenon, <1>1
  <2> HIDE DEF G
  <2> QED BY ONLY <2>1, AppendTo
<1>3. CtlAt(G) = CtlAt(F)
  <2>1. \A i : i \in 1 .. Len(G) <=> (i \in 1 .. Len(F) \/ i = Len(G))
    BY ONLY <1>1, <1>2
  <2> HIDE DEF G
  <2> QED BY ZenonT(60), <1>1, <1>2, <2>1 DEF CtlAt
<1>4. \A i \in CtlAt(F) : G[i] = F[i]
  BY Zenon, <1>2 DEF CtlAt
<1> HIDE DEF G
<1> QED BY ZenonT(60), <1>1, <1>2, <1>3, <1>4 DEF KbdFine, G

\* Codes that end with a control code, which is a press only if some control key is down.
LEMMA CtlPress ==
  ASSUME NEW F \in Seq(Codes), NEW s \in SUBSET {"CTL", "E0"}, NEW D, F # <<>>,
         F[Len(F)] \in {"ctl", "up"}, F[Len(F)] = "ctl" => D # {}
  PROVE  KbdFine(F, s, D)
<1>1. Len(F) \in 1 .. Len(F) /\ Len(F) \in Nat
  OBVIOUS
<1>2. Len(F) \in CtlAt(F)
  BY Zenon, <1>1 DEF CtlAt
<1>3. ASSUME NEW i \in CtlAt(F), \A j \in CtlAt(F) : j <= i PROVE i = Len(F)
  <2>1. i \in 1 .. Len(F) /\ Len(F) <= i
    BY Zenon, <1>2, <1>3 DEF CtlAt
  <2> QED BY ONLY <2>1, <1>1
<1> QED BY Zenon, <1>2, <1>3 DEF KbdFine

\* kbdgetc reads a code.
LEMMA CodeRead ==
  ASSUME NEW F, NEW s, NEW D, KbdFine(F, s, D), F # <<>>
  PROVE  KbdFine(Tail(F), Shift(s, Head(F)), D)
<1>1. F \in Seq(Codes) /\ s \subseteq {"CTL", "E0"}
  BY Zenon DEF KbdFine
<1>2. PICK G \in Seq(Codes), c \in Codes : G = Tail(F) /\ c = Head(F) /\ c = F[1]
        /\ Len(G) = Len(F) - 1 /\ \A i \in 1 .. Len(G) : G[i] = F[i + 1]
  <2>1. /\ Tail(F) \in Seq(Codes) /\ Head(F) \in Codes /\ Head(F) = F[1] /\ Len(Tail(F)) = Len(F) - 1
        /\ \A i \in 1 .. Len(Tail(F)) : Tail(F)[i] = F[i + 1]
    BY ONLY ZenonT(60), <1>1, F # <<>>, TailOf
  <2> QED BY Zenon, <2>1
<1>3. PICK z \in SUBSET {"CTL", "E0"} : z = Shift(s, c)
  BY Zenon, <1>1 DEF Shift
<1>4. Len(F) \in Nat /\ Len(F) > 0 /\ 1 \in 1 .. Len(F) /\ Len(G) \in Nat
  BY <1>1
<1>5. IF G = <<>> THEN "E0" \notin z ELSE G[Len(G)] # "E0"
  <2>1. F[Len(F)] # "E0"
    BY Zenon DEF KbdFine
  <2>2. CASE G = <<>>
    <3>1. Len(F) = 1
      <4>1. Len(G) = 0
        BY Zenon, <2>2
      <4>2. Len(G) = Len(F) - 1
        BY ZenonT(60), <1>2
      <4> QED BY ONLY SMTT(30), <4>1, <4>2, <1>4
    <3>2. c # "E0"
      BY ZenonT(60), <2>1, <3>1, <1>2
    <3> QED BY ZenonT(60), <1>3, <2>2, <3>2 DEF Shift
  <2>3. CASE G # <<>>
    <3>1. Len(G) \in 1 .. Len(G) /\ Len(G) + 1 = Len(F)
      BY SMTT(30), <1>2, <1>4, <2>3
    <3> QED BY ZenonT(60), <1>2, <2>1, <2>3, <3>1
  <2> QED BY ZenonT(60), <2>2, <2>3
<1>6. ASSUME NEW j \in CtlAt(F) PROVE j \in Nat /\ (j = 1 \/ j - 1 \in CtlAt(G))
  <2>1. j \in 1 .. Len(F) /\ F[j] \in {"ctl", "up"}
    BY Zenon DEF CtlAt
  <2>2. j \in Nat /\ (j = 1 \/ (j - 1 \in 1 .. Len(G) /\ (j - 1) + 1 = j))
    BY ONLY SMTT(30), <2>1, <1>2, <1>4
  <2> QED BY ZenonT(60), <1>2, <2>1, <2>2 DEF CtlAt
<1>7. ASSUME CtlAt(G) = {}, "CTL" \in z PROVE D # {}
  <2>1. CASE c = "ctl"
    <3>1. 1 \in CtlAt(F)
      BY ZenonT(60), <1>2, <1>4, <2>1 DEF CtlAt
    <3>2. \A j \in CtlAt(F) : j <= 1
      <4>1. ASSUME NEW j \in CtlAt(F) PROVE j <= 1
        <5>1. j = 1
          BY Zenon, <1>6, <1>7
        <5> QED BY <5>1
      <4> QED BY Zenon, <4>1
    <3> QED BY ZenonT(60), <3>1, <3>2, <1>2, <2>1 DEF KbdFine
  <2>2. CASE c = "up"
    BY ZenonT(60), <1>3, <1>7, <2>2 DEF Shift
  <2>3. CASE c \notin {"ctl", "up"}
    <3>1. "CTL" \in s
      BY ZenonT(60), <1>3, <1>7, <2>3 DEF Shift
    <3>2. CtlAt(F) = {}
      <4>1. ASSUME NEW j \in CtlAt(F) PROVE FALSE
        <5>1. j = 1
          BY Zenon, <1>6, <1>7
        <5>2. F[j] \in {"ctl", "up"}
          BY Zenon DEF CtlAt
        <5> QED BY ZenonT(60), <5>1, <5>2, <1>2, <2>3
      <4> QED BY Zenon, <4>1
    <3> QED BY Zenon, <3>1, <3>2 DEF KbdFine
  <2> QED BY ZenonT(60), <2>1, <2>2, <2>3
<1>8. ASSUME NEW i \in CtlAt(G), \A j \in CtlAt(G) : j <= i, G[i] = "ctl" PROVE D # {}
  <2>1. i \in 1 .. Len(G) /\ G[i] = F[i + 1]
    BY Zenon, <1>2 DEF CtlAt
  <2>2. i + 1 \in 1 .. Len(F) /\ i \in Nat /\ i >= 1
    BY ONLY SMTT(30), <2>1, <1>2, <1>4
  <2>3. i + 1 \in CtlAt(F) /\ F[i + 1] = "ctl"
    BY ZenonT(60), <2>1, <2>2, <1>8 DEF CtlAt
  <2>4. ASSUME NEW j \in CtlAt(F) PROVE j <= i + 1
    <3>1. j \in Nat /\ (j = 1 \/ j - 1 \in CtlAt(G))
      BY Zenon, <1>6
    <3>2. j = 1 \/ j - 1 <= i
      BY Zenon, <3>1, <1>8
    <3>3. j \in Nat
      BY Zenon, <3>1
    <3> QED BY ONLY SMTT(30), <3>2, <3>3, <2>2
  <2> QED BY ZenonT(60), <2>3, <2>4 DEF KbdFine
<1>9. KbdFine(G, z, D)
  BY ZenonT(60), <1>3, <1>5, <1>7, <1>8 DEF KbdFine
<1> QED BY ZenonT(60), <1>2, <1>3, <1>9

\* Where the keyboard is left alone.
LEMMA KbdSame ==
  ASSUME KbdInv, UNCHANGED <<fifo, shift, down>>
  PROVE  KbdInv'
  BY Zenon DEF KbdInv, CtlAt

-----------------------------------------------------------------------------
(* The steps                                                               *)

\* A thread's fields change, and it has still got no more than it asked for.
LEMMA ThreadStep ==
  ASSUME ThreadInv, NEW t \in Threads, NEW x \in Thread, x.got <= x.n, th' = [th EXCEPT ![t] = x]
  PROVE  ThreadInv'
<1>1. th' \in [Threads -> Thread] /\ th'[t] = x /\ \A u \in Threads : u # t => th'[u] = th[u]
  BY Zenon DEF ThreadInv
<1> QED BY ZenonT(60), <1>1 DEF ThreadInv

\* Another pc, and another dump or killed flag.
LEMMA ThreadMoves ==
  ASSUME ThreadInv, NEW t \in Threads, NEW p \in Pcs, NEW d \in BOOLEAN, NEW k \in BOOLEAN,
         th' = [th EXCEPT ![t] = [th[t] EXCEPT !.pc = p, !.dump = d, !.killed = k]]
  PROVE  ThreadInv'
<1>1. PICK x : x = [th[t] EXCEPT !.pc = p, !.dump = d, !.killed = k]
  BY Zenon
<1>2. th[t] \in Thread /\ th[t].got <= th[t].n
  BY Zenon DEF ThreadInv
<1>3. x \in Thread /\ x.got = th[t].got /\ x.n = th[t].n
  BY ONLY ZenonT(60), <1>1, <1>2, p \in Pcs, d \in BOOLEAN, k \in BOOLEAN DEF Thread
<1> QED BY ZenonT(60), <1>1, <1>2, <1>3, ThreadStep

\* The sleepers are woken.
LEMMA ThreadsWoken ==
  ASSUME ThreadInv, th' = Woken(th)
  PROVE  ThreadInv'
<1>1. ASSUME NEW u \in Threads PROVE th'[u] \in Thread /\ th'[u].got <= th'[u].n
  <2>1. th[u] \in Thread /\ th[u].got <= th[u].n
    BY Zenon DEF ThreadInv
  <2>2. th'[u] = IF th[u].pc = "asleep" THEN [th[u] EXCEPT !.pc = "acquire"] ELSE th[u]
    BY Zenon DEF Woken
  <2>3. CASE th[u].pc = "asleep"
    <3>1. th'[u] = [th[u] EXCEPT !.pc = "acquire"]
      BY ZenonT(60), <2>2, <2>3
    <3>2. th'[u] \in Thread /\ th'[u].got = th[u].got /\ th'[u].n = th[u].n
      BY ONLY ZenonT(60), <2>1, <3>1 DEF Thread, Pcs
    <3> QED BY ZenonT(60), <2>1, <3>2
  <2> QED BY ZenonT(60), <2>1, <2>2, <2>3
<1>2. th' \in [Threads -> Thread]
  BY Zenon, <1>1 DEF Woken
<1> QED BY Zenon, <1>1, <1>2 DEF ThreadInv

\* Steps that leave the buffer and the keyboard alone.
LEMMA Others ==
  ASSUME IInv, UNCHANGED <<input, fifo, shift, down>>, ThreadInv', Types'
  PROVE  IInv'
<1>1. BufferInv'
  BY Zenon, BufferSame DEF IInv
<1>2. KbdInv'
  BY Zenon, KbdSame DEF IInv
<1> QED BY Zenon, <1>1, <1>2 DEF IInv

\* The last element of what was appended is the last.
LEMMA ConcatEnd ==
  ASSUME NEW S, NEW F \in Seq(S), NEW a \in Seq(S), Len(a) > 0
  PROVE  F \o a \in Seq(S) /\ F \o a # <<>> /\ (F \o a)[Len(F \o a)] = a[Len(a)]
  OBVIOUS

\* A key is pressed or released.
LEMMA KeyDownInv ==
  ASSUME IInv, NEW k, KeyDown(k)
  PROVE  IInv'
<1>1. BufferInv' /\ ThreadInv' /\ Types'
  <2>1. UNCHANGED <<input, lock, ilock, th, pos, panicked>>
    BY Zenon DEF KeyDown
  <2>2. BufferInv'
    BY ZenonT(60), <2>1, BufferSame DEF IInv
  <2> QED BY Zenon, <2>1, <2>2 DEF IInv, ThreadInv, Types
<1>2. PICK F : F = fifo["kbd"]
  BY Zenon
<1>3. fifo \in [Devs -> Seq(Codes \cup Char)] /\ KbdFine(F, shift, down) /\ shift' = shift
  BY ZenonT(60), <1>2, KbdIs DEF IInv, KeyDown
<1>4. F \in Seq(Codes) /\ shift \in SUBSET {"CTL", "E0"}
  BY Zenon, <1>3 DEF KbdFine
<1>5. PICK G \in Seq(Codes) : fifo' = [fifo EXCEPT !["kbd"] = G] /\ KbdFine(G, shift, down')
  <2>1. CASE k \in Keys /\ fifo' = [fifo EXCEPT !["kbd"] = Append(@, k)] /\ UNCHANGED down
    <3>1. KbdFine(Append(F, k), shift, down')
      BY ZenonT(60), <1>3, <2>1, KeyPress
    <3>2. Append(F, k) \in Seq(Codes) /\ fifo' = [fifo EXCEPT !["kbd"] = Append(F, k)]
      BY ZenonT(60), <3>1, <2>1, <1>2 DEF KbdFine
    <3> QED BY Zenon, <3>1, <3>2
  <2>2. CASE /\ k \in {"lctl", "rctl"} /\ down' = (down \cup {k}) \ (down \cap {k})
             /\ LET code == IF k \in down THEN "up" ELSE "ctl" IN
                fifo' = [fifo EXCEPT !["kbd"] = @ \o IF k = "rctl" THEN <<"E0", code>> ELSE <<code>>]
    <3>1. PICK c \in Codes : c = (IF k \in down THEN "up" ELSE "ctl")
      BY Zenon DEF Codes
    <3>2. c \in {"ctl", "up"} /\ (c = "ctl" => down' # {})
      BY Zenon, <3>1, <2>2
    <3>3. PICK a \in Seq(Codes) : a = (IF k = "rctl" THEN <<"E0", c>> ELSE <<c>>) /\ Len(a) > 0 /\ a[Len(a)] = c
      <4>1. "E0" \in Codes
        BY Zenon DEF Codes
      <4>2. CASE k = "rctl"
        <5>1. <<"E0", c>> \in Seq(Codes) /\ Len(<<"E0", c>>) > 0 /\ <<"E0", c>>[Len(<<"E0", c>>)] = c
          BY ONLY SMTT(30), <4>1, c \in Codes
        <5> QED BY ZenonT(60), <4>2, <5>1
      <4>3. CASE k # "rctl"
        <5>1. <<c>> \in Seq(Codes) /\ Len(<<c>>) > 0 /\ <<c>>[Len(<<c>>)] = c
          BY ONLY c \in Codes
        <5> QED BY ZenonT(60), <4>3, <5>1
      <4> QED BY Zenon, <4>2, <4>3
    <3>4. PICK G \in Seq(Codes) : G = F \o a /\ G # <<>> /\ G[Len(G)] = c
      <4>1. F \o a \in Seq(Codes) /\ F \o a # <<>> /\ (F \o a)[Len(F \o a)] = a[Len(a)]
        <5>1. Len(a) > 0
          BY Zenon, <3>3
        <5> QED BY ONLY ZenonT(60), <5>1, <1>4, a \in Seq(Codes), ConcatEnd
      <4> QED BY Zenon, <4>1, <3>3
    <3>5. KbdFine(G, shift, down')
      BY ZenonT(60), <1>4, <3>2, <3>4, CtlPress
    <3>6. fifo' = [fifo EXCEPT !["kbd"] = G]
      BY ZenonT(60), <2>2, <3>1, <3>3, <3>4, <1>2
    <3> QED BY ZenonT(60), <3>5, <3>6
  <2> QED BY Zenon, <2>1, <2>2 DEF KeyDown
<1>6. "kbd" \in Devs /\ G \in Seq(Codes \cup Char)
  BY DEF Devs
<1>7. fifo' \in [Devs -> Seq(Codes \cup Char)] /\ fifo'["kbd"] = G
  BY ZenonT(60), <1>3, <1>5, <1>6
<1>8. KbdInv'
  <2>1. (KbdInv <=> fifo \in [Devs -> Seq(Codes \cup Char)] /\ KbdFine(fifo["kbd"], shift, down))'
    BY KbdIs, PTL
  <2>2. KbdFine(fifo["kbd"], shift, down)'
    BY ZenonT(60), <1>3, <1>5, <1>7 DEF KbdFine, CtlAt
  <2> QED BY ZenonT(60), <2>1, <2>2, <1>7
<1> QED BY Zenon, <1>1, <1>8 DEF IInv

\* A character arrives on the serial line.
LEMMA SerialInv ==
  ASSUME IInv, NEW c \in Char, Serial(c)
  PROVE  IInv'
<1>1. BufferInv' /\ ThreadInv' /\ Types'
  <2>1. UNCHANGED <<input, lock, ilock, th, pos, panicked>>
    BY Zenon DEF Serial
  <2>2. BufferInv'
    BY Zenon, <2>1, BufferSame DEF IInv
  <2> QED BY ZenonT(60), <2>1, <2>2 DEF IInv, ThreadInv, Types
<1>2. fifo \in [Devs -> Seq(Codes \cup Char)] /\ "uart" \in Devs /\ "kbd" \in Devs /\ "kbd" # "uart"
  BY Zenon DEF IInv, KbdInv, Devs
<1>3. fifo["uart"] \in Seq(Codes \cup Char) /\ c \in Codes \cup Char
  BY Zenon, <1>2
<1>4. Append(fifo["uart"], c) \in Seq(Codes \cup Char)
  BY ONLY <1>3
<1>5. fifo' \in [Devs -> Seq(Codes \cup Char)] /\ fifo'["kbd"] = fifo["kbd"] /\ UNCHANGED <<shift, down>>
  BY ZenonT(60), <1>2, <1>4 DEF Serial
<1>6. KbdInv'
  BY Zenon, <1>5 DEF IInv, KbdInv, CtlAt
<1> QED BY Zenon, <1>1, <1>6 DEF IInv

\* consoleintr takes a character: what becomes of the buffer, and of the lines.
LEMMA IntrBuffer ==
  ASSUME IInv, NEW d \in Devs, IntrChar(d)
  PROVE  BufferInv' /\ ThreadInv' /\ pos' \in Screen /\ [Lines!Next]_<<Content(input.r, input.w), Content(input.w, input.e)>>
<1> DEFINE code == Head(fifo[d])
           c == IF d = "kbd" THEN CharOf(Shift(shift, code), code) ELSE code
           n == (input.e + 1) % W
           commit == c \in {"nl", "^D"} \/ n = (input.r + INPUT_BUF) % W
<1>0. (CASE c = "^P" -> th' = [th EXCEPT ![d].dump = TRUE] /\ UNCHANGED <<input, pos>>
        [] c = "^U" -> /\ input' = [input EXCEPT !.e = Minus(@, KillTo)]
                       /\ Consputc("BS", KillTo) /\ UNCHANGED th
        [] c = "^H" -> /\ input' = [input EXCEPT !.e = IF @ # input.w THEN Minus(@, 1) ELSE @]
                       /\ Consputc("BS", IF input.e # input.w THEN 1 ELSE 0) /\ UNCHANGED th
        [] c \in Char /\ HasRoom ->
             /\ input' = [input EXCEPT !.buf[input.e % INPUT_BUF] = c, !.e = n, !.w = IF commit THEN n ELSE @]
             /\ Consputc(c, 1)
             /\ th' = IF commit THEN Woken(th) ELSE th
        [] OTHER -> UNCHANGED <<input, pos, th>>)
  BY Zenon DEF IntrChar
<1>a. commit \in BOOLEAN /\ n = (input.e + 1) % W /\ (commit <=> (c \in {"nl", "^D"} \/ n = (input.r + INPUT_BUF) % W))
  BY Zenon
<1> HIDE DEF code, c, n, commit
<1>1. /\ BufferInv /\ ThreadInv /\ pos \in Screen /\ d \in Threads
  BY Zenon DEF IInv, Types, Threads
<1>2. CASE c = "^P"
  <2>1. th' = [th EXCEPT ![d].dump = TRUE] /\ input' = input /\ pos' = pos
    BY ONLY ZenonT(60), <1>0, <1>2 DEF Char
  <2>2. BufferInv' /\ UNCHANGED <<Content(input.r, input.w), Content(input.w, input.e)>>
    BY ZenonT(60), <1>1, <2>1, BufferSame
  <2>3. ThreadInv'
    <3>1. PICK x : x = [th[d] EXCEPT !.dump = TRUE]
      BY Zenon
    <3>2. th[d] \in Thread /\ th[d].got <= th[d].n
      BY Zenon, <1>1 DEF ThreadInv
    <3>3. x \in Thread /\ x.got = th[d].got /\ x.n = th[d].n
      BY ONLY ZenonT(60), <3>1, <3>2 DEF Thread
    <3>4. th' = [th EXCEPT ![d] = x]
      BY ZenonT(60), <2>1, <3>1
    <3> QED BY ZenonT(60), <1>1, <3>2, <3>3, <3>4, ThreadStep
  <2> QED BY ZenonT(60), <1>1, <2>1, <2>2, <2>3
<1>3. CASE c = "^U"
  <2>1. input' = [input EXCEPT !.e = Minus(@, KillTo)] /\ Consputc("BS", KillTo) /\ th' = th
    BY ONLY ZenonT(60), <1>0, <1>3 DEF Char
  <2>2. BufferInv' /\ Lines!KillLine
    BY ZenonT(60), <1>1, <2>1, BufferKill
  <2>3. pos' \in Screen
    BY ZenonT(60), <1>1, <2>1, KillToIs, ConsputcStays
  <2> QED BY ZenonT(60), <1>1, <2>1, <2>2, <2>3 DEF ThreadInv, Lines!Next
<1>4. CASE c = "^H"
  <2>1. /\ input' = [input EXCEPT !.e = IF @ # input.w THEN Minus(@, 1) ELSE @]
        /\ Consputc("BS", IF input.e # input.w THEN 1 ELSE 0) /\ th' = th
    BY ONLY ZenonT(60), <1>0, <1>4 DEF Char
  <2>2. BufferInv' /\ (Lines!Erase \/ UNCHANGED <<Content(input.r, input.w), Content(input.w, input.e)>>)
    BY ZenonT(60), <1>1, <2>1, BufferErase
  <2>3. PICK k \in Nat : k = IF input.e # input.w THEN 1 ELSE 0
    OBVIOUS
  <2>4. pos' \in Screen
    BY ZenonT(60), <1>1, <2>1, <2>3, ConsputcStays
  <2> QED BY ZenonT(60), <1>1, <2>1, <2>2, <2>4 DEF ThreadInv, Lines!Next
<1>5. CASE c \in Char /\ HasRoom
  <2>1. /\ input' = [input EXCEPT !.buf[input.e % INPUT_BUF] = c, !.e = n, !.w = IF commit THEN n ELSE @]
        /\ Consputc(c, 1) /\ th' = IF commit THEN Woken(th) ELSE th
    <3>1. c \notin {"^P", "^U", "^H"}
      BY Zenon, <1>5 DEF Char
    <3> QED BY ONLY ZenonT(60), <1>0, <1>5, <3>1
  <2>4. BufferInv' /\ Lines!Type(c)
    BY ZenonT(60), <1>a, <1>1, <1>5, <2>1, BufferType
  <2>5. pos' \in Screen
    <3>1. 1 \in Nat
      OBVIOUS
    <3> QED BY ZenonT(60), <1>1, <2>1, <3>1, ConsputcStays
  <2>6. ThreadInv'
    <3>1. CASE commit
      BY ZenonT(60), <1>1, <2>1, <3>1, ThreadsWoken
    <3>2. CASE ~commit
      BY ZenonT(60), <1>1, <2>1, <3>2 DEF ThreadInv
    <3> QED BY ZenonT(60), <3>1, <3>2
  <2> QED BY ZenonT(60), <1>5, <2>4, <2>5, <2>6 DEF Lines!Next
<1>6. CASE c \notin {"^P", "^U", "^H"} /\ ~(c \in Char /\ HasRoom)
  <2>1. UNCHANGED <<input, pos, th>>
    BY ONLY ZenonT(60), <1>0, <1>6
  <2>2. BufferInv' /\ UNCHANGED <<Content(input.r, input.w), Content(input.w, input.e)>>
    BY ZenonT(60), <1>1, <2>1, BufferSame
  <2> QED BY ZenonT(60), <1>1, <2>1, <2>2 DEF ThreadInv
<1> QED BY ZenonT(60), <1>2, <1>3, <1>4, <1>5, <1>6

\* And of the keyboard's codes.
LEMMA IntrKbd ==
  ASSUME KbdInv, NEW d \in Devs, IntrChar(d)
  PROVE  KbdInv'
<1>1. /\ fifo \in [Devs -> Seq(Codes \cup Char)] /\ KbdFine(fifo["kbd"], shift, down)
      /\ "kbd" \in Devs /\ down' = down /\ fifo[d] # <<>> /\ fifo' = [fifo EXCEPT ![d] = Tail(@)]
      /\ shift' = IF d = "kbd" THEN Shift(shift, Head(fifo[d])) ELSE shift
  <2>1. fifo \in [Devs -> Seq(Codes \cup Char)] /\ KbdFine(fifo["kbd"], shift, down)
    BY Zenon, KbdIs
  <2>2. "kbd" \in Devs
    BY Zenon DEF Devs
  <2> QED BY ZenonT(60), <2>1, <2>2 DEF IntrChar
<1>2. Tail(fifo[d]) \in Seq(Codes \cup Char)
  <2>1. fifo[d] \in Seq(Codes \cup Char) /\ fifo[d] # <<>>
    BY Zenon, <1>1
  <2> QED BY ONLY ZenonT(60), <2>1, TailOf
<1>3. fifo' \in [Devs -> Seq(Codes \cup Char)] /\ fifo'[d] = Tail(fifo[d])
      /\ (d # "kbd" => fifo'["kbd"] = fifo["kbd"])
  BY ZenonT(60), <1>1, <1>2
<1>4. KbdFine(fifo'["kbd"], shift', down')
  <2>1. CASE d = "kbd"
    BY ZenonT(60), <1>1, <1>3, <2>1, CodeRead
  <2>2. CASE d # "kbd"
    BY ZenonT(60), <1>1, <1>3, <2>2
  <2> QED BY ZenonT(60), <2>1, <2>2
<1>5. (KbdInv <=> fifo \in [Devs -> Seq(Codes \cup Char)] /\ KbdFine(fifo["kbd"], shift, down))'
  BY KbdIs, PTL
<1> QED BY ZenonT(60), <1>3, <1>4, <1>5 DEF KbdFine, CtlAt

\* consoleintr takes one byte from its device.
LEMMA IntrCharInv ==
  ASSUME IInv, NEW d \in Devs, IntrChar(d)
  PROVE  IInv'
<1>1. BufferInv' /\ ThreadInv' /\ pos' \in Screen
  BY Zenon, IntrBuffer
<1>2. KbdInv'
  BY Zenon, IntrKbd DEF IInv
<1>3. UNCHANGED <<lock, ilock, panicked>>
  BY Zenon DEF IntrChar
<1>4. Types'
  BY ZenonT(60), <1>1, <1>3 DEF IInv, Types
<1> QED BY ZenonT(60), <1>1, <1>2, <1>4 DEF IInv

\* consoleread: what becomes of the buffer, and of the lines.
LEMMA ReadBuffer ==
  ASSUME IInv, NEW q \in Threads, Consoleread(q)
  PROVE  BufferInv' /\ [Lines!Next]_<<Content(input.r, input.w), Content(input.w, input.e)>>
<1>1. PICK n \in Nat : n = th[q].n - th[q].got
  <2>1. th[q] \in Thread /\ th[q].got <= th[q].n
    BY Zenon DEF IInv, ThreadInv
  <2> QED BY ONLY <2>1 DEF Thread
<1>2. input' = [input EXCEPT !.r = (@ + PutBack(q, Takes(n))) % W] /\ BufferInv
  BY Zenon, <1>1 DEF Consoleread, IInv
<1>3. /\ BufferInv'
      /\ \/ \E k \in 1 .. Len(Content(input.r, input.w)) : Lines!Read(k)
         \/ UNCHANGED <<Content(input.r, input.w), Content(input.w, input.e)>>
  BY ZenonT(60), <1>2, BufferRead
<1> QED BY ZenonT(60), <1>3 DEF Lines!Next

\* consoleread: the buffer, and what the reader has got.
LEMMA ConsolereadInv ==
  ASSUME IInv, NEW q \in Threads, Consoleread(q)
  PROVE  IInv'
<1>1. BufferInv'
  BY Zenon, ReadBuffer
<1>2. KbdInv'
  <2>1. UNCHANGED <<fifo, shift, down>>
    BY Zenon DEF Consoleread
  <2> QED BY ZenonT(60), <2>1, KbdSame DEF IInv
<1>3. th[q] \in Thread /\ th[q].got <= th[q].n /\ input \in Inputs /\ ThreadInv
  BY Zenon DEF IInv, ThreadInv, BufferInv
<1>4. PICK n \in Nat : n = th[q].n - th[q].got
  BY ONLY <1>3 DEF Thread
<1>5. PICK k \in 0 .. n : k = Takes(n)
  BY ZenonT(60), <1>3, TakesIs
<1>6. \/ th' = [th EXCEPT ![q].pc = "relock"] /\ lock' = lock
      \/ th' = [th EXCEPT ![q].pc = "tosleep", ![q].got = @ + k] /\ lock' = q
  BY ZenonT(60), <1>4, <1>5 DEF Consoleread
<1>7. ThreadInv'
  <2>1. CASE th' = [th EXCEPT ![q].pc = "relock"]
    <3>1. PICK x : x = [th[q] EXCEPT !.pc = "relock"]
      BY Zenon
    <3>2. x \in Thread /\ x.got = th[q].got /\ x.n = th[q].n
      BY ONLY ZenonT(60), <1>3, <3>1 DEF Thread, Pcs
    <3>3. th' = [th EXCEPT ![q] = x]
      BY ZenonT(60), <2>1, <3>1
    <3> QED BY ZenonT(60), <1>3, <3>2, <3>3, ThreadStep
  <2>2. CASE th' = [th EXCEPT ![q].pc = "tosleep", ![q].got = @ + k]
    <3>1. PICK x : x = [th[q] EXCEPT !.pc = "tosleep", !.got = @ + k]
      BY Zenon
    <3>0. th[q].got \in Nat /\ th[q].n \in Nat
      BY ONLY ZenonT(60), <1>3 DEF Thread
    <3>a. PICK g \in Nat, m \in Nat : g = th[q].got + k /\ m = th[q].n /\ g <= m
      BY ONLY SMTT(30), <3>0, <1>4, k \in 0 .. n, n \in Nat
    <3>b. x \in Thread /\ x.got = g /\ x.n = m
      BY ONLY ZenonT(60), <1>3, <3>1, <3>a DEF Thread, Pcs
    <3>2. x \in Thread /\ x.got <= x.n
      BY ZenonT(60), <3>a, <3>b
    <3>3. th' = [th EXCEPT ![q] = x]
      BY ONLY ZenonT(60), <2>2, <3>1, <1>3 DEF ThreadInv, Thread
    <3> QED BY ZenonT(60), <1>3, <3>2, <3>3, ThreadStep
  <2> QED BY ZenonT(60), <1>6, <2>1, <2>2
<1>8. Types'
  <2>1. UNCHANGED <<ilock, pos, panicked>>
    BY Zenon DEF Consoleread
  <2> QED BY ZenonT(60), <1>6, <2>1 DEF IInv, Types
<1> QED BY ZenonT(60), <1>1, <1>2, <1>7, <1>8 DEF IInv

\* The steps of a handler and of a process that only move it on.
LEMMA MoveInv ==
  ASSUME IInv, NEW t \in Threads, NEW p \in Pcs, UNCHANGED <<input, fifo, shift, down, panicked>>,
         th' = [th EXCEPT ![t].pc = p] \/ th' = [th EXCEPT ![t].pc = p, ![t].dump = FALSE]
           \/ th' = [th EXCEPT ![t].killed = TRUE, ![t].pc = p],
         lock' \in Threads \cup {""}, ilock' \in Threads \cup {""}, pos' \in Screen
  PROVE  IInv'
<1>1. th[t] \in Thread /\ th[t].got <= th[t].n /\ ThreadInv
  BY Zenon DEF IInv, ThreadInv
<1>2. PICK x : /\ x \in {[th[t] EXCEPT !.pc = p], [th[t] EXCEPT !.pc = p, !.dump = FALSE],
                         [th[t] EXCEPT !.killed = TRUE, !.pc = p]}
               /\ th' = [th EXCEPT ![t] = x]
  <2>1. CASE th' = [th EXCEPT ![t].pc = p]
    <3>1. th' = [th EXCEPT ![t] = [th[t] EXCEPT !.pc = p]]
      BY Zenon, <2>1
    <3> QED BY Zenon, <3>1
  <2>2. CASE th' = [th EXCEPT ![t].pc = p, ![t].dump = FALSE]
    <3>1. th' = [th EXCEPT ![t] = [th[t] EXCEPT !.pc = p, !.dump = FALSE]]
      BY ONLY ZenonT(60), <2>2, <1>1 DEF ThreadInv, Thread
    <3> QED BY Zenon, <3>1
  <2>3. CASE th' = [th EXCEPT ![t].killed = TRUE, ![t].pc = p]
    <3>1. th' = [th EXCEPT ![t] = [th[t] EXCEPT !.killed = TRUE, !.pc = p]]
      BY ONLY ZenonT(60), <2>3, <1>1 DEF ThreadInv, Thread
    <3> QED BY Zenon, <3>1
  <2> QED BY ZenonT(60), <2>1, <2>2, <2>3
<1>3. x \in Thread /\ x.got = th[t].got /\ x.n = th[t].n
  BY ONLY ZenonT(60), <1>1, <1>2, p \in Pcs DEF Thread
<1>4. ThreadInv'
  BY ZenonT(60), <1>1, <1>2, <1>3, ThreadStep
<1>5. Types'
  BY Zenon DEF IInv, Types
<1> QED BY ZenonT(60), <1>4, <1>5, Others

\* An interrupt comes, and its handler's loop ends.
LEMMA IntrInv == ASSUME IInv, NEW d \in Devs, Intr(d) \/ IntrEnd(d) PROVE IInv'
<1>1. PICK p \in Pcs : th' = [th EXCEPT ![d].pc = p]
  <2>1. CASE Intr(d)
    BY Zenon, <2>1 DEF Intr, Pcs
  <2>2. CASE IntrEnd(d)
    <3>1. PICK p \in Pcs : p = IF th[d].dump THEN "procdump" ELSE "user"
      BY Zenon DEF Pcs
    <3> QED BY ZenonT(60), <2>2, <3>1 DEF IntrEnd
  <2> QED BY Zenon, <2>1, <2>2
<1>2. d \in Threads /\ lock' \in Threads \cup {""} /\ UNCHANGED <<input, fifo, shift, down, panicked, ilock, pos>>
  BY Zenon DEF Intr, IntrEnd, Threads
<1>3. ilock \in Threads \cup {""} /\ pos \in Screen
  BY Zenon DEF IInv, Types
<1> QED BY ZenonT(60), <1>1, <1>2, <1>3, MoveInv

\* ^P: procdump prints.
LEMMA ProcdumpInv == ASSUME IInv, NEW d \in Devs, Procdump(d) PROVE IInv'
<1>1. /\ th' = [th EXCEPT ![d].pc = "user", ![d].dump = FALSE] /\ Consputc("nl", 1) /\ d \in Threads
      /\ UNCHANGED <<input, fifo, shift, down, panicked, lock, ilock>>
  BY Zenon DEF Procdump, Threads
<1>2. lock \in Threads \cup {""} /\ ilock \in Threads \cup {""} /\ pos \in Screen /\ "user" \in Pcs
  BY Zenon DEF IInv, Types, Pcs
<1>3. 1 \in Nat
  OBVIOUS
<1>4. pos' \in Screen
  BY ZenonT(60), <1>1, <1>2, <1>3, ConsputcStays
<1> QED BY ZenonT(60), <1>1, <1>2, <1>4, MoveInv

\* consolewrite.
LEMMA ConsolewriteInv == ASSUME IInv, NEW q \in Threads, Consolewrite(q) PROVE IInv'
<1>1. /\ th' = [th EXCEPT ![q].pc = "relock"] /\ Consputc("x", th[q].n)
      /\ UNCHANGED <<input, fifo, shift, down, panicked, lock, ilock>>
  BY Zenon DEF Consolewrite
<1>2. lock \in Threads \cup {""} /\ ilock \in Threads \cup {""} /\ pos \in Screen /\ "relock" \in Pcs
  BY Zenon DEF IInv, Types, Pcs
<1>3. th[q].n \in Nat
  <2>1. th[q] \in Thread
    BY Zenon DEF IInv, ThreadInv
  <2> QED BY ONLY Zenon, <2>1 DEF Thread
<1>4. pos' \in Screen
  BY ZenonT(60), <1>1, <1>2, <1>3, ConsputcStays
<1> QED BY ZenonT(60), <1>1, <1>2, <1>4, MoveInv

\* A call goes on to its device, a reader sleeps, a process is killed.
LEMMA DevInv == ASSUME IInv, NEW q \in Threads, Dev(q) \/ Sleep(q) \/ Kill(q) PROVE IInv'
<1>1. lock \in Threads \cup {""} /\ ilock \in Threads \cup {""} /\ pos \in Screen
  BY Zenon DEF IInv, Types
<1>2. CASE Dev(q)
  <2>1. /\ th' = [th EXCEPT ![q].pc = "acquire"] /\ ilock' = "" /\ "acquire" \in Pcs
        /\ UNCHANGED <<input, fifo, shift, down, lock, pos, panicked>>
    BY Zenon, <1>2 DEF Dev, Iunlock, Pcs
  <2> QED BY ZenonT(60), <1>1, <2>1, MoveInv
<1>3. CASE Sleep(q)
  <2>1. /\ th' = [th EXCEPT ![q].pc = "asleep"] /\ lock' = "" /\ "asleep" \in Pcs
        /\ UNCHANGED <<input, fifo, shift, down, ilock, pos, panicked>>
    BY ZenonT(60), <1>3 DEF Sleep, Pcs
  <2> QED BY ZenonT(60), <1>1, <2>1, MoveInv
<1>4. CASE Kill(q)
  <2>1. th[q] \in Thread
    BY Zenon DEF IInv, ThreadInv
  <2>2. PICK p \in Pcs : p = IF th[q].pc = "asleep" THEN "acquire" ELSE th[q].pc
    BY ONLY Zenon, <2>1 DEF Thread, Pcs
  <2>3. th' = [th EXCEPT ![q].killed = TRUE, ![q].pc = p]
    <3>1. th' = [th EXCEPT ![q].killed = TRUE, ![q].pc = IF @ = "asleep" THEN "acquire" ELSE @]
      BY Zenon, <1>4 DEF Kill
    <3>2. th \in [Threads -> Thread]
      BY Zenon DEF IInv, ThreadInv
    <3> QED BY ONLY ZenonT(60), <3>1, <3>2, <2>2, q \in Threads DEF Thread
  <2>4. UNCHANGED <<input, fifo, shift, down, lock, ilock, pos, panicked>>
    BY Zenon, <1>4 DEF Kill
  <2> QED BY ZenonT(60), <1>1, <2>3, <2>4, MoveInv
<1> QED BY ZenonT(60), <1>2, <1>3, <1>4

\* fileread or filewrite begins, and ends.
LEMMA EnterInv == ASSUME IInv, NEW q \in Threads, Enter(q) \/ Leave(q) PROVE IInv'
<1>1. th[q] \in Thread /\ ThreadInv
  BY Zenon DEF IInv, ThreadInv
<1>2. PICK x \in Thread : x.got <= x.n /\ th' = [th EXCEPT ![q] = x]
  <2>1. CASE Enter(q)
    <3>1. PICK n \in ReadSizes : th' = [th EXCEPT ![q].pc = "ilocked", ![q].n = n, ![q].got = 0]
      BY Zenon, <2>1 DEF Enter
    <3>2. n \in Nat
      BY ZenonT(60), <3>1, ConsoleAssumption
    <3>3. PICK x : x = [th[q] EXCEPT !.pc = "ilocked", !.n = n, !.got = 0]
      BY Zenon
    <3>a. x \in Thread /\ x.got = 0 /\ x.n = n
      BY ONLY ZenonT(60), <1>1, <3>2, <3>3 DEF Thread, Pcs
    <3>4. x \in Thread /\ x.got <= x.n
      BY ONLY SMTT(30), <3>a, <3>2
    <3>5. th' = [th EXCEPT ![q] = x]
      BY ONLY ZenonT(60), <1>1, <3>1, <3>3 DEF ThreadInv, Thread
    <3> QED BY ZenonT(60), <3>4, <3>5
  <2>2. CASE Leave(q)
    <3>1. PICK p \in Pcs : p = IF th[q].killed THEN "dead" ELSE "user"
      BY Zenon DEF Pcs
    <3>2. PICK x : x = [Idle EXCEPT !.pc = p]
      BY Zenon
    <3>a. x \in Thread /\ x.got = 0 /\ x.n = 0
      BY ONLY ZenonT(60), <3>2, p \in Pcs DEF Thread, Idle
    <3>3. x \in Thread /\ x.got <= x.n
      BY ONLY <3>a
    <3>4. th' = [th EXCEPT ![q] = x]
      BY ZenonT(60), <2>2, <3>1, <3>2 DEF Leave
    <3> QED BY ZenonT(60), <3>3, <3>4
  <2> QED BY ZenonT(60), <2>1, <2>2
<1>3. ThreadInv'
  BY ZenonT(60), <1>1, <1>2, ThreadStep
<1>4. UNCHANGED <<input, fifo, shift, down, lock, pos, panicked>> /\ ilock' \in {q, ilock}
  BY Zenon DEF Enter, Leave
<1>5. Types'
  BY Zenon, <1>4 DEF IInv, Types
<1> QED BY ZenonT(60), <1>3, <1>4, <1>5, Others

\* panic writes wherever the race leaves the cursor.
LEMMA PanicInv == ASSUME IInv, Panic PROVE IInv'
<1>1. pos' \in 0 .. (ROWS - 1) * COLS /\ panicked' = TRUE /\ UNCHANGED <<input, fifo, shift, down, lock, ilock, th>>
  BY Zenon DEF Panic
<1>2. pos' \in Screen
  <2>1. PICK A \in Nat : A = (ROWS - 1) * COLS /\ ROWS * COLS = A + COLS /\ COLS \in Nat /\ COLS > 0
    BY SMTT(30), ConsoleAssumption
  <2> QED BY SMTT(30), <1>1, <2>1 DEF Screen
<1>3. Types' /\ ThreadInv'
  BY ZenonT(60), <1>1, <1>2 DEF IInv, Types, ThreadInv
<1> QED BY ZenonT(60), <1>1, <1>3, Others

\* The state the kernel boots with.
LEMMA InitInv == Init => IInv
<1> SUFFICES ASSUME Init PROVE IInv
  OBVIOUS
<1>0. INPUT_BUF \in Nat /\ INPUT_BUF > 0 /\ W \in Nat /\ W > 0 /\ 0 \in 0 .. W - 1 /\ "x" \in Char
  BY Range0 DEF Char
<1>1. BufferInv
  <2>1. input = [buf |-> [i \in 0 .. INPUT_BUF - 1 |-> "x"], r |-> 0, w |-> 0, e |-> 0]
    BY Zenon DEF Init
  <2>2. input \in Inputs
    BY ONLY ZenonT(60), <1>0, <2>1 DEF Inputs
  <2>3. input.r = 0 /\ input.w = 0 /\ input.e = 0
    BY ONLY Zenon, <2>1
  <2>4. Minus(0, 0) = 0
    BY ONLY SMTT(30), <1>0, MinusIs
  <2>5. Minus(input.e, input.w) = 0 /\ Minus(input.w, input.r) = 0 /\ Minus(input.e, input.r) = 0
    BY ZenonT(60), <2>3, <2>4
  <2>6. Ring
    BY ONLY SMTT(30), <2>5, <1>0 DEF Ring
  <2>7. NoNewline
    BY ONLY <2>5 DEF NoNewline
  <2> QED BY ZenonT(60), <2>2, <2>6, <2>7 DEF BufferInv
<1>2. ThreadInv
  <2>1. Idle \in Thread /\ Idle.got <= Idle.n
    BY DEF Idle, Thread, Pcs
  <2> QED BY Zenon, <2>1 DEF Init, ThreadInv
<1>3. Types
  <2>1. PICK A \in Nat : A = ROWS * COLS - 1
    <3>1. PICK R \in Nat, C \in Nat : R = ROWS /\ C = COLS /\ R > 1 /\ C > 0
      BY ConsoleAssumption
    <3>2. R * C \in Nat /\ R * C > 0
      BY <3>1
    <3> QED BY SMTT(30), <3>1, <3>2
  <2>2. 0 \in 0 .. A /\ A \in 0 .. A
    OBVIOUS
  <2>3. pos = 0 \/ pos = A
    BY Zenon, <2>1 DEF Init
  <2>4. pos \in Screen
    BY ZenonT(60), <2>1, <2>2, <2>3 DEF Screen
  <2> QED BY Zenon, <2>4 DEF Init, Types
<1>4. KbdInv
  <2>1. fifo = [d \in Devs |-> <<>>] /\ "kbd" \in Devs /\ shift = {}
    BY Zenon DEF Init, Devs
  <2>2. <<>> \in Seq(Codes \cup Char) /\ <<>> \in Seq(Codes) /\ Len(<<>>) = 0
    OBVIOUS
  <2>3. CtlAt(<<>>) = {}
    BY <2>2 DEF CtlAt
  <2> QED BY ZenonT(60), <2>1, <2>2, <2>3 DEF KbdInv
<1> QED BY ZenonT(60), <1>1, <1>2, <1>3, <1>4 DEF IInv

\* Every step keeps the invariant.
LEMMA NextInv == IInv /\ [Next]_vars => IInv'
<1> SUFFICES ASSUME IInv, [Next]_vars PROVE IInv'
  OBVIOUS
<1>1. ASSUME NEW k \in left.keys, KeyDown(k) PROVE IInv'
  BY ZenonT(60), <1>1, KeyDownInv
<1>2. ASSUME NEW c \in Char, Serial(c) PROVE IInv'
  BY ZenonT(60), <1>2, SerialInv
<1>3. ASSUME NEW t \in Threads, Step(t) PROVE IInv'
  <2>1. CASE t \in Devs
    BY ZenonT(60), <1>3, <2>1, IntrInv, IntrCharInv, ProcdumpInv DEF Step
  <2>2. CASE t \notin Devs
    BY ZenonT(60), <1>3, <2>2, DevInv, ConsolereadInv, ConsolewriteInv, EnterInv DEF Step
  <2> QED BY Zenon, <2>1, <2>2
<1>4. ASSUME NEW q \in Procs, Enter(q) \/ Kill(q) PROVE IInv'
  <2>1. q \in Threads
    BY Zenon DEF Threads
  <2> QED BY ZenonT(60), <1>4, <2>1, DevInv, EnterInv
<1>5. CASE Panic
  BY Zenon, <1>5, PanicInv
<1>6. CASE UNCHANGED vars
  <2>1. UNCHANGED <<input, fifo, shift, down, lock, ilock, th, pos, panicked>>
    BY Zenon, <1>6 DEF vars
  <2>2. Types' /\ ThreadInv'
    BY Zenon, <2>1 DEF IInv, Types, ThreadInv
  <2> QED BY ZenonT(60), <2>1, <2>2, Others
<1> QED BY ZenonT(60), <1>1, <1>2, <1>3, <1>4, <1>5, <1>6 DEF Next

\* The ring, the threads and the keyboard's flags hold in every state.
THEOREM Invariance == Spec => []IInv
  BY InitInv, NextInv, PTL DEF Spec

\* Whatever codes come in whatever order, once kbdgetc has read them all no control key is
\* taken to be down that is not, and no E0 is left over; and the cursor is on the screen.
THEOREM NoKeyStuck == Spec => []NoStuckKey
<1>1. IInv => NoStuckKey
  <2> SUFFICES ASSUME IInv PROVE NoStuckKey
    OBVIOUS
  <2>1. {input.r, input.w, input.e} \subseteq 0 .. W - 1
    BY Zenon, Fields DEF IInv, BufferInv
  <2>2. pos \in 0 .. ROWS * COLS - 1 /\ {lock, ilock} \subseteq Threads \cup {""} /\ panicked \in BOOLEAN
    BY Zenon DEF IInv, Types, Screen
  <2>3. shift \subseteq {"CTL", "E0"}
    BY Zenon DEF IInv, KbdInv
  <2>4. ASSUME fifo["kbd"] = <<>> PROVE ("CTL" \in shift => down # {}) /\ "E0" \notin shift
    <3>1. CtlAt(fifo["kbd"]) = {}
      BY <2>4 DEF CtlAt
    <3> QED BY ZenonT(60), <2>4, <3>1 DEF IInv, KbdInv
  <2> QED BY ZenonT(60), <2>1, <2>2, <2>3, <2>4 DEF NoStuckKey, TypeOK
<1> QED BY <1>1, Invariance, PTL

\* A step of the console is one of the lines, or none.
LEMMA NextLines ==
  IInv /\ [Next]_vars => [Lines!Next]_<<Content(input.r, input.w), Content(input.w, input.e)>>
<1> SUFFICES ASSUME IInv, [Next]_vars
             PROVE  [Lines!Next]_<<Content(input.r, input.w), Content(input.w, input.e)>>
  OBVIOUS
<1>1. ASSUME input' = input PROVE [Lines!Next]_<<Content(input.r, input.w), Content(input.w, input.e)>>
  BY ZenonT(60), <1>1, BufferSame DEF IInv
<1>2. ASSUME NEW d \in Devs, IntrChar(d) PROVE [Lines!Next]_<<Content(input.r, input.w), Content(input.w, input.e)>>
  BY ZenonT(60), <1>2, IntrBuffer
<1>3. ASSUME NEW q \in Threads, Consoleread(q) PROVE [Lines!Next]_<<Content(input.r, input.w), Content(input.w, input.e)>>
  BY ZenonT(60), <1>3, ReadBuffer
<1>4. \/ input' = input
      \/ \E d \in Devs : IntrChar(d)
      \/ \E q \in Threads : Consoleread(q)
  BY ZenonT(60) DEF Next, Step, KeyDown, Serial, Intr, IntrEnd, Procdump, Enter, Dev, Sleep, Consolewrite, Leave, Kill, Panic, vars
<1> QED BY ZenonT(60), <1>1, <1>2, <1>3, <1>4

\* The ring buffer implements the lines of LineQueue: what was typed and not erased is read
\* once and in order, editing never reaches a finished line, and a ^D ends one read alone.
THEOREM InputServed == Spec => InputIsLines
<1>1. Init => Lines!Init
  <2> SUFFICES ASSUME Init PROVE Lines!Init
    OBVIOUS
  <2>1. input.r = 0 /\ input.w = 0 /\ input.e = 0
    BY Zenon DEF Init
  <2>2. 0 \in 0 .. W - 1
    BY Range0
  <2>3. Minus(0, 0) = 0
    BY ONLY SMTT(30), <2>2, MinusIs, Range0
  <2>4. Content(0, 0) = <<>>
    BY ONLY <2>3 DEF Content
  <2> QED BY ZenonT(60), <2>1, <2>4 DEF Lines!Init
<1> QED BY <1>1, NextLines, Invariance, PTL DEF Spec, InputIsLines, Lines!Spec

=============================================================================
