------------------------------ MODULE ByteQueue ------------------------------
(***************************************************************************)
(* What a pipe promises: a bounded first-in first-out queue with two ends. *)
(* Bytes are added only while the write end is open, taken only while the  *)
(* read end is, and an end once closed stays closed until both are and the *)
(* pipe is made anew.                                                      *)
(***************************************************************************)
EXTENDS Naturals, Sequences

CONSTANTS Size, Byte
VARIABLES q, reading, writing

Init == q = <<>> /\ reading = FALSE /\ writing = FALSE

Create == ~reading /\ ~writing /\ q' = <<>> /\ reading' = TRUE /\ writing' = TRUE

Put(s) ==
  /\ writing /\ Len(q) + Len(s) <= Size
  /\ q' = q \o s
  /\ UNCHANGED <<reading, writing>>

Get(n) ==
  /\ reading /\ n <= Len(q)
  /\ q' = SubSeq(q, n + 1, Len(q))
  /\ UNCHANGED <<reading, writing>>

CloseRead == reading /\ reading' = FALSE /\ UNCHANGED writing /\ q' = (IF writing THEN q ELSE <<>>)
CloseWrite == writing /\ writing' = FALSE /\ UNCHANGED reading /\ q' = (IF reading THEN q ELSE <<>>)

Next ==
  \/ Create \/ CloseRead \/ CloseWrite
  \/ \E n \in 1 .. Size : Get(n) \/ \E s \in [1 .. n -> Byte] : Put(s)
Spec == Init /\ [][Next]_<<q, reading, writing>>
=============================================================================
