------------------------------ MODULE LineQueue ------------------------------
(***************************************************************************)
(* What the console promises its readers: lines, edited until they are     *)
(* finished, delivered once and in order, with ^D as an end of file that   *)
(* one read sees alone.                                                    *)
(***************************************************************************)
EXTENDS Naturals, Sequences

CONSTANTS Char, Size
VARIABLES q,     \* what has been finished and not read
          line   \* what is being edited

Ends(c) == c \in {"nl", "^D"}
Init == q = <<>> /\ line = <<>>

\* A character; the end of a line, ^D and a full buffer finish the line.
Type(c) ==
  /\ Len(q) + Len(line) < Size
  /\ IF Ends(c) \/ Len(q) + Len(line) = Size - 1
     THEN q' = q \o Append(line, c) /\ line' = <<>>
     ELSE line' = Append(line, c) /\ q' = q
Erase == line # <<>> /\ line' = SubSeq(line, 1, Len(line) - 1) /\ q' = q
KillLine == line' = <<>> /\ q' = q

\* A read gets a piece of one line, or a ^D and nothing else.
Read(k) ==
  /\ \A i \in 1 .. k - 1 : ~Ends(q[i])
  /\ q[k] = "^D" => k = 1
  /\ q' = SubSeq(q, k + 1, Len(q)) /\ line' = line

Next == (\E c \in Char : Type(c)) \/ Erase \/ KillLine \/ (\E k \in 1 .. Len(q) : Read(k))
Spec == Init /\ [][Next]_<<q, line>>
=============================================================================
