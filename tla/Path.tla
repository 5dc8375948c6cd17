-------------------------------- MODULE Path --------------------------------
(***************************************************************************)
(* How namex takes a path apart (skipelem in fs.c).  A path is a sequence  *)
(* of characters, and a directory entry has DIRSIZ of them for a name.     *)
(***************************************************************************)
EXTENDS Integers, Sequences, FiniteSetsExt, SequencesExt

CONSTANT DIRSIZ

\* How many slashes, or how many other characters, a path begins with.
Slashes(s) == Min({k \in 0 .. Len(s) : k = Len(s) \/ s[k + 1] # "/"})
Others(s) == Min({k \in 0 .. Len(s) : k = Len(s) \/ s[k + 1] = "/"})
Drop(s, n) == SubSeq(s, n + 1, Len(s))

\* The next element, cut to DIRSIZ, and the path after it and the slashes that follow.
Skipelem_KeepsSlashes(path) ==
  LET s == Drop(path, Slashes(path)) IN
  [name |-> SubSeq(s, 1, Min({Others(s), DIRSIZ})), path |-> Drop(s, Others(s))]
Skipelem(path) ==
  LET s == Drop(path, Slashes(path))
      rest == Drop(s, Others(s))
  IN  [name |-> SubSeq(s, 1, Min({Others(s), DIRSIZ})), path |-> Drop(rest, Slashes(rest))]

\* namex's loop: the names it looks up, each with its test for the last one (*path == 0).
RECURSIVE NamexElems(_)
NamexElems(path) ==
  LET e == Skipelem(path) IN
  IF e.name = <<>> THEN <<>> ELSE <<[name |-> e.name, last |-> e.path = <<>>]>> \o NamexElems(e.path)

-----------------------------------------------------------------------------
\* The reference: the longest runs of characters between slashes, from left to right.
Runs(s) == {r \in (1 .. Len(s)) \X (1 .. Len(s)) :
  /\ r[1] <= r[2] /\ (\A k \in r[1] .. r[2] : s[k] # "/")
  /\ (r[1] = 1 \/ s[r[1] - 1] = "/") /\ (r[2] = Len(s) \/ s[r[2] + 1] = "/")}
Elements(s) ==
  LET runs == SetToSortSeq(Runs(s), LAMBDA a, b : a[1] < b[1]) IN
  [k \in DOMAIN runs |-> [name |-> SubSeq(s, runs[k][1], Min({runs[k][2], runs[k][1] + DIRSIZ - 1})),
                          last |-> k = Len(runs)]]
=============================================================================
