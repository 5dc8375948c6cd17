------------------------------- MODULE Parser -------------------------------
(***************************************************************************)
(* The shell's parser (sh.c): a line of tokens to a command, by recursive  *)
(* descent.  A token is a symbol or a word; gettoken and peek skip the     *)
(* white space between them.  A parse is the command, the tokens left over *)
(* and whether panic("syntax") was called on the way.                      *)
(***************************************************************************)
EXTENDS Integers, Sequences, SequencesExt

CONSTANT MAXARGS

Symbols == {"<", "|", ">", ">>", "&", ";", "(", ")"}
IsWord(t) == t \notin Symbols

Execcmd(argv) == [type |-> "exec", argv |-> argv]
Redircmd(c, f, d) == [type |-> "redir", cmd |-> c, file |-> f, fd |-> d]
Pipecmd(l, r) == [type |-> "pipe", left |-> l, right |-> r]
Listcmd(l, r) == [type |-> "list", left |-> l, right |-> r]
Backcmd(c) == [type |-> "back", cmd |-> c]

Parse(c, s) == [cmd |-> c, s |-> s, ok |-> TRUE]
Panic(s) == [cmd |-> Execcmd(<<>>), s |-> s, ok |-> FALSE]
\* What the caller makes of a parse p's command.
Made(p, c) == [p EXCEPT !.cmd = c]
Peek(s, toks) == s # <<>> /\ Head(s) \in toks

RECURSIVE Parseline(_), Parsepipe(_), Parseexec(_), Parseargs(_), Parseredirs(_), Backs(_)

\* The redirections after an argument or a block; a panic stays a panic.
Parseredirs(p) ==
  IF ~p.ok \/ ~Peek(p.s, {"<", ">", ">>"}) THEN p
  ELSE IF Len(p.s) < 2 \/ ~IsWord(p.s[2]) THEN Panic(p.s)
  ELSE Parseredirs(Parse(Redircmd(p.cmd, p.s[2], IF p.s[1] = "<" THEN 0 ELSE 1), Tail(Tail(p.s))))

\* The words of a command go into its argv, however deep under redirections it is.
RECURSIVE AddArg(_, _), Args(_)
AddArg(c, w) == IF c.type = "exec" THEN [c EXCEPT !.argv = Append(@, w)] ELSE [c EXCEPT !.cmd = AddArg(@, w)]
Args(c) == IF c.type = "exec" THEN c.argv ELSE Args(c.cmd)
Parseargs(p) ==
  IF ~p.ok \/ p.s = <<>> \/ Peek(p.s, {"|", ")", "&", ";"}) THEN p
  ELSE IF ~IsWord(Head(p.s)) \/ Len(Args(p.cmd)) + 1 >= MAXARGS THEN Panic(p.s)
  ELSE Parseargs(Parseredirs(Parse(AddArg(p.cmd, Head(p.s)), Tail(p.s))))

Parseblock(s) ==
  LET p == Parseline(Tail(s)) IN
  IF p.ok /\ Peek(p.s, {")"}) THEN Parseredirs(Parse(p.cmd, Tail(p.s))) ELSE Panic(p.s)
Parseexec(s) ==
  IF Peek(s, {"("}) THEN Parseblock(s) ELSE Parseargs(Parseredirs(Parse(Execcmd(<<>>), s)))

\* a | b | c is a | (b | c).
Parsepipe_Once(s) ==
  LET p == Parseexec(s)
      r == Parseexec(Tail(p.s))
  IN  IF p.ok /\ Peek(p.s, {"|"}) THEN Made(r, Pipecmd(p.cmd, r.cmd)) ELSE p
Parsepipe(s) ==
  LET p == Parseexec(s)
      r == Parsepipe(Tail(p.s))
  IN  IF p.ok /\ Peek(p.s, {"|"}) THEN Made(r, Pipecmd(p.cmd, r.cmd)) ELSE p

Backs(p) == IF p.ok /\ Peek(p.s, {"&"}) THEN Backs(Parse(Backcmd(p.cmd), Tail(p.s))) ELSE p
Parseline(s) ==
  LET p == Backs(Parsepipe(s))
      r == Parseline(Tail(p.s))
  IN  IF p.ok /\ Peek(p.s, {";"}) THEN Made(r, Listcmd(p.cmd, r.cmd)) ELSE p

\* parsecmd: nothing may be left over.
Leftovers(p) == p.s # <<>>
Parsecmd(s) == LET p == Parseline(s) IN IF Leftovers(p) THEN Panic(p.s) ELSE p

-----------------------------------------------------------------------------
(* What a command looks like on a line, as the reference for the parser    *)

RECURSIVE LineOf(_, _), Words(_), Nodes(_, _)
Block(s) == <<"(">> \o s \o <<")">>
\* "line": after ; or in parentheses; "back": before &; "pipe": right of |; "exec": left of it.
Level(c) == CASE c.type = "list" -> 3 [] c.type = "back" -> 2 [] c.type = "pipe" -> 1 [] OTHER -> 0
LineOf(c, level) ==
  LET s == CASE c.type = "exec" -> c.argv
             [] c.type = "redir" -> (IF Level(c.cmd) = 0 THEN LineOf(c.cmd, 0) ELSE Block(LineOf(c.cmd, 3)))
                                    \o <<IF c.fd = 0 THEN "<" ELSE ">", c.file>>
             [] c.type = "pipe" -> LineOf(c.left, 0) \o <<"|">> \o LineOf(c.right, 1)
             [] c.type = "back" -> LineOf(c.cmd, 2) \o <<"&">>
             [] c.type = "list" -> LineOf(c.left, 2) \o <<";">> \o LineOf(c.right, 3)
  IN  IF Level(c) > level THEN Block(s) ELSE s

\* How many words a command was made of, and how many of its nodes have type t.
Words(c) ==
  CASE c.type = "exec" -> Len(c.argv)
    [] c.type = "redir" -> Words(c.cmd) + 1
    [] c.type = "back" -> Words(c.cmd)
    [] c.type \in {"pipe", "list"} -> Words(c.left) + Words(c.right)
Nodes(c, t) ==
  (IF c.type = t THEN 1 ELSE 0) +
  CASE c.type = "exec" -> 0
    [] c.type \in {"redir", "back"} -> Nodes(c.cmd, t)
    [] c.type \in {"pipe", "list"} -> Nodes(c.left, t) + Nodes(c.right, t)
Occurs(T, s) == Len(SelectSeq(s, LAMBDA t : t \in T))
=============================================================================
