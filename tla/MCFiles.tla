------------------------------ MODULE MCFiles -------------------------------
(***************************************************************************)
(* Files under command lines that Parser parses and Shell runs, and Parser *)
(* by itself on every short line and every small command.                  *)
(***************************************************************************)
EXTENDS Files, Shell

Write(k, v) == [op |-> "write", fd |-> 1, viap |-> FALSE, n |-> k, val |-> v]
\* Programs: two that write more than a pipe holds, cat, one that reads once, one that does not.
ProgramCalls(name) ==
  CASE name = "echo" -> <<Write(3, "x"), Write(2, "y")>>
    [] name = "long" -> <<Write(3, "x")>>
    [] name = "cat" -> <<[op |-> "cat", fd |-> 0, viap |-> FALSE, n |-> 3, val |-> "x"]>>
    [] name = "once" -> <<[op |-> "read", fd |-> 0, viap |-> FALSE, n |-> 1]>>
    [] name = "true" -> <<>>

Given(k, s, c) == [kind |-> k, line |-> s, cmd |-> c]
Nothing == Execcmd(<<>>)

\* The last line needs more pipes and processes than there are.
Killed == <<"long", "|", "once">>
RunLines == {
  <<"echo", "|", "cat">>,
  <<"(", "long", "|", "cat", ")", "&">>,
  Killed,
  <<"(", "echo", "|", "true", ")", ";", "cat", "<", "f">>,
  <<"long", "|", "cat", "|", "once">>,
  <<"true", "|", "true", "|", "true", "|", "true">> }

\* Every line of at most MaxLine tokens.
MaxLine == 4
Lines == UNION {[1 .. k -> {"a", "<", "|", "&", ";", "(", ")"}] : k \in 0 .. MaxLine}

\* Every command that nests at most twice.
Leaves == {Execcmd(<<>>), Execcmd(<<"a">>), Execcmd(<<"a", "b">>)}
Over(C) == C \cup {Backcmd(c) : c \in C} \cup {Redircmd(c, "f", d) : c \in C, d \in {0, 1}}
             \cup {Pipecmd(l, r) : l \in C, r \in C} \cup {Listcmd(l, r) : l \in C, r \in C}
Trees == Over(Over(Leaves))

CmdLoads == {Given("run", s, Nothing) : s \in RunLines} \cup {Given("line", s, Nothing) : s \in Lines}
              \cup {Given("tree", LineOf(c, 3), c) : c \in Trees}
CmdKills(l) == l.line = Killed
NoCmd == Child("none", Nothing)
CmdStart(l) == IF l.kind = "run" THEN Child("sh", Parsecmd(l.line).cmd) ELSE NoCmd

\* A line that the parser accepts it has read to the end: every word is an argument or a
\* file of the command, and every symbol one of its nodes.
AllOfTheLine ==
  LET p == Parsecmd(load.line) IN
  load.kind = "line" /\ p.ok =>
    /\ Words(p.cmd) = Len(SelectSeq(load.line, IsWord))
    /\ Nodes(p.cmd, "redir") = Occurs({"<", ">"}, load.line)
    /\ Nodes(p.cmd, "pipe") = Occurs({"|"}, load.line)
    /\ Nodes(p.cmd, "back") = Occurs({"&"}, load.line)
    /\ Nodes(p.cmd, "list") = Occurs({";"}, load.line)
    /\ Occurs({"("}, load.line) = Occurs({")"}, load.line)

\* The shell's parser reads a command's line as that command: | binds tighter than &, & than
\* ;, both | and ; to the right, redirections nest in their order, and parentheses override.
\* And of no line it accepts does it drop a part.
ParsesAsWritten == (load.kind = "tree" => Parsecmd(load.line) = Parse(load.cmd, <<>>)) /\ AllOfTheLine
=============================================================================
