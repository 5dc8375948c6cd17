-------------------------------- MODULE Shell --------------------------------
(***************************************************************************)
(* The calls by which sh.c runs a command: what runcmd does for each kind  *)
(* of command, as texts of module Files.  A text is the command that a     *)
(* child of the shell runs and the plumbing it does first; it ends in exit.*)
(***************************************************************************)
EXTENDS Parser

CONSTANT Program(_)   \* the calls a program makes

Sys(o) == [op |-> o]
Close(d) == [op |-> "close", fd |-> d, viap |-> FALSE]
ClosePipe(e) == [op |-> "close", fd |-> e, viap |-> TRUE]
Dup(e) == [op |-> "dup", fd |-> e, viap |-> TRUE]
Child(s, c) == [side |-> s, cmd |-> c]
Fork1(s, c) == [op |-> "fork", prog |-> Child(s, c)]
Rd == 1
Wr == 2

\* Both children close the pipe's descriptors once theirs is in place, and the shell
\* closes them before it waits.
Plumbing_KeepsWriteEnd == <<ClosePipe(Rd)>>
Plumbing == <<ClosePipe(Rd), ClosePipe(Wr)>>

RECURSIVE Runcmd(_)
RunExec(c) == IF c.argv = <<>> THEN <<>> ELSE <<Sys("exec")>> \o Program(c.argv[1])
RunRedir(c) == <<Close(c.fd), Sys("open")>> \o Runcmd(c.cmd)
RunList(c) == <<Fork1("none", c.left), Sys("wait")>> \o Runcmd(c.right)
RunPipe(c) == <<Sys("pipe"), Fork1("left", c.left), Fork1("right", c.right)>> \o Plumbing
              \o <<Sys("wait"), Sys("wait")>>
RunBack(c) == <<Fork1("none", c.cmd)>>
Runcmd(c) ==
  CASE c.type = "exec" -> RunExec(c)
    [] c.type = "redir" -> RunRedir(c)
    [] c.type = "list" -> RunList(c)
    [] c.type = "pipe" -> RunPipe(c)
    [] c.type = "back" -> RunBack(c)

\* main: a line in a child that the shell waits for.
Main(c) == <<Fork1("none", c), Sys("wait")>>
CallsOf(t) ==
  CASE t.side = "sh" -> Main(t.cmd)
    [] t.side = "none" -> Runcmd(t.cmd)
    [] t.side = "left" -> <<Close(1), Dup(Wr)>> \o Plumbing \o Runcmd(t.cmd)
    [] t.side = "right" -> <<Close(0), Dup(Rd)>> \o Plumbing \o Runcmd(t.cmd)
=============================================================================
