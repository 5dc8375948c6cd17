------------------------------- MODULE Console -------------------------------
(***************************************************************************)
(* The console: the keyboard and the serial line feeding consoleintr, the  *)
(* processes in consoleread and consolewrite, the screen, and panic.       *)
(*                                                                         *)
(* cons.lock is held from one step of a thread to a later one where the    *)
(* code can be overtaken: between two characters of an interrupt, and      *)
(* between a reader's test and its sleep.  ptable.lock is not represented  *)
(* (sleep and wakeup are atomic under it, see ProcTable).                  *)
(***************************************************************************)
EXTENDS Integers, Sequences, FiniteSets

CONSTANTS INPUT_BUF,
          W,           \* the counters' range: 2^32 in the build, a multiple of INPUT_BUF
          COLS, ROWS,  \* the screen: 80 by 25
          Readers, Writers,
          ReadSizes,
          Loads   \* what happens: how many keystrokes, of which keys, and serial
                  \* characters, which processes call, who may be killed, and whether some CPU panics

ASSUME ConsoleAssumption ==
  /\ INPUT_BUF \in Nat \ {0} /\ W \in Nat /\ W % INPUT_BUF = 0 /\ W > INPUT_BUF
  /\ COLS \in Nat \ {0} /\ ROWS \in Nat /\ ROWS > 1 /\ ReadSizes \subseteq Nat \ {0}

VARIABLES input,     \* buf, r, w, e
          fifo,      \* each device's bytes not yet read
          shift,     \* kbdgetc's static flags
          down,      \* the control keys held down
          lock,      \* cons.lock: its holder, or ""
          ilock,     \* the console inode's sleep lock
          th,        \* the interrupt handlers and the processes
          pos,       \* the cursor
          panicked,
          left       \* the load, with the keystrokes and serial characters to come
vars == <<input, fifo, shift, down, lock, ilock, th, pos, panicked, left>>

Devs == {"kbd", "uart"}
Procs == Readers \cup Writers
Threads == Devs \cup Procs
Char == {"x", "nl", "^D"}
Idle == [pc |-> "user", n |-> 0, got |-> 0, killed |-> FALSE, dump |-> FALSE]

Init ==
  /\ input = [buf |-> [i \in 0 .. INPUT_BUF - 1 |-> "x"], r |-> 0, w |-> 0, e |-> 0]
  /\ fifo = [d \in Devs |-> <<>>] /\ shift = {} /\ down = {}
  /\ lock = "" /\ ilock = ""
  /\ th = [t \in Threads |-> Idle]
  /\ left \in Loads
  /\ pos \in IF left.panics THEN {0, ROWS * COLS - 1} ELSE {0}
  /\ panicked = FALSE

-----------------------------------------------------------------------------
(* kbd.c and the devices                                                   *)

\* Scan codes: E0 comes before the code of a right-hand key, "up" is the release of a
\* control key, and a letter's release changes nothing.
Keys == {"d", "h", "u", "p", "enter"}
KeyDown(k) ==
  /\ left.kbd > 0 /\ left' = [left EXCEPT !.kbd = @ - 1]
  /\ \/ k \in Keys /\ fifo' = [fifo EXCEPT !["kbd"] = Append(@, k)] /\ UNCHANGED down
     \/ k \in {"lctl", "rctl"} /\ down' = (down \cup {k}) \ (down \cap {k})
        /\ LET code == IF k \in down THEN "up" ELSE "ctl" IN
           fifo' = [fifo EXCEPT !["kbd"] = @ \o IF k = "rctl" THEN <<"E0", code>> ELSE <<code>>]
  /\ UNCHANGED <<input, shift, lock, ilock, th, pos, panicked>>
Serial(c) ==
  /\ left.uart > 0 /\ left' = [left EXCEPT !.uart = @ - 1]
  /\ fifo' = [fifo EXCEPT !["uart"] = Append(@, c)]
  /\ UNCHANGED <<input, shift, down, lock, ilock, th, pos, panicked>>

\* kbdgetc: the flags after a code, and the character it stands for ("" for none).
Shift_KeepsRight(s, code) == IF code = "up" /\ "E0" \in s THEN s \ {"E0"}
  ELSE IF code = "E0" THEN s \cup {"E0"} ELSE IF code = "up" THEN s \ {"CTL"}
  ELSE (s \ {"E0"}) \cup (IF code = "ctl" THEN {"CTL"} ELSE {})
Shift(s, code) ==
  CASE code = "E0" -> s \cup {"E0"}
    [] code = "up" -> s \ {"CTL", "E0"}
    [] code = "ctl" -> (s \ {"E0"}) \cup {"CTL"}
    [] OTHER -> s \ {"E0"}
ctlmap == [d |-> "^D", h |-> "^H", u |-> "^U", p |-> "^P", enter |-> "nl"]
CharOf(s, code) ==
  CASE code \notin Keys -> ""
    [] code \in Keys /\ "CTL" \in s -> ctlmap[code]
    [] code \in Keys /\ "CTL" \notin s -> IF code = "enter" THEN "nl" ELSE "x"

-----------------------------------------------------------------------------
(* The screen                                                              *)

\* cgaputc: the cursor's new place, scrolled up from the last row.
Scrolls(p) == p \div COLS >= ROWS - 1
Cgaputc(p, c) ==
  LET next == CASE c = "nl" -> p + COLS - (p % COLS)
                [] c = "BS" -> IF p > 0 THEN p - 1 ELSE p
                [] OTHER -> p + 1
  IN  IF Scrolls(next) THEN next - COLS ELSE next

\* consputc, which a panic of any CPU stops for good; k of the same character.
Consputc(c, k) ==
  LET put[n \in 0 .. k] == IF n = 0 THEN pos ELSE Cgaputc(put[n - 1], c) IN pos' = put[k]
Stuck == panicked

-----------------------------------------------------------------------------
(* consoleintr                                                             *)

At(i) == input.buf[i % INPUT_BUF]
Minus(a, b) == (a - b) % W
Content(a, b) == [i \in 1 .. Minus(b, a) |-> At(a + i - 1)]

Intr(d) ==
  /\ th[d].pc = "user" /\ fifo[d] # <<>> /\ lock = ""
  /\ lock' = d
  /\ th' = [th EXCEPT ![d].pc = "intr"]
  /\ UNCHANGED <<input, fifo, shift, down, ilock, pos, panicked, left>>

\* wakeup(&input.r): the sleepers contend for cons.lock again.
Woken(T) == [t \in Threads |-> IF T[t].pc = "asleep" THEN [T[t] EXCEPT !.pc = "acquire"] ELSE T[t]]

\* ^U: back to the start of the line, or to the last newline after input.w.
KillTo == CHOOSE k \in 0 .. Minus(input.e, input.w) :
  /\ \A j \in 1 .. k : At(input.e - j) # "nl"
  /\ k = Minus(input.e, input.w) \/ At(input.e - k - 1) = "nl"

\* One character.
HasRoom == Minus(input.e, input.r) < INPUT_BUF
IntrChar(d) ==
  LET code == Head(fifo[d])
      c == IF d = "kbd" THEN CharOf(Shift(shift, code), code) ELSE code
      e == (input.e + 1) % W
      commit == c \in {"nl", "^D"} \/ e = (input.r + INPUT_BUF) % W
  IN
  /\ th[d].pc = "intr" /\ fifo[d] # <<>> /\ ~Stuck
  /\ fifo' = [fifo EXCEPT ![d] = Tail(@)]
  /\ shift' = IF d = "kbd" THEN Shift(shift, code) ELSE shift
  /\ CASE c = "^P" -> th' = [th EXCEPT ![d].dump = TRUE] /\ UNCHANGED <<input, pos>>
       [] c = "^U" -> /\ input' = [input EXCEPT !.e = Minus(@, KillTo)]
                      /\ Consputc("BS", KillTo) /\ UNCHANGED th
       [] c = "^H" -> /\ input' = [input EXCEPT !.e = IF @ # input.w THEN Minus(@, 1) ELSE @]
                      /\ Consputc("BS", IF input.e # input.w THEN 1 ELSE 0) /\ UNCHANGED th
       [] c \in Char /\ HasRoom ->
            /\ input' = [input EXCEPT !.buf[input.e % INPUT_BUF] = c, !.e = e, !.w = IF commit THEN e ELSE @]
            /\ Consputc(c, 1)
            /\ th' = IF commit THEN Woken(th) ELSE th
       [] OTHER -> UNCHANGED <<input, pos, th>>
  /\ UNCHANGED <<down, lock, ilock, panicked, left>>

\* The loop's end; then procdump prints with the lock taken anew.
IntrEnd(d) ==
  /\ th[d].pc = "intr" /\ fifo[d] = <<>>
  /\ lock' = "" /\ th' = [th EXCEPT ![d].pc = IF th[d].dump THEN "procdump" ELSE "user"]
  /\ UNCHANGED <<input, fifo, shift, down, ilock, pos, panicked, left>>
Procdump(d) ==
  /\ th[d].pc = "procdump" /\ lock = "" /\ ~Stuck
  /\ Consputc("nl", 1) /\ th' = [th EXCEPT ![d].pc = "user", ![d].dump = FALSE]
  /\ UNCHANGED <<input, fifo, shift, down, lock, ilock, panicked, left>>

-----------------------------------------------------------------------------
(* consoleread and consolewrite, from fileread's and filewrite's ilock on  *)

Enter(q) ==
  /\ q \in left.procs /\ th[q].pc = "user" /\ ilock = ""
  /\ ilock' = q
  /\ \E n \in ReadSizes : th' = [th EXCEPT ![q].pc = "ilocked", ![q].n = n, ![q].got = 0]
  /\ UNCHANGED <<input, fifo, shift, down, lock, pos, panicked, left>>
\* iunlock(ip), first thing.
Iunlock_Not == ilock
Iunlock == ""
Dev(q) ==
  /\ th[q].pc = "ilocked" /\ ilock' = Iunlock
  /\ th' = [th EXCEPT ![q].pc = "acquire"]
  /\ UNCHANGED <<input, fifo, shift, down, lock, pos, panicked, left>>

\* The characters a read may take before it stops: k, of which the last may end it.
Ends(c) == c \in {"nl", "^D"}
Avail == Minus(input.w, input.r)
Takes(n) == CHOOSE k \in 0 .. n :
  /\ k <= Avail /\ \A j \in 1 .. k - 1 : ~Ends(At(input.r + j - 1))
  /\ k = n \/ k = Avail \/ (k > 0 /\ Ends(At(input.r + k - 1)))
\* A ^D behind other characters is put back for the next read.
PutBack_Not(q, k) == k
PutBack(q, k) == IF k > 0 /\ At(input.r + k - 1) = "^D" /\ (k > 1 \/ th[q].got > 0) THEN k - 1 ELSE k
Consoleread(q) ==
  LET n == th[q].n - th[q].got
      k == Takes(n)
      done == k = n \/ (k > 0 /\ Ends(At(input.r + k - 1)))
  IN
  /\ q \in Readers /\ th[q].pc = "acquire" /\ lock = ""
  /\ input' = [input EXCEPT !.r = (@ + PutBack(q, k)) % W]
  /\ IF done \/ th[q].killed
     THEN th' = [th EXCEPT ![q].pc = "relock"] /\ UNCHANGED lock
     ELSE th' = [th EXCEPT ![q].pc = "tosleep", ![q].got = @ + k] /\ lock' = q
  /\ UNCHANGED <<fifo, shift, down, ilock, pos, panicked, left>>
Sleep(q) ==
  /\ th[q].pc = "tosleep" /\ lock' = ""
  /\ th' = [th EXCEPT ![q].pc = "asleep"]
  /\ UNCHANGED <<input, fifo, shift, down, ilock, pos, panicked, left>>
Consolewrite(q) ==
  /\ q \in Writers /\ th[q].pc = "acquire" /\ lock = "" /\ ~Stuck
  /\ Consputc("x", th[q].n) /\ th' = [th EXCEPT ![q].pc = "relock"]
  /\ UNCHANGED <<input, fifo, shift, down, lock, ilock, panicked, left>>
\* ilock(ip) again, for the caller to unlock; a killed process then exits.
Leave(q) ==
  /\ th[q].pc = "relock" /\ ilock = ""
  /\ th' = [th EXCEPT ![q] = [Idle EXCEPT !.pc = IF th[q].killed THEN "dead" ELSE "user"]]
  /\ UNCHANGED <<input, fifo, shift, down, lock, ilock, pos, panicked, left>>

\* kill wakes a sleeper; one about to sleep has tested killed already.
Kill(q) ==
  /\ q \in left.kills /\ ~th[q].killed /\ th[q].pc \notin {"user", "dead"}
  /\ th' = [th EXCEPT ![q].killed = TRUE, ![q].pc = IF @ = "asleep" THEN "acquire" ELSE @]
  /\ UNCHANGED <<input, fifo, shift, down, lock, ilock, pos, panicked, left>>

\* panic on some CPU: with locking off it prints past whoever holds the lock, at a place
\* on the screen that the two race for.
Panic ==
  /\ left.panics /\ ~panicked /\ panicked' = TRUE
  /\ pos' \in 0 .. (ROWS - 1) * COLS
  /\ UNCHANGED <<input, fifo, shift, down, lock, ilock, th, left>>

Step(t) == IF t \in Devs THEN Intr(t) \/ IntrChar(t) \/ IntrEnd(t) \/ Procdump(t)
           ELSE Dev(t) \/ Consoleread(t) \/ Sleep(t) \/ Consolewrite(t) \/ Leave(t)
Next ==
  \/ \E k \in left.keys : KeyDown(k)
  \/ \E c \in Char : Serial(c)
  \/ \E t \in Threads : Step(t)
  \/ \E q \in Procs : Enter(q) \/ Kill(q)
  \/ Panic
Spec == Init /\ [][Next]_vars

\* Interrupts are delivered and handlers end; a process in the kernel goes on, and one
\* that finds the inode's lock free again and again gets it.
FairSpec == Spec /\ (\A t \in Threads : WF_vars(Step(t))) /\ \A q \in Procs : SF_vars(Leave(q))

-----------------------------------------------------------------------------
(* Properties                                                              *)

\* The variables keep their types, and the cursor stays where the screen memory is: the
\* panic on "pos under/overflow" in cgaputc is out of reach.
TypeOK ==
  /\ {input.r, input.w, input.e} \subseteq 0 .. W - 1
  /\ pos \in 0 .. ROWS * COLS - 1
  /\ {lock, ilock} \subseteq Threads \cup {""}
  /\ shift \subseteq {"CTL", "E0"} /\ panicked \in BOOLEAN

\* The ring buffer, with its three counters wrapping, implements the lines of module
\* LineQueue: what was typed and not erased is read once and in order, editing never
\* reaches a finished line, a full buffer drops keys and nothing else, and a ^D is an
\* end of file for exactly one read, which gets nothing else.
Lines == INSTANCE LineQueue WITH Size <- INPUT_BUF, q <- Content(input.r, input.w),
           line <- Content(input.w, input.e)
InputIsLines == Lines!Spec

\* When kbdgetc has read every code, a control key it takes to be down is down.
NoStuckKey == TypeOK /\ (fifo["kbd"] = <<>> => ("CTL" \in shift => down # {}) /\ "E0" \notin shift)

\* A process that is writing gets done, though readers sleep in the same inode for input
\* that never comes; and a reader returns once there is something to read.
CallsReturn ==
  /\ \A q \in Writers : th[q].pc # "user" ~> th[q].pc = "user" \/ panicked
  /\ \A q \in Readers : th[q].pc # "user" /\ input.r # input.w
       ~> th[q].pc \in {"user", "dead"} \/ input.r = input.w \/ panicked
=============================================================================
