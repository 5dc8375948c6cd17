------------------------------- MODULE FileSys -------------------------------
(***************************************************************************)
(* The inode cache and the directories of fs.c under the system calls of   *)
(* sysfile.c that name files.  A step is a critical section of icache.lock *)
(* or of an inode's sleep lock; every call is inside one transaction, so   *)
(* the log makes durable what dinode holds when no call is active.  File   *)
(* contents are in module Blocks, shared descriptors in module Files.      *)
(***************************************************************************)
EXTENDS Naturals, Sequences, FiniteSets

CONSTANTS
  NINODES,      \* inode numbers are 1 .. NINODES - 1
  NINODE,       \* entries of the inode cache
  Procs, None,  \* processes, and no process
  Workloads     \* name -> [the calls of each process, the tree on the disk]

ROOTINO == 1
Inums == 1 .. NINODES - 1
Slots == 1 .. NINODE

VARIABLES
  dinode,       \* the disk, as the buffer cache has it: type, nlink, directory entries
  icache,       \* inum, ref, I_VALID, and the copies of type and nlink
  lk,           \* the holder of each inode's sleep lock
  cwd, ofile,   \* each process's directory and open file (NOFILE = 1; 0: none)
  t,            \* each process's kernel thread
  load,         \* the workload
  raced         \* ialloc has handed out an inode that iput was still freeing

vars == <<dinode, icache, lk, cwd, ofile, t, load, raced>>

\* A thread: its place and call; namex's inode w, the elements it has left, the last one
\* it found and where it returns to (w is then the call's ip, or its dp); the call's ip;
\* what iput drops, and its return.
Idle == [pc |-> "user", op |-> "none", w |-> 0, elems |-> <<>>, name |-> "", then |-> "user",
         new |-> [abs |-> TRUE, elems |-> <<>>], ip |-> 0, vic |-> 0, ret |-> "user"]

Free == [type |-> "free", nlink |-> 0, ents |-> <<>>]
Dirent(n, i) == [name |-> n, inum |-> i]
NoInode == [inum |-> 0, ref |-> 0, valid |-> FALSE, type |-> "free", nlink |-> 0]

Init ==
  /\ load \in DOMAIN Workloads
  /\ dinode = Workloads[load].tree
  /\ icache = [s \in Slots |->
       IF s = 1 THEN [NoInode EXCEPT !.inum = ROOTINO, !.ref = Cardinality(Procs)] ELSE NoInode]
  /\ lk = [s \in Slots |-> None]
  /\ cwd = [p \in Procs |-> 1] /\ ofile = [p \in Procs |-> 0]
  /\ t = [p \in Procs |-> Idle] /\ raced = FALSE

-----------------------------------------------------------------------------
(* fs.c: the inode cache                                                   *)

\* iget: the entry that has inode i, else the first unused one; 0 when it panics.
Cached(i) == {s \in Slots : icache[s].ref > 0 /\ icache[s].inum = i}
Unused == {s \in Slots : icache[s].ref = 0}
Iget(i, s) ==
  IF Cached(i) # {}
  THEN s \in Cached(i) /\ icache' = [icache EXCEPT ![s].ref = @ + 1]
  ELSE IF Unused # {}
  THEN /\ s \in Unused /\ \A u \in Unused : s <= u
       /\ icache' = [icache EXCEPT ![s] = [NoInode EXCEPT !.inum = i, !.ref = 1]]
  ELSE s = 0 /\ UNCHANGED icache

OrPanic(s, r) == IF s = 0 THEN [Idle EXCEPT !.pc = "panic"] ELSE r

Idup(s) == icache' = [icache EXCEPT ![s].ref = @ + 1]

\* ilock reads the inode if it is not valid.
Loaded(s) == IF icache[s].valid THEN icache[s]
  ELSE LET d == dinode[icache[s].inum]
       IN  [icache[s] EXCEPT !.valid = TRUE, !.type = d.type, !.nlink = d.nlink]
Ilock(p, s, r, next) ==
  /\ lk[s] = None
  /\ lk' = [lk EXCEPT ![s] = p]
  /\ icache' = [icache EXCEPT ![s] = Loaded(s)]
  /\ t' = [t EXCEPT ![p] = [r EXCEPT !.pc =
       IF ~icache[s].valid /\ Loaded(s).type = "free" THEN "panic" ELSE next]]
  /\ UNCHANGED <<dinode, cwd, ofile, load, raced>>

Iunlock(S) == lk' = [s \in Slots |-> IF s \in S THEN None ELSE lk[s]]

\* iupdate copies the cached type and link count to the disk.
Iupdate(d, c) == [d EXCEPT !.type = c.type, !.nlink = c.nlink]

\* A thread r about to iput(s) and then to go on at next.
Putting(r, s, next) == [r EXCEPT !.pc = "iput", !.vic = s, !.ret = next]
Resumed_NoPutIp(r) ==
  IF r.ret \in {"user", "putip"} THEN Idle ELSE [r EXCEPT !.pc = r.ret, !.vic = 0, !.ret = "user"]
Resumed(r) ==
  CASE r.ret = "user"  -> Idle
    [] r.ret = "putip" -> Putting([r EXCEPT !.ip = 0], r.ip, "user")
    [] OTHER           -> [r EXCEPT !.pc = r.ret, !.vic = 0, !.ret = "user"]

\* iput: the last reference to an inode without links frees it, in three more steps
\* (itrunc; type = 0 and iupdate; flags = 0) that hold no lock.
LastRef_Never(s) == icache[s].ref = 0 /\ icache[s].valid /\ icache[s].nlink = 0
LastRef_NoLinkTest(s) == icache[s].ref = 1 /\ icache[s].valid
LastRef(s) == icache[s].ref = 1 /\ icache[s].valid /\ icache[s].nlink = 0
Iput(p) ==
  LET s == t[p].vic IN
  /\ t[p].pc = "iput"
  /\ IF LastRef(s)
     THEN t' = [t EXCEPT ![p].pc = "itrunc"] /\ UNCHANGED icache
     ELSE t' = [t EXCEPT ![p] = Resumed(@)] /\ icache' = [icache EXCEPT ![s].ref = @ - 1]
  /\ UNCHANGED <<dinode, lk, cwd, ofile, load, raced>>

Itrunc(p) ==
  LET c == icache[t[p].vic] IN
  /\ t[p].pc = "itrunc"
  /\ dinode' = [dinode EXCEPT ![c.inum] = Iupdate([@ EXCEPT !.ents = <<>>], c)]
  /\ t' = [t EXCEPT ![p].pc = "ifree"]
  /\ UNCHANGED <<icache, lk, cwd, ofile, load, raced>>

Ifree(p) ==
  LET s == t[p].vic IN
  /\ t[p].pc = "ifree"
  /\ icache' = [icache EXCEPT ![s].type = "free"]
  /\ dinode' = [dinode EXCEPT ![icache[s].inum] = Iupdate(@, icache'[s])]
  /\ t' = [t EXCEPT ![p].pc = "iclear"]
  /\ UNCHANGED <<lk, cwd, ofile, load, raced>>

Iclear(p) ==
  /\ t[p].pc = "iclear"
  /\ icache' = [icache EXCEPT ![t[p].vic].valid = FALSE, ![t[p].vic].ref = @ - 1]
  /\ t' = [t EXCEPT ![p] = Resumed(@)]
  /\ UNCHANGED <<dinode, lk, cwd, ofile, load, raced>>

\* ialloc: the first inode the disk has as free.
Ialloc(i) == dinode[i].type = "free" /\ \A j \in Inums : dinode[j].type = "free" => i <= j
BeingFreed(i) == \E p \in Procs : t[p].pc = "iclear" /\ icache[t[p].vic].inum = i

-----------------------------------------------------------------------------
(* fs.c: directories and paths                                             *)

Ents(s) == dinode[icache[s].inum].ents

\* dirlookup: the positions of name n in directory s.
Dirlookup(s, n) == {k \in DOMAIN Ents(s) : Ents(s)[k].inum # 0 /\ Ents(s)[k].name = n}
InumOf(s, n) == Ents(s)[CHOOSE k \in Dirlookup(s, n) : TRUE].inum

\* dirlink: the first empty entry of the directory, or a new one at its end.
Dirlink(ents, n, i) ==
  LET empty == {k \in DOMAIN ents : ents[k].inum = 0}
  IN  IF empty = {} THEN Append(ents, Dirent(n, i))
      ELSE [ents EXCEPT ![CHOOSE k \in empty : \A j \in empty : k <= j] = Dirent(n, i)]

\* namex stops at the parent for these callers (nameiparent).
Parent(r) == r.then \in {"create", "linkdir", "unlink"}
Failed(r) == IF r.then = "linkdir" THEN "linkbad" ELSE "user"

\* namex: the root or the current directory first ...
Namex(p, r, path) ==
  \E s \in Slots \cup {0} :
    /\ IF path.abs THEN Iget(ROOTINO, s) ELSE s = cwd[p] /\ Idup(s)
    /\ t' = [t EXCEPT ![p] = OrPanic(s, [r EXCEPT !.pc = "walk", !.w = s, !.elems = path.elems])]

\* ... then one element after another: lock the inode ...
NamexLock(p) ==
  /\ t[p].pc = "walk" /\ t[p].elems # <<>>
  /\ Ilock(p, t[p].w, t[p], "look")

\* ... look the element up, unlock and drop the directory, go on with the entry's inode.
NamexLook(p) ==
  LET r == t[p]
      s == r.w
      last == Parent(r) /\ Len(r.elems) = 1
      n == Head(r.elems)
  IN
  /\ r.pc = "look"
  /\ Iunlock({s})
  /\ IF icache[s].type # "dir" \/ (~last /\ Dirlookup(s, n) = {})
     THEN t' = [t EXCEPT ![p] = Putting([@ EXCEPT !.w = 0], s, Failed(r))] /\ UNCHANGED icache
     ELSE IF last
     THEN t' = [t EXCEPT ![p].pc = r.then, ![p].name = n, ![p].elems = <<>>] /\ UNCHANGED icache
     ELSE \E next \in Slots \cup {0} :
            /\ Iget(InumOf(s, n), next)
            /\ t' = [t EXCEPT ![p] =
                 OrPanic(next, Putting([@ EXCEPT !.w = next, !.elems = Tail(r.elems)], s, "walk"))]
  /\ UNCHANGED <<dinode, cwd, ofile, load, raced>>

\* The path is used up: its inode, or nothing when the caller wants the parent of "/".
NamexDone(p) ==
  LET r == t[p] IN
  /\ r.pc = "walk" /\ r.elems = <<>>
  /\ t' = [t EXCEPT ![p] = IF Parent(r) THEN Putting([@ EXCEPT !.w = 0], r.w, Failed(r))
                           ELSE [@ EXCEPT !.pc = r.then]]
  /\ UNCHANGED <<dinode, icache, lk, cwd, ofile, load, raced>>

-----------------------------------------------------------------------------
(* sysfile.c                                                               *)

Then(op) == CASE op \in {"open", "openw"} -> "open"
              [] op \in {"creat", "mkdir", "mknod"} -> "create"
              [] OTHER -> op

NodeType(op) == CASE op = "creat" -> "file" [] op = "mkdir" -> "dir" [] op = "mknod" -> "dev"

\* No call begins once the race has happened: what it leaves behind is not followed further.
Syscall(p) ==
  /\ t[p].pc = "user" /\ ~raced
  /\ \E c \in Workloads[load].calls[p] :
       /\ c.op # "close"
       /\ Namex(p, [Idle EXCEPT !.op = c.op, !.then = Then(c.op), !.new = c.new], c.path)
  /\ UNCHANGED <<dinode, lk, cwd, ofile, load, raced>>

\* fileclose of the last descriptor.
SysClose(p) ==
  /\ t[p].pc = "user" /\ ~raced /\ ofile[p] # 0
  /\ \E c \in Workloads[load].calls[p] : c.op = "close"
  /\ t' = [t EXCEPT ![p] = Putting([Idle EXCEPT !.op = "close"], ofile[p], "user")]
  /\ ofile' = [ofile EXCEPT ![p] = 0]
  /\ UNCHANGED <<dinode, icache, lk, cwd, load, raced>>

\* iunlockput(ip), the end of mkdir, mknod and of a create that finds another type.
IunlockputIp(p) ==
  /\ t[p].pc = "drop"
  /\ Iunlock({t[p].ip})
  /\ t' = [t EXCEPT ![p] = Putting([@ EXCEPT !.ip = 0], t[p].ip, "user")]
  /\ UNCHANGED <<dinode, icache, cwd, ofile, load, raced>>

SysOpenLock(p) ==
  /\ t[p].pc = "open"
  /\ Ilock(p, t[p].w, [t[p] EXCEPT !.ip = t[p].w, !.w = 0], "opened")

\* filealloc and fdalloc, or iunlockput(ip).
SysOpenFd(p) ==
  LET ip == t[p].ip IN
  /\ t[p].pc = "opened"
  /\ Iunlock({ip})
  /\ IF ofile[p] # 0 \/ (t[p].op = "openw" /\ icache[ip].type = "dir")
     THEN t' = [t EXCEPT ![p] = Putting([@ EXCEPT !.ip = 0], ip, "user")] /\ UNCHANGED ofile
     ELSE t' = [t EXCEPT ![p] = Idle] /\ ofile' = [ofile EXCEPT ![p] = ip]
  /\ UNCHANGED <<dinode, icache, cwd, load, raced>>

CreateLock(p) == t[p].pc = "create" /\ Ilock(p, t[p].w, t[p], "clook")

\* An entry of that name (dp is dropped), or a new inode; a disk without inodes panics.
CreateLook(p) ==
  LET r == t[p]
      dp == r.w
  IN
  /\ r.pc = "clook"
  /\ IF Dirlookup(dp, r.name) # {}
     THEN \E s \in Slots \cup {0} :
            /\ Iget(InumOf(dp, r.name), s)
            /\ Iunlock({dp})
            /\ t' = [t EXCEPT ![p] = OrPanic(s, Putting([@ EXCEPT !.ip = s, !.w = 0], dp, "cold"))]
            /\ UNCHANGED <<dinode, raced>>
     ELSE IF \A i \in Inums : ~Ialloc(i)
     THEN t' = [t EXCEPT ![p].pc = "full"] /\ UNCHANGED <<dinode, icache, lk, raced>>
     ELSE \E i \in Inums, s \in Slots \cup {0} :
            /\ Ialloc(i) /\ Iget(i, s)
            /\ dinode' = [dinode EXCEPT ![i] = [Free EXCEPT !.type = NodeType(r.op)]]
            /\ raced' = (raced \/ BeingFreed(i))
            /\ t' = [t EXCEPT ![p] = OrPanic(s, [@ EXCEPT !.ip = s, !.pc = "cnew"])]
            /\ UNCHANGED lk
  /\ UNCHANGED <<cwd, ofile, load>>

\* create returns an old inode only as a file for a file.
CreateOld(p) ==
  /\ t[p].pc = "cold"
  /\ Ilock(p, t[p].ip, t[p],
           IF t[p].op = "creat" /\ Loaded(t[p].ip).type = "file" THEN "opened" ELSE "drop")

CreateNew(p) == t[p].pc = "cnew" /\ Ilock(p, t[p].ip, t[p], "centry")

\* nlink = 1 and the entries: ".", ".." (with dp's nlink) and the name; dp is dropped.
Linked(s, n) == icache[s].nlink + n
CreateEntry(p) ==
  LET r == t[p]
      dp == r.w
      i == icache[r.ip].inum
      d == icache[dp].inum
      dir == r.op = "mkdir"
  IN
  /\ r.pc = "centry"
  /\ icache' = [icache EXCEPT ![r.ip].nlink = 1, ![dp].nlink = IF dir THEN Linked(dp, 1) ELSE @]
  /\ dinode' = [dinode EXCEPT
       ![i] = Iupdate([@ EXCEPT !.ents = IF dir THEN <<Dirent(".", i), Dirent("..", d)>> ELSE @], icache'[r.ip]),
       ![d] = LET e == [@ EXCEPT !.ents = Dirlink(@, r.name, i)]
              IN  IF dir THEN Iupdate(e, icache'[dp]) ELSE e]
  /\ Iunlock({dp})
  /\ t' = [t EXCEPT ![p] = Putting([@ EXCEPT !.w = 0], dp, IF r.op = "creat" THEN "opened" ELSE "drop")]
  /\ UNCHANGED <<cwd, ofile, load, raced>>

SysLinkLock(p) ==
  /\ t[p].pc = "link"
  /\ Ilock(p, t[p].w, [t[p] EXCEPT !.ip = t[p].w, !.w = 0], "linkinc")

\* nlink = n and iupdate.
SetNlink(s, n) ==
  /\ icache' = [icache EXCEPT ![s].nlink = n]
  /\ dinode' = [dinode EXCEPT ![icache[s].inum] = Iupdate(@, icache'[s])]

\* sys_link counts the link before it makes the entry.
SysLinkInc(p) ==
  LET ip == t[p].ip IN
  /\ t[p].pc = "linkinc"
  /\ Iunlock({ip})
  /\ IF icache[ip].type = "dir"
     THEN /\ t' = [t EXCEPT ![p] = Putting([@ EXCEPT !.ip = 0], ip, "user")]
          /\ UNCHANGED <<dinode, icache>>
     ELSE SetNlink(ip, Linked(ip, 1)) /\ t' = [t EXCEPT ![p].pc = "linknew"]
  /\ UNCHANGED <<cwd, ofile, load, raced>>

SysLinkNew(p) ==
  /\ t[p].pc = "linknew"
  /\ Namex(p, [t[p] EXCEPT !.then = "linkdir", !.new = Idle.new], t[p].new)
  /\ UNCHANGED <<dinode, lk, cwd, ofile, load, raced>>

SysLinkDirLock(p) == t[p].pc = "linkdir" /\ Ilock(p, t[p].w, t[p], "linkent")

\* dirlink(dp, name, ip->inum) and iunlockput(dp); then iput(ip), or the undoing.
SysLinkEnt(p) ==
  LET r == t[p]
      dp == r.w
      dup == Dirlookup(dp, r.name) # {}
  IN
  /\ r.pc = "linkent"
  /\ Iunlock({dp})
  /\ dinode' = IF dup THEN dinode ELSE
       [dinode EXCEPT ![icache[dp].inum].ents = Dirlink(@, r.name, icache[r.ip].inum)]
  /\ t' = [t EXCEPT ![p] = Putting([@ EXCEPT !.w = 0], dp, IF dup THEN "linkbad" ELSE "putip")]
  /\ UNCHANGED <<icache, cwd, ofile, load, raced>>

SysLinkBad(p) == t[p].pc = "linkbad" /\ Ilock(p, t[p].ip, t[p], "declink")

\* ip->nlink--, iupdate, iunlockput(ip): sys_link's undoing and sys_unlink's end.
DecLink(p) ==
  LET ip == t[p].ip IN
  /\ t[p].pc = "declink"
  /\ SetNlink(ip, icache[ip].nlink - 1)
  /\ Iunlock({ip})
  /\ t' = [t EXCEPT ![p] = Putting([@ EXCEPT !.ip = 0], ip, "user")]
  /\ UNCHANGED <<cwd, ofile, load, raced>>

SysUnlinkLock(p) == t[p].pc = "unlink" /\ Ilock(p, t[p].w, t[p], "ulook")

\* Cannot unlink "." or "..": they lead to the directory itself, and up.
Undeletable_None == {}
Undeletable == {".", ".."}
SysUnlinkLook(p) ==
  LET r == t[p]
      dp == r.w
  IN
  /\ r.pc = "ulook"
  /\ IF r.name \in Undeletable \/ Dirlookup(dp, r.name) = {}
     THEN /\ Iunlock({dp})
          /\ t' = [t EXCEPT ![p] = Putting([@ EXCEPT !.w = 0], dp, "user")]
          /\ UNCHANGED icache
     ELSE \E s \in Slots \cup {0} :
          /\ Iget(InumOf(dp, r.name), s)
          /\ t' = [t EXCEPT ![p] = OrPanic(s, [@ EXCEPT !.ip = s, !.pc = "uip"])]
          /\ UNCHANGED lk
  /\ UNCHANGED <<dinode, cwd, ofile, load, raced>>

\* The child's lock, under the directory's.
SysUnlinkIp(p) == t[p].pc = "uip" /\ Ilock(p, t[p].ip, t[p], "uent")

Isdirempty(i) == \A k \in 3 .. Len(dinode[i].ents) : dinode[i].ents[k].inum = 0

\* Not an empty directory: iunlockput(ip), then iunlockput(dp).  Else the entry is zeroed,
\* dp loses the link of the child's "..", and is dropped before ip's count is changed.
SysUnlinkEnt(p) ==
  LET r == t[p]
      dp == r.w
      ip == r.ip
      i == icache[ip].inum
      d == icache[dp].inum
      dir == icache[ip].type = "dir"
  IN
  /\ r.pc = "uent"
  /\ IF icache[ip].nlink < 1
     THEN t' = [t EXCEPT ![p].pc = "panic"] /\ UNCHANGED <<dinode, icache, lk>>
     ELSE IF dir /\ ~Isdirempty(i)
     THEN /\ Iunlock({ip})
          /\ t' = [t EXCEPT ![p] = Putting([@ EXCEPT !.ip = 0], ip, "ubad")]
          /\ UNCHANGED <<dinode, icache>>
     ELSE /\ Iunlock({dp})
          /\ icache' = [icache EXCEPT ![dp].nlink = IF dir THEN @ - 1 ELSE @]
          /\ dinode' = [dinode EXCEPT ![d] =
               LET k == CHOOSE k \in Dirlookup(dp, r.name) : TRUE
                   e == [@ EXCEPT !.ents[k] = Dirent("", 0)]
               IN  IF dir THEN Iupdate(e, icache'[dp]) ELSE e]
          /\ t' = [t EXCEPT ![p] = Putting([@ EXCEPT !.w = 0], dp, "declink")]
  /\ UNCHANGED <<cwd, ofile, load, raced>>

SysUnlinkBad(p) ==
  /\ t[p].pc = "ubad"
  /\ Iunlock({t[p].w})
  /\ t' = [t EXCEPT ![p] = Putting([@ EXCEPT !.w = 0], t[p].w, "user")]
  /\ UNCHANGED <<dinode, icache, cwd, ofile, load, raced>>

SysChdirLock(p) == t[p].pc = "chdir" /\ Ilock(p, t[p].w, t[p], "chdir2")

\* iput drops the old directory (proc->cwd, which only its process reads, is set here).
SysChdir(p) ==
  LET r == t[p]
      dir == icache[r.w].type = "dir"
  IN
  /\ r.pc = "chdir2"
  /\ Iunlock({r.w})
  /\ t' = [t EXCEPT ![p] = Putting([@ EXCEPT !.w = 0], IF dir THEN cwd[p] ELSE r.w, "user")]
  /\ cwd' = [cwd EXCEPT ![p] = IF dir THEN r.w ELSE @]
  /\ UNCHANGED <<dinode, icache, ofile, load, raced>>

Inodes(p) == Iput(p) \/ Itrunc(p) \/ Ifree(p) \/ Iclear(p)
Paths(p) == NamexLock(p) \/ NamexLook(p) \/ NamexDone(p)
Open(p) == SysOpenLock(p) \/ SysOpenFd(p) \/ SysClose(p) \/ SysChdirLock(p) \/ SysChdir(p)
Create(p) == CreateLock(p) \/ CreateLook(p) \/ CreateOld(p) \/ CreateNew(p) \/ CreateEntry(p)
Link(p) == SysLinkLock(p) \/ SysLinkInc(p) \/ SysLinkNew(p) \/ SysLinkDirLock(p) \/ SysLinkEnt(p) \/ SysLinkBad(p)
Unlink(p) == SysUnlinkLock(p) \/ SysUnlinkLook(p) \/ SysUnlinkIp(p) \/ SysUnlinkEnt(p) \/ SysUnlinkBad(p)
Next == \E p \in Procs : Syscall(p) \/ Inodes(p) \/ Paths(p) \/ Open(p) \/ Create(p) \/ IunlockputIp(p)
                           \/ Link(p) \/ DecLink(p) \/ Unlink(p)
Spec == Init /\ [][Next]_vars

-----------------------------------------------------------------------------
(* Properties                                                              *)

DirentType == [name : STRING, inum : Inums \cup {0}]

\* The variables keep their types: link counts and reference counts never go below zero.
TypeOK ==
  /\ \A i \in Inums : /\ dinode[i].type \in {"free", "file", "dir", "dev"}
                      /\ dinode[i].nlink \in Nat
                      /\ \A k \in DOMAIN dinode[i].ents : dinode[i].ents[k] \in DirentType
  /\ \A s \in Slots : /\ icache[s].inum \in Inums \cup {0} /\ icache[s].ref \in Nat
                      /\ icache[s].nlink \in Nat
  /\ lk \in [Slots -> Procs \cup {None}]
  /\ cwd \in [Procs -> Slots] /\ ofile \in [Procs -> Slots \cup {0}]

\* "ip->ref tracks the number of in-memory pointers to the entry" (fs.c): open files,
\* current directories and the pointers of calls in progress.
RefsExact(s) == icache[s].ref =
  Cardinality({p \in Procs : cwd[p] = s}) + Cardinality({p \in Procs : ofile[p] = s})
  + Cardinality({p \in Procs : t[p].w = s}) + Cardinality({p \in Procs : t[p].ip = s})
  + Cardinality({p \in Procs : t[p].vic = s})
\* "The information in an inode cache entry is only correct when the I_VALID bit is set."
ValidIsCurrent(s) == icache[s].ref > 0 /\ icache[s].valid =>
  icache[s].type = dinode[icache[s].inum].type /\ icache[s].nlink = dinode[icache[s].inum].nlink

\* The inode cache is exact on every error path of namex, create, sys_link, sys_unlink,
\* sys_open and sys_chdir: references are counted, iget never makes two entries of one
\* inode, and a valid entry says what the disk says.  Only the last may fail, and only once
\* ialloc has handed out an inode before iput cleared the entry it was freeing.
CacheExact ==
  /\ TypeOK
  /\ \A s \in Slots : RefsExact(s) /\ (raced \/ ValidIsCurrent(s))
  /\ \A a, b \in Slots : icache[a].ref > 0 /\ icache[b].ref > 0 /\ icache[a].inum = icache[b].inum => a = b

\* The entries <<d, k>> that name inode i; the ".." of a directory that is still in one.
Entries(i, dots) == {<<d, k>> \in Inums \X (1 .. 9) :
  /\ dinode[d].type = "dir" /\ k \in DOMAIN dinode[d].ents
  /\ dinode[d].ents[k].inum = i /\ (dinode[d].ents[k].name \in {".", ".."}) = dots}
Naming(i) == Entries(i, FALSE) \cup
  {e \in Entries(i, TRUE) : e[2] = 2 /\ (e[1] = ROOTINO \/ Entries(e[1], FALSE) # {})}

\* The order of sys_link, sys_unlink and create: at every moment an inode's link count is
\* at least the number of entries that name it, and a named inode is allocated.  So no
\* file is freed under a name, whatever is committed when, and no call panics over what a
\* name leads to (ilock of a free inode, unlink of what has no links).
NoDanglingName ==
  \/ raced
  \/ /\ \A i \in Inums : Naming(i) # {} => dinode[i].type # "free" /\ dinode[i].nlink >= Cardinality(Naming(i))
     /\ \A p \in Procs : t[p].pc # "panic"

\* What a call that waits for an inode's lock waits for.
Awaits(r) ==
  CASE r.pc = "walk" /\ r.elems # <<>> -> r.w
    [] r.pc \in {"open", "create", "link", "linkdir", "unlink", "chdir"} -> r.w
    [] r.pc \in {"cold", "cnew", "linkbad", "uip"} -> r.ip
    [] OTHER -> 0

\* Inode locks never deadlock: sys_unlink and create lock a child under its directory, and
\* namex gives one lock up before it takes the next, so some active call can always go on.
SomeCallRuns ==
  LET active == {p \in Procs : t[p].pc # "user"}
  IN  active # {} => \E p \in active : Awaits(t[p]) = 0 \/ lk[Awaits(t[p])] = None

\* When no call is active, which is when the log can commit, the disk agrees with the
\* calls: only an inode in use may lack links, so freed inodes leak nowhere.
QuietDisk ==
  (~raced /\ \A p \in Procs : t[p].pc = "user") =>
    \A i \in Inums : dinode[i].type # "free" /\ dinode[i].nlink = 0 => Cached(i) # {}
=============================================================================
