------------------------------ MODULE MCFileSys ------------------------------
(***************************************************************************)
(* Workloads for FileSys on three inodes: the root, and two more.          *)
(***************************************************************************)
EXTENDS FileSys, Path

CONSTANTS p1, p2

\* A path, as namex takes it apart; FileSys has names as strings.
Str(s) == FoldLeft(LAMBDA x, y : x \o y, "", s)
At(path) == [abs |-> path[1] = "/", elems |-> [k \in DOMAIN NamexElems(path) |-> Str(NamexElems(path)[k].name)]]
Call(o, p) == [op |-> o, path |-> p, new |-> Idle.new]
LinkCall(p, n) == [op |-> "link", path |-> p, new |-> n]

Root(ents, n) == [type |-> "dir", nlink |-> n, ents |-> <<Dirent(".", 1), Dirent("..", 1)>> \o ents]

\* An empty file system, as mkfs leaves it.
Empty == [i \in Inums |-> IF i = ROOTINO THEN Root(<<>>, 1) ELSE Free]

\* /a is a file and /d an empty directory.
Tree == [i \in Inums |->
  CASE i = 1 -> Root(<<Dirent("a", 2), Dirent("d", 3)>>, 2)
    [] i = 2 -> [type |-> "file", nlink |-> 1, ents |-> <<>>]
    [] i = 3 -> [type |-> "dir", nlink |-> 1, ents |-> <<Dirent(".", 3), Dirent("..", 1)>>]
    [] OTHER -> Free]

Workload(disk, c1, c2) == [tree |-> disk, calls |-> p1 :> c1 @@ p2 :> c2]

\* Two processes open, link and remove one file.
Sharing == LET calls ==
    {Call("open", At(<<"/", "a">>)), Call("close", At(<<"/">>)), Call("unlink", At(<<"a">>)),
     LinkCall(At(<<"/", "a">>), At(<<"/", "b">>)), Call("unlink", At(<<"/", "b">>))}
  IN Workload(Tree, calls, calls)

\* One process removes a directory and a file, the other works in the directory.
Removing == Workload(Tree,
  {Call("unlink", At(<<"/", "d">>)), Call("unlink", At(<<"/", "/", "d", "/", "a", "/">>)), Call("openw", At(<<"/", "d">>)),
   Call("unlink", At(<<"a">>)), LinkCall(At(<<"/", "d">>), At(<<"/", "b">>))},
  {LinkCall(At(<<"/", "a">>), At(<<"/", "d", "/", "a">>)), Call("chdir", At(<<"/", "d">>)), Call("chdir", At(<<".", ".">>)),
   Call("open", At(<<"a">>)), Call("close", At(<<"/">>))})

\* One process also makes files, directories and devices.
Making == Workload(Empty,
  {Call("creat", At(<<"/", "a">>)), Call("creat", At(<<"a">>)), Call("close", At(<<"/">>)),
   Call("mkdir", At(<<"/", "d">>)), Call("mknod", At(<<"/", "d">>)), Call("mkdir", At(<<"/", "a">>)),
   Call("open", At(<<"d">>)),
   Call("unlink", At(<<"/", "a">>)), Call("unlink", At(<<"/", "d">>)), Call("unlink", At(<<"d", "/", "a">>)),
   Call("unlink", At(<<"/">>)), Call("unlink", At(<<"/", "d", "/", ".">>)),
   LinkCall(At(<<"a">>), At(<<"/", "d", "/", "a">>)), Call("chdir", At(<<"d">>)), Call("chdir", At(<<".", ".">>))},
  {})

\* Two processes create and remove one name.
Racing == LET calls == {Call("creat", At(<<"/", "a">>)), Call("close", At(<<"/">>)), Call("unlink", At(<<"/", "a">>))}
  IN Workload(Empty, calls, calls)

\* Every path of at most MaxPath characters.
MaxPath == 6
AllPaths == UNION {[1 .. k -> {"/", "a", "b"}] : k \in 0 .. MaxPath}

AllSplit == \A s \in AllPaths : NamexElems(s) = Elements(s)

\* namex looks up the elements of a path from left to right, however many slashes are
\* around them, cuts names too long to DIRSIZ, and takes exactly the final one for the
\* last: what nameiparent's callers create, link or remove is in the right directory.
SplitsPaths == \A p \in Procs : t[p].elems # <<>> => AllSplit

Passing == [sharing |-> Sharing, removing |-> Removing, making |-> Making, racing |-> Racing]
=============================================================================
