--------------------------------- MODULE MCFs ---------------------------------
EXTENDS Fs, TLC

Root(entries, n) ==
  [dinode |-> [i \in Inum |->
     CASE i = 1 -> [type |-> "dir", nlink |-> n, addrs |-> {1}]
       [] i = 2 /\ n = 1 -> [type |-> "file", nlink |-> 1, addrs |-> {}]
       [] i = 2 /\ n = 2 -> [type |-> "dir", nlink |-> 1, addrs |-> {2}]
       [] OTHER -> Unallocated],
   dirent |-> [i \in Inum |-> CASE i = 1 -> entries @@ (".." :> 1) @@ NoEntries
                                [] i = 2 /\ n = 2 -> (".." :> 1) @@ NoEntries
                                [] OTHER -> NoEntries],
   bitmap |-> 1..n, lost |-> {}]

\* One file, or one empty directory, in the root.
Images == {Root("a" :> 2, 1), Root("d" :> 2, 2)}

P(elems) == [abs |-> TRUE, elems |-> elems]
R(elems) == [abs |-> FALSE, elems |-> elems]
C(kind, path) == [kind |-> kind, path |-> path, new |-> None]
L(path, new) == [kind |-> "link", path |-> path, new |-> new]

\* A file a and a directory d in the root, and files a in d.
Calls1 ==
  {C("mkdir", P(<<"d">>)), C("unlink", P(<<"d">>)), C("unlink", P(<<"a">>)),
   C("creat", P(<<"d", "a">>)), C("unlink", P(<<"d", "a">>)),
   C("creat", P(<<"a">>)), C("trunc", P(<<"a">>)), C("open", P(<<"d">>)),
   C("chdir", P(<<"d">>)), C("creat", R(<<"d">>)), C("mknod", R(<<"a">>)),
   C("unlink", R(<<"..">>)), C("unlink", P(<<>>)),
   L(P(<<"a">>), P(<<"d", "a">>)), L(P(<<"a">>), P(<<"d">>)),
   L(P(<<"d">>), P(<<"a">>))}

\* A current directory, and the directory it is in, are removed.
CallsDots ==
  {C("mkdir", P(<<"d", "a">>)), C("chdir", P(<<"d", "a">>)),
   C("unlink", P(<<"d", "a">>)), C("unlink", P(<<"d">>)),
   C("chdir", R(<<"..">>))}

Symmetry == Permutations(Proc)
===============================================================================
