---------------------------------- MODULE Fs ----------------------------------
(***************************************************************************)
(* Inodes, directories and the system calls that change them: kernel/fs.c  *)
(* and kernel/sysfile.c.  A section under an inode's sleep lock, or under  *)
(* itable.lock, is one step; a process that needs a second lock gets it in *)
(* a step of its own.  The log is what AtomicDisk.tla says: the changes of *)
(* a group of overlapping operations become durable together, when the     *)
(* last of them ends.                                                      *)
(*                                                                         *)
(* The entries of a directory fit one block.  A file has at most one block *)
(* of data, and its contents are left out.                                 *)
(*                                                                         *)
(* A definition whose name ends in _bug is a deliberate error in the one   *)
(* that follows it; each property is shown to fail when such an error is   *)
(* made.                                                                   *)
(***************************************************************************)
EXTENDS Naturals, FiniteSets, Sequences

CONSTANTS Proc, None,
          NINODES,   \* inodes on the disk; the root is number 1
          Name,      \* names of directory entries other than . and ..
          Block,     \* data blocks, as numbers: balloc() takes the first
          Image,     \* disks to start with: as mkfs makes them, or used
          Call,      \* system calls with their paths
          MaxCall,   \* bound: system calls
          MaxCrash   \* bound: crashes

ASSUME FsAssumption ==
  /\ NINODES \in Nat \ {0} /\ Block \subseteq Nat /\ 1 \in Block
  /\ MaxCall \in Nat /\ MaxCrash \in Nat
  /\ IsFiniteSet(Proc) /\ IsFiniteSet(Name) /\ ".." \notin Name

Inum == 1..NINODES
ROOTINO == 1
Entry == Name \cup {".."}

Dinode == [type : {"none", "file", "dir", "dev"}, nlink : Nat,
           addrs : SUBSET Block]
Unallocated == [type |-> "none", nlink |-> 0, addrs |-> {}]

\* Inodes, the entries of directories, the bitmap of used blocks; lost is a
\* history: the directories that have been removed and are not freed yet, and
\* what has been entered in them since.
Disk == [dinode : [Inum -> Dinode], dirent : [Inum -> [Entry -> Inum \cup {0}]],
         bitmap : SUBSET Block, lost : SUBSET Inum]

Path == [abs : BOOLEAN, elems : Seq(Entry)]
Creates == {"creat", "mkdir", "mknod"}
Kind == Creates \cup {"open", "trunc", "link", "unlink", "chdir"}

ASSUME CallAssumption ==
  /\ None \notin Proc \cup Dinode \cup Path \cup Kind
  /\ \A c \in Call : /\ c.kind \in Kind /\ c.path \in Path
                     /\ IF c.kind = "link" THEN c.new \in Path ELSE c.new = None

VARIABLES
  disk,     \* what the operations see through the cache
  durable,  \* what a crash leaves of it
  inode,    \* the copy in itable.inode[] of each inode, if it is valid
  ref, lock,
  loc,      \* the locals of each process
  ofile,    \* the inode of its open file, or 0 (one descriptor)
  cwd,
  boot,     \* the inode ireclaim() looks at, 0 when the system is up
  calls, crashes

world == <<boot, calls, crashes>>
vars == <<disk, durable, inode, ref, lock, loc, ofile, cwd, world>>

\* cur and rest are the inode and the names that namex() has still to look up;
\* put are references to drop before the process goes on, phase is that of
\* iput().
Idle == [pc |-> "idle", kind |-> None, cur |-> 0, rest |-> <<>>, ip |-> 0,
         new |-> None, put |-> <<>>, phase |-> "test"]

Label == {"idle", "namex", "write", "end", "create", "create_found",
          "create_link", "create_done", "open", "open_file", "link_old",
          "link_new", "link_exists", "link_bad", "unlink", "unlink_inode",
          "unlink_count", "put_dir", "chdir", "panic"}
Locals == [pc : Label, kind : Kind \cup {None}, cur : Inum \cup {0},
           rest : Seq(Entry), ip : Inum \cup {0}, new : Path \cup {None},
           put : Seq(Inum), phase : {"test", "free", "drop"}]

TypeOK ==
  /\ disk \in Disk /\ durable \in Disk
  /\ inode \in [Inum -> Dinode \cup {None}]
  /\ ref \in [Inum -> Nat]
  /\ lock \in [Inum -> Proc \cup {None}]
  /\ loc \in [Proc -> Locals]
  /\ ofile \in [Proc -> Inum \cup {0}]
  /\ cwd \in [Proc -> Inum]
  /\ boot \in 0..NINODES /\ calls \in 0..MaxCall /\ crashes \in 0..MaxCrash

NoEntries == [e \in Entry |-> 0]

\* The links of inode i: the entries that name it, the .. of the directories in
\* it, and one that the root has by itself.
Naming(d, i) == {x \in Inum \X Name : d.dirent[x[1]][x[2]] = i}
Subdirs(d, i) == {e \in Name : /\ d.dirent[i][e] # 0
                               /\ d.dinode[d.dirent[i][e]].type = "dir"}
Links(d, i) == Cardinality(Naming(d, i)) + Cardinality(Subdirs(d, i))
               + (IF i = ROOTINO THEN 1 ELSE 0)

\* Entries are in directories and name allocated inodes other than the root;
\* no two directories name each other; a directory that has entries is itself
\* named or has been removed.
SoundEntries(d) ==
  /\ d.dinode[ROOTINO].type = "dir" /\ ROOTINO \notin d.lost
  /\ \A i \in Inum : \A e \in Name :
       LET j == d.dirent[i][e] IN j # 0 =>
         /\ d.dinode[i].type = "dir" /\ d.dinode[j].type # "none"
         /\ j # ROOTINO /\ \A f \in Name : d.dirent[j][f] # i
         /\ IF i \in d.lost THEN j \in d.lost
            ELSE i = ROOTINO \/ Naming(d, i) # {}

\* A free inode has nothing, and every used block belongs to one inode.
SoundBlocks(d) ==
  /\ \A i \in Inum : d.dinode[i].type = "none" =>
       d.dinode[i] = Unallocated /\ i \notin d.lost
  /\ d.bitmap = UNION {d.dinode[i].addrs : i \in Inum}
  /\ \A i, j \in Inum : i # j => d.dinode[i].addrs \cap d.dinode[j].addrs = {}

\* What entered a removed directory keeps its link when that one is freed.
SoundLinks(d) ==
  \A i \in Inum : /\ d.dinode[i].nlink >= Links(d, i)
                  /\ i \notin d.lost => d.dinode[i].nlink = Links(d, i)

Sound(d) == d \in Disk /\ SoundEntries(d) /\ SoundBlocks(d) /\ SoundLinks(d)

ASSUME ImageAssumption == \A d \in Image : Sound(d)

\* All processes are in the root directory.
Init ==
  /\ disk \in Image
  /\ durable = disk
  /\ inode = [i \in Inum |-> None]
  /\ ref = [i \in Inum |-> IF i = ROOTINO THEN Cardinality(Proc) ELSE 0]
  /\ lock = [i \in Inum |-> None]
  /\ loc = [p \in Proc |-> Idle]
  /\ ofile = [p \in Proc |-> 0]
  /\ cwd = [p \in Proc |-> ROOTINO]
  /\ boot = 0 /\ calls = 0 /\ crashes = 0

-------------------------------------------------------------------------------
(* Operations on inodes.                                                   *)

At(p, label) == boot = 0 /\ loc[p].pc = label /\ loc[p].put = <<>>

Goto(p, label) == loc' = [loc EXCEPT ![p].pc = label]

\* Go on at label after iput() of the references in s.
Put(p, s, label) == loc' = [loc EXCEPT ![p].pc = label, ![p].put = s]

iget(i) == [ref EXCEPT ![i] = @ + 1]

\* What ilock() finds: it reads the inode if the copy is not valid.
Loaded(i) == IF inode[i] = None THEN disk.dinode[i] ELSE inode[i]

\* ilock() ... iunlock() in one step, the inode being used but not changed.
ilock_iunlock(i) ==
  /\ lock[i] = None
  /\ inode' = [inode EXCEPT ![i] = Loaded(i)]
  /\ UNCHANGED lock

\* Write an inode: the copy, and with iupdate() the disk.
iupdate(dsk, i, d) == [dsk EXCEPT !.dinode[i] = d]

\* The first free block, if there is one.
balloc(d) == {b \in Block \ d.bitmap : \A c \in Block \ d.bitmap : b <= c}

itrunc(dsk, i) == [dsk EXCEPT !.bitmap = @ \ dsk.dinode[i].addrs,
                              !.dinode[i].addrs = {},
                              !.dirent[i] = NoEntries]

\* iput(): truncate the inode and mark it free.
ifree(dsk, i) == LET d == itrunc(dsk, i) IN
                   [d EXCEPT !.dinode[i].type = "none", !.lost = @ \ {i}]

dirlookup(i, e) == disk.dirent[i][e]

\* Write an entry of directory dir.
dirlink(dsk, dir, e, i) ==
  [dsk EXCEPT !.dirent[dir][e] = i,
              !.lost = IF dir \in @ THEN @ \cup {i} ELSE @]

-------------------------------------------------------------------------------
(* iput(): the test under itable.lock, the freeing of the inode under its  *)
(* own lock, and the decrement under itable.lock again.                    *)

Drop(p, i) ==
  /\ ref' = [ref EXCEPT ![i] = @ - 1]
  /\ inode' = [inode EXCEPT ![i] = IF ref[i] = 1 THEN None ELSE @]
  /\ loc' = [loc EXCEPT ![p].put = Tail(@), ![p].phase = "test"]


Last(i) == ref[i] = 1 /\ inode[i] # None /\ inode[i].nlink = 0

iput_test(p) ==
  /\ loc[p].put # <<>> /\ loc[p].phase = "test"
  /\ LET i == Head(loc[p].put) IN
       IF Last(i)
       THEN /\ lock' = [lock EXCEPT ![i] = p]
            /\ loc' = [loc EXCEPT ![p].phase = "free"]
            /\ UNCHANGED <<ref, inode>>
       ELSE Drop(p, i) /\ UNCHANGED lock
  /\ UNCHANGED <<disk, durable, ofile, cwd, world>>

\* Error: ip->valid stays set.
iput_free_bug(p) ==
  /\ loc[p].put # <<>> /\ loc[p].phase = "free"
  /\ LET i == Head(loc[p].put) IN
       /\ disk' = ifree(disk, i)
       /\ inode' = [inode EXCEPT ![i] = disk'.dinode[i]]
       /\ lock' = [lock EXCEPT ![i] = None]
  /\ loc' = [loc EXCEPT ![p].phase = "drop"]
  /\ UNCHANGED <<durable, ref, ofile, cwd, world>>

iput_free(p) ==
  /\ loc[p].put # <<>> /\ loc[p].phase = "free"
  /\ LET i == Head(loc[p].put) IN
       /\ disk' = ifree(disk, i)
       /\ inode' = [inode EXCEPT ![i] = None]
       /\ lock' = [lock EXCEPT ![i] = None]
  /\ loc' = [loc EXCEPT ![p].phase = "drop"]
  /\ UNCHANGED <<durable, ref, ofile, cwd, world>>

iput_drop(p) ==
  /\ loc[p].put # <<>> /\ loc[p].phase = "drop"
  /\ Drop(p, Head(loc[p].put))
  /\ UNCHANGED <<disk, durable, lock, ofile, cwd, world>>

iput(p) == iput_test(p) \/ iput_free(p) \/ iput_drop(p)

-------------------------------------------------------------------------------
(* namex()                                                                 *)

\* nameiparent() is asked for the directory of the last name.  link() looks up
\* its old path first, and is left with no new path in its second lookup.
Parent(l) == \/ l.kind \in Creates \cup {"unlink"}
             \/ l.kind = "link" /\ l.new = None

\* Where the system call goes on after its lookup, or if it finds nothing.
Found(l) ==
  CASE l.kind \in Creates -> "create"
    [] l.kind = "link" -> IF l.new = None THEN "link_new" ELSE "link_old"
    [] l.kind \in {"open", "trunc"} -> "open"
    [] OTHER -> l.kind
NotFound(l) == IF l.kind = "link" /\ l.new = None THEN "link_bad" ELSE "end"

Start(p, path) == IF path.abs THEN ROOTINO ELSE cwd[p]

namex_end(p) ==
  LET l == loc[p] IN
    /\ At(p, "namex") /\ l.rest = <<>>
    /\ IF Parent(l) THEN Put(p, <<l.cur>>, NotFound(l)) ELSE Goto(p, Found(l))
    /\ UNCHANGED <<disk, durable, inode, ref, lock, ofile, cwd, world>>

\* One name: stop at the parent, give up, or go on with the entry.
namex(p) ==
  LET l == loc[p] IN
    /\ At(p, "namex") /\ l.rest # <<>>
    /\ ilock_iunlock(l.cur)
    /\ IF Loaded(l.cur).type = "dir" /\ Parent(l) /\ Len(l.rest) = 1
       THEN Goto(p, Found(l)) /\ UNCHANGED ref
       ELSE IF Loaded(l.cur).type # "dir" \/ dirlookup(l.cur, Head(l.rest)) = 0
       THEN Put(p, <<l.cur>>, NotFound(l)) /\ UNCHANGED ref
       ELSE LET next == dirlookup(l.cur, Head(l.rest)) IN
              /\ ref' = iget(next)
              /\ loc' = [loc EXCEPT ![p].cur = next, ![p].rest = Tail(@),
                                    ![p].put = <<l.cur>>]
    /\ UNCHANGED <<disk, durable, ofile, cwd, world>>

-------------------------------------------------------------------------------
(* The system calls.  begin_op() is the step that leaves "idle", end_op()  *)
(* the one that goes back to it.                                           *)

Begin(p, l) ==
  /\ At(p, "idle") /\ calls < MaxCall
  /\ calls' = calls + 1
  /\ loc' = [loc EXCEPT ![p] = l]
  /\ UNCHANGED <<disk, durable, inode, lock, cwd, boot, crashes>>

call(p, c) ==
  /\ Begin(p, [Idle EXCEPT !.pc = "namex", !.kind = c.kind, !.new = c.new,
                 !.cur = Start(p, c.path), !.rest = c.path.elems])
  /\ ref' = iget(Start(p, c.path))
  /\ UNCHANGED ofile

\* sys_close(), fileclose() of the last reference.
close(p) ==
  /\ ofile[p] # 0
  /\ Begin(p, [Idle EXCEPT !.pc = "end", !.put = <<ofile[p]>>])
  /\ ofile' = [ofile EXCEPT ![p] = 0]
  /\ UNCHANGED ref

write(p) ==
  /\ ofile[p] # 0 /\ inode[ofile[p]].type = "file"
  /\ Begin(p, [Idle EXCEPT !.pc = "write"])
  /\ UNCHANGED <<ref, ofile>>

\* filewrite(), writei(): bmap() allocates the block, iupdate() records it.
filewrite(p) ==
  LET i == ofile[p] IN
    /\ At(p, "write") /\ lock[i] = None
    /\ LET new == IF Loaded(i).addrs = {} THEN balloc(disk) ELSE {}
           d == [Loaded(i) EXCEPT !.addrs = @ \cup new]
       IN  /\ disk' = iupdate([disk EXCEPT !.bitmap = @ \cup new], i, d)
           /\ inode' = [inode EXCEPT ![i] = d]
    /\ Goto(p, "end")
    /\ UNCHANGED <<durable, ref, lock, ofile, cwd, world>>

\* The processes between begin_op() and end_op().
Running == {p \in Proc : loc[p].pc # "idle"}

\* Error: the log is committed although other operations have not ended.
end_op_bug(p) ==
  /\ At(p, "end")
  /\ loc' = [loc EXCEPT ![p] = Idle]
  /\ durable' = disk
  /\ UNCHANGED <<disk, inode, ref, lock, ofile, cwd, world>>

end_op(p) ==
  /\ At(p, "end")
  /\ loc' = [loc EXCEPT ![p] = Idle]
  /\ durable' = IF Running = {p} THEN disk ELSE durable
  /\ UNCHANGED <<disk, inode, ref, lock, ofile, cwd, world>>

-------------------------------------------------------------------------------
(* create(), for open() with O_CREATE, mkdir() and mknod().                *)

NewType(kind) == CASE kind = "mkdir" -> "dir" [] kind = "mknod" -> "dev"
                   [] OTHER -> "file"

\* Error: the directory is still locked when the inode is looked at.
create_exists_bug(p) ==
  LET l == loc[p]  ip == dirlookup(l.cur, Head(l.rest)) IN
    /\ At(p, "create") /\ ip # 0 /\ lock[l.cur] = None
    /\ inode' = [inode EXCEPT ![l.cur] = Loaded(l.cur)]
    /\ lock' = [lock EXCEPT ![l.cur] = p]
    /\ ref' = iget(ip)
    /\ loc' = [loc EXCEPT ![p].ip = ip, ![p].put = <<l.cur>>,
                          ![p].pc = "create_found"]
    /\ UNCHANGED <<disk, durable, ofile, cwd, world>>

\* The name exists: let go of the directory, and look at the inode.
create_exists(p) ==
  LET l == loc[p]  ip == dirlookup(l.cur, Head(l.rest)) IN
    /\ At(p, "create") /\ ip # 0
    /\ ilock_iunlock(l.cur)
    /\ ref' = iget(ip)
    /\ loc' = [loc EXCEPT ![p].ip = ip, ![p].put = <<l.cur>>,
                          ![p].pc = "create_found"]
    /\ UNCHANGED <<disk, durable, ofile, cwd, world>>

create_found(p) ==
  LET i == loc[p].ip IN
    /\ At(p, "create_found") /\ lock[i] = None
    /\ inode' = [inode EXCEPT ![i] = Loaded(i)]
    /\ IF loc[p].kind = "creat" /\ Loaded(i).type \in {"file", "dev"}
       THEN lock' = [lock EXCEPT ![i] = p] /\ Goto(p, "open_file")
       ELSE Put(p, <<i>>, "end") /\ UNCHANGED lock
    /\ UNCHANGED <<disk, durable, ref, ofile, cwd, world>>

FreeInodes == {i \in Inum : disk.dinode[i].type = "none"}

\* The name does not exist: ialloc() marks the first free inode on the disk and
\* takes a reference; the directory stays locked.
create_ialloc(p) ==
  LET l == loc[p] IN
    /\ At(p, "create") /\ dirlookup(l.cur, Head(l.rest)) = 0
    /\ lock[l.cur] = None
    /\ inode' = [inode EXCEPT ![l.cur] = Loaded(l.cur)]
    /\ \/ /\ FreeInodes = {}
          /\ Put(p, <<l.cur>>, "end")
          /\ UNCHANGED <<disk, ref, lock>>
       \/ \E i \in FreeInodes :
            /\ \A j \in FreeInodes : i <= j
            /\ disk' = iupdate(disk, i,
                         [Unallocated EXCEPT !.type = NewType(l.kind)])
            /\ ref' = iget(i)
            /\ lock' = [lock EXCEPT ![l.cur] = p]
            /\ loc' = [loc EXCEPT ![p].ip = i, ![p].pc = "create_link"]
    /\ UNCHANGED <<durable, ofile, cwd, world>>

\* ilock() the new inode, write it, and enter it in the directory.  A new
\* directory needs a block for . and .. first.
create_link(p) ==
  LET l == loc[p]
      i == l.ip
      dir == l.kind = "mkdir"
      blk == IF dir THEN balloc(disk) ELSE {}
      d == [Loaded(i) EXCEPT !.nlink = 1, !.addrs = blk]
      dp == [inode[l.cur] EXCEPT !.nlink = IF dir THEN @ + 1 ELSE @]
  IN /\ At(p, "create_link") /\ lock[i] = None
     /\ IF dir /\ blk = {}
        THEN \* fail: nlink is 0 again, and iput() will free the inode
             /\ inode' = [inode EXCEPT ![i] = [d EXCEPT !.nlink = 0]]
             /\ Put(p, <<i>>, "put_dir")
             /\ UNCHANGED <<disk, lock>>
        ELSE /\ disk' = dirlink(
                  [iupdate(iupdate(disk, i, d), l.cur, dp) EXCEPT
                     !.bitmap = @ \cup blk,
                     !.dirent[i][".."] = IF dir THEN l.cur ELSE 0],
                  l.cur, Head(l.rest), i)
             /\ inode' = [inode EXCEPT ![i] = d, ![l.cur] = dp]
             /\ lock' = [lock EXCEPT ![l.cur] = None, ![i] = p]
             /\ Put(p, <<l.cur>>,
                    IF l.kind = "creat" THEN "open_file" ELSE "create_done")
     /\ UNCHANGED <<durable, ref, ofile, cwd, world>>

\* iunlockput() at the end of a call: of what create() returned to sys_mkdir()
\* or sys_mknod(), and of the directory where create() or sys_unlink() fails.
iunlockput(p, i, label) ==
  /\ At(p, label)
  /\ lock' = [lock EXCEPT ![i] = None]
  /\ Put(p, <<i>>, "end")
  /\ UNCHANGED <<disk, durable, inode, ref, ofile, cwd, world>>

create(p) == \/ create_exists(p) \/ create_found(p) \/ create_ialloc(p)
             \/ create_link(p)
             \/ iunlockput(p, loc[p].ip, "create_done")

-------------------------------------------------------------------------------
(* sys_open()                                                              *)

\* Without O_CREATE: a directory is only opened for reading.
open_lock(p) ==
  LET i == loc[p].cur IN
    /\ At(p, "open") /\ lock[i] = None
    /\ inode' = [inode EXCEPT ![i] = Loaded(i)]
    /\ IF Loaded(i).type = "dir" /\ loc[p].kind = "trunc"
       THEN Put(p, <<i>>, "end") /\ UNCHANGED lock
       ELSE /\ lock' = [lock EXCEPT ![i] = p]
            /\ loc' = [loc EXCEPT ![p].ip = i, ![p].pc = "open_file"]
    /\ UNCHANGED <<disk, durable, ref, ofile, cwd, world>>

\* filealloc() and fdalloc(), which fail if there is no descriptor left;
\* O_TRUNC; iunlock().  The reference now belongs to the file.
open_file(p) ==
  LET i == loc[p].ip
      trunc == loc[p].kind = "trunc" /\ inode[i].type = "file"
  IN /\ At(p, "open_file")
     /\ lock' = [lock EXCEPT ![i] = None]
     /\ IF ofile[p] # 0
        THEN Put(p, <<i>>, "end") /\ UNCHANGED <<disk, inode, ofile>>
        ELSE /\ ofile' = [ofile EXCEPT ![p] = i]
             /\ disk' = IF trunc THEN itrunc(disk, i) ELSE disk
             /\ inode' = [inode EXCEPT ![i].addrs = IF trunc THEN {} ELSE @]
             /\ Goto(p, "end")
     /\ UNCHANGED <<durable, ref, cwd, world>>

-------------------------------------------------------------------------------
(* sys_link()                                                              *)

\* The old inode: count the link first, then look for the place of the new one.
link_old(p) ==
  LET l == loc[p]  i == l.cur  d == [Loaded(i) EXCEPT !.nlink = @ + 1] IN
    /\ At(p, "link_old") /\ lock[i] = None
    /\ IF Loaded(i).type = "dir"
       THEN /\ Put(p, <<i>>, "end")
            /\ inode' = [inode EXCEPT ![i] = Loaded(i)]
            /\ UNCHANGED <<disk, ref>>
       ELSE /\ disk' = iupdate(disk, i, d)
            /\ inode' = [inode EXCEPT ![i] = d]
            /\ ref' = iget(Start(p, l.new))
            /\ loc' = [loc EXCEPT ![p].ip = i, ![p].pc = "namex",
                                  ![p].cur = Start(p, l.new),
                                  ![p].rest = l.new.elems, ![p].new = None]
    /\ UNCHANGED <<durable, lock, ofile, cwd, world>>

\* dirlink() fails if the name exists, and drops the inode it has found while
\* the directory is locked.
link_new(p) ==
  LET l == loc[p]  e == Head(l.rest)  old == dirlookup(l.cur, e) IN
    /\ At(p, "link_new") /\ lock[l.cur] = None
    /\ inode' = [inode EXCEPT ![l.cur] = Loaded(l.cur)]
    /\ IF old = 0
       THEN /\ disk' = dirlink(disk, l.cur, e, l.ip)
            /\ Put(p, <<l.cur, l.ip>>, "end")
            /\ UNCHANGED <<ref, lock>>
       ELSE /\ ref' = iget(old)
            /\ lock' = [lock EXCEPT ![l.cur] = p]
            /\ Put(p, <<old>>, "link_exists")
            /\ UNCHANGED disk
    /\ UNCHANGED <<durable, ofile, cwd, world>>

link_exists(p) ==
  /\ At(p, "link_exists")
  /\ lock' = [lock EXCEPT ![loc[p].cur] = None]
  /\ Put(p, <<loc[p].cur>>, "link_bad")
  /\ UNCHANGED <<disk, durable, inode, ref, ofile, cwd, world>>

\* The link has not been made: take it off the count.
link_bad(p) ==
  LET i == loc[p].ip  d == [Loaded(i) EXCEPT !.nlink = @ - 1] IN
    /\ At(p, "link_bad") /\ lock[i] = None
    /\ disk' = iupdate(disk, i, d)
    /\ inode' = [inode EXCEPT ![i] = d]
    /\ Put(p, <<i>>, "end")
    /\ UNCHANGED <<durable, ref, lock, ofile, cwd, world>>

link(p) == link_old(p) \/ link_new(p) \/ link_exists(p) \/ link_bad(p)

-------------------------------------------------------------------------------
(* sys_unlink()                                                            *)

unlink_dir(p) ==
  LET l == loc[p]  e == Head(l.rest)  i == dirlookup(l.cur, e) IN
    /\ At(p, "unlink") /\ lock[l.cur] = None
    /\ inode' = [inode EXCEPT ![l.cur] = Loaded(l.cur)]
    /\ IF e = ".." \/ i = 0
       THEN Put(p, <<l.cur>>, "end") /\ UNCHANGED <<ref, lock>>
       ELSE /\ ref' = iget(i)
            /\ lock' = [lock EXCEPT ![l.cur] = p]
            /\ loc' = [loc EXCEPT ![p].ip = i, ![p].pc = "unlink_inode"]
    /\ UNCHANGED <<disk, durable, ofile, cwd, world>>

isdirempty(i) == \A e \in Name : disk.dirent[i][e] = 0

\* Both are locked now: clear the entry and let go of the directory.
unlink_inode(p) ==
  LET l == loc[p]
      i == l.ip
      dir == Loaded(i).type = "dir"
      dp == [inode[l.cur] EXCEPT !.nlink = IF dir THEN @ - 1 ELSE @]
  IN /\ At(p, "unlink_inode") /\ lock[i] = None
     /\ IF Loaded(i).nlink < 1
        THEN Goto(p, "panic") /\ UNCHANGED <<disk, inode, lock>>
        ELSE IF dir /\ ~isdirempty(i)
        THEN /\ inode' = [inode EXCEPT ![i] = Loaded(i)]
             /\ Put(p, <<i>>, "put_dir")
             /\ UNCHANGED <<disk, lock>>
        ELSE /\ disk' = [iupdate(disk, l.cur, dp) EXCEPT
                           !.dirent[l.cur][Head(l.rest)] = 0,
                           !.lost = IF dir THEN @ \cup {i} ELSE @]
             /\ inode' = [inode EXCEPT ![i] = Loaded(i), ![l.cur] = dp]
             /\ lock' = [lock EXCEPT ![l.cur] = None, ![i] = p]
             /\ Put(p, <<l.cur>>, "unlink_count")
     /\ UNCHANGED <<durable, ref, ofile, cwd, world>>

unlink_count(p) ==
  LET i == loc[p].ip  d == [inode[i] EXCEPT !.nlink = @ - 1] IN
    /\ At(p, "unlink_count")
    /\ disk' = iupdate(disk, i, d)
    /\ inode' = [inode EXCEPT ![i] = d]
    /\ lock' = [lock EXCEPT ![i] = None]
    /\ Put(p, <<i>>, "end")
    /\ UNCHANGED <<durable, ref, ofile, cwd, world>>

unlink(p) == iunlockput(p, loc[p].cur, "put_dir")
             \/ unlink_dir(p) \/ unlink_inode(p) \/ unlink_count(p)

-------------------------------------------------------------------------------
(* sys_chdir().  Only p reads p->cwd, so that it may change before iput()  *)
(* of the old one has finished.                                            *)

\* Error: the new directory is put, not the old one.
chdir_bug(p) ==
  LET i == loc[p].cur IN
    /\ At(p, "chdir") /\ ilock_iunlock(i)
    /\ Put(p, <<i>>, "end")
    /\ cwd' = [cwd EXCEPT ![p] = IF Loaded(i).type # "dir" THEN @ ELSE i]
    /\ UNCHANGED <<disk, durable, ref, ofile, world>>

chdir(p) ==
  LET i == loc[p].cur IN
    /\ At(p, "chdir") /\ ilock_iunlock(i)
    /\ IF Loaded(i).type # "dir"
       THEN Put(p, <<i>>, "end") /\ UNCHANGED cwd
       ELSE Put(p, <<cwd[p]>>, "end") /\ cwd' = [cwd EXCEPT ![p] = i]
    /\ UNCHANGED <<disk, durable, ref, ofile, world>>

-------------------------------------------------------------------------------
(* The inode that p is about to lock.                                      *)
Wants(p) ==
  CASE loc[p].put # <<>> -> 0
    [] loc[p].pc = "namex" /\ loc[p].rest # <<>> -> loc[p].cur
    [] loc[p].pc \in {"create", "open", "link_old", "link_new", "unlink",
                      "chdir"} -> loc[p].cur
    [] loc[p].pc \in {"create_found", "create_link", "link_bad",
                      "unlink_inode"} -> loc[p].ip
    [] loc[p].pc = "write" -> ofile[p]
    [] OTHER -> 0

-------------------------------------------------------------------------------
(* A crash, and fsinit() after it.                                         *)

Crash ==
  /\ crashes < MaxCrash /\ crashes' = crashes + 1
  /\ disk' = durable
  /\ inode' = [i \in Inum |-> None]
  /\ ref' = [i \in Inum |-> 0]
  /\ lock' = [i \in Inum |-> None]
  /\ loc' = [p \in Proc |-> Idle]
  /\ ofile' = [p \in Proc |-> 0]
  /\ cwd' = [p \in Proc |-> ROOTINO]
  /\ boot' = 1
  /\ UNCHANGED <<durable, calls>>

Orphan(d, i) == d.dinode[i].type # "none" /\ d.dinode[i].nlink = 0

\* Error: only files are reclaimed.
Reclaimed_bug(d, i) ==
  IF Orphan(d, i) /\ d.dinode[i].type = "file"
  THEN ifree(d, i) ELSE d

Reclaimed(d, i) == IF Orphan(d, i) THEN ifree(d, i) ELSE d

\* ireclaim() frees an orphan in an operation of its own, with iput(); after
\* the last inode the processes start in the root directory.
ireclaim ==
  /\ boot # 0
  /\ disk' = Reclaimed(disk, boot)
  /\ durable' = disk'
  /\ boot' = IF boot = NINODES THEN 0 ELSE boot + 1
  /\ ref' = IF boot = NINODES
            THEN [ref EXCEPT ![ROOTINO] = Cardinality(Proc)] ELSE ref
  /\ UNCHANGED <<inode, lock, loc, ofile, cwd, calls, crashes>>

Calls(p) == \/ \E c \in Call : call(p, c)
            \/ close(p) \/ write(p)

Next ==
  \/ \E p \in Proc :
       \/ Calls(p) \/ end_op(p) \/ iput(p) \/ namex(p) \/ namex_end(p)
       \/ create(p) \/ open_lock(p) \/ open_file(p) \/ filewrite(p)
       \/ link(p) \/ unlink(p) \/ chdir(p)
  \/ Crash \/ ireclaim

Spec == Init /\ [][Next]_vars

-------------------------------------------------------------------------------
(* Properties.                                                             *)

\* ilock() never finds an inode without a type, which is a panic.
LockedHasType ==
  \A p \in Proc : Wants(p) # 0 /\ lock[Wants(p)] = None
                     => Loaded(Wants(p)).type # "none"

\* No panic is reached: ilock() finds an inode with a type, unlink() never
\* finds a link count below one, and the acquiresleep() of iput(), which holds
\* itable.lock, never has to wait.  (No path of the run leads through the .. of
\* a removed directory: see LockedHasType.)
NoPanic ==
  /\ \A p \in Proc : loc[p].pc # "panic"
  /\ LockedHasType
  /\ \A p \in Proc : loc[p].put # <<>> /\ loc[p].phase = "test" =>
       LET i == Head(loc[p].put) IN Last(i) => lock[i] = None

\* Processes lock a directory before an inode in it, and so never wait for each
\* other in a circle.
NoDeadlock ==
  \A p, q \in Proc : Wants(p) # 0 /\ Wants(q) # 0 =>
    ~ (lock[Wants(p)] = q /\ lock[Wants(q)] = p)

\* The valid copy of an inode agrees with the disk whenever nobody has the
\* inode locked, also when ialloc() takes an inode that iput() has just freed
\* but whose table entry it has not let go of yet.
CacheCoherent ==
  /\ TypeOK
  /\ \A i \in Inum : inode[i] # None => inode[i] = disk.dinode[i]

\* "iput() frees if the reference and link counts have fallen to zero": an
\* inode without links is on the disk only while somebody refers to it.
FreedWhenUnused == boot = 0 => \A i \in Inum : Orphan(disk, i) => ref[i] > 0

\* An open file or a current directory is never freed, whoever unlinks it: the
\* test of ip->ref in iput() and the freeing of the inode are one to the rest.
NotFreedInUse ==
  boot = 0 => \A p \in Proc :
    /\ disk.dinode[cwd[p]].type = "dir"
    /\ ofile[p] # 0 => disk.dinode[ofile[p]].type # "none"

\* The entries that name inode i, in directories that are still linked.
Entries(d, i) == {x \in Inum \X Name : /\ d.dinode[x[1]].type = "dir"
                                       /\ d.dinode[x[1]].nlink > 0
                                       /\ d.dirent[x[1]][x[2]] = i}

\* Whenever the power fails, the disk holds a sound file system: every entry
\* names an allocated inode, the link count of a file is the number of its
\* entries (but for files entered in a removed directory), and every used block
\* belongs to one inode.  The changes of a system call that belong together
\* are all between its begin_op() and its end_op().
CrashConsistent ==
  /\ \A i \in Inum :
       LET d == durable.dinode[i]  n == Cardinality(Entries(durable, i)) IN
         /\ n > 0 => d.type # "none" /\ d.nlink >= n
         /\ d.type \in {"file", "dev"} /\ i \notin durable.lost => d.nlink = n
  /\ durable.bitmap = UNION {durable.dinode[i].addrs : i \in Inum}
  /\ \A i, j \in Inum : i # j =>
       durable.dinode[i].addrs \cap durable.dinode[j].addrs = {}

\* When ireclaim() has looked at all inodes, none is left without links: what
\* was unlinked but still open when the power failed is free again.
OrphansReclaimed ==
  [][boot # 0 /\ boot' = 0 => \A i \in Inum : ~Orphan(disk', i)]_vars
===============================================================================
