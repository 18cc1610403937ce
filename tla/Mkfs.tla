-------------------------------- MODULE Mkfs --------------------------------
(***************************************************************************)
(* mkfs/mkfs.c, which builds the disk from files and directories of the    *)
(* host, and the kernel that then works on that disk (FileData.tla).  The  *)
(* arguments are such that no assertion of mkfs fails.                     *)
(***************************************************************************)
EXTENDS FileData

CONSTANTS Args,       \* command lines of mkfs: sequences of host files
          Length,     \* lengths of the reads and writes of the kernel
          ninodeblocks

VARIABLES args,       \* arguments that mkfs has still to look at; <<>> when
                      \* the kernel runs
          freeinode, freeblock,
          host,       \* what mkfs was given, by inode
          files       \* history: what readi() of a whole inode returns

mkfsVars == <<args, freeinode, freeblock, host>>
allVars == <<vars, mkfsVars, files>>

nbitmap == FSSIZE \div BPB + 1
nmeta == 2 + nlog + ninodeblocks + nbitmap

\* The state of mkfs that its functions pass on.
Maker(d, fi, fb, h) == [disk |-> d, inode |-> fi, block |-> fb, host |-> h]

\* ialloc(): every new inode has one link.
ialloc(m, type) ==
  [m EXCEPT !.inode = @ + 1,
            !.disk.dinode[m.inode] = [NoInode EXCEPT !.type = type, !.nlink = 1]]

\* Block fbn of inode i: the next free block if the file has none there.
Place(m, i, fbn) ==
  LET d == m.disk
      top == IF fbn < NDIRECT THEN fbn ELSE NDIRECT
      m1 == IF d.dinode[i].addrs[top] # 0 THEN m
            ELSE [m EXCEPT !.disk.dinode[i].addrs[top] = m.block, !.block = @ + 1]
      ind == m1.disk.dinode[i].addrs[NDIRECT]
      k == fbn - NDIRECT
  IN  IF fbn < NDIRECT \/ m1.disk.blk[ind][k] # Zero THEN m1
      ELSE [m1 EXCEPT !.disk.blk[ind][k] = <<m1.block>>, !.block = @ + 1]

RECURSIVE append_blocks(_, _, _, _, _)
append_blocks(m, i, off, s, done) ==
  LET fbn == (off + done) \div BSIZE
      r == Place(m, i, fbn)
      x == DataBlocks(r.disk, i)[fbn]
  IN  IF done = Len(s) THEN m
      ELSE append_blocks([r EXCEPT !.disk.blk[x] = Patched(@, fbn, off, s)],
                         i, off, s, Min({Len(s), (fbn + 1) * BSIZE - off}))

iappend(m, i, s) ==
  LET off == m.disk.dinode[i].size
  IN  [append_blocks(m, i, off, s, 0) EXCEPT !.disk.dinode[i].size = off + Len(s)]

\* A new inode, with its entry in the directory.
Entered(m, type, parent, name) ==
  iappend(ialloc(m, type), parent, <<<<m.inode, name>>>>)

add_file(m, parent, a) ==
  [iappend(Entered(m, "file", parent, a.name), m.inode, a.body)
     EXCEPT !.host[m.inode] = a.body]

\* A directory of the host, with everything in it.
RECURSIVE add_dir(_, _, _)
add_dir(m, parent, a) ==
  LET m1 == Entered(m, "dir", parent, a.name)
      m2 == iappend(iappend(m1, m.inode, <<<<m.inode, ".">>>>), m.inode, <<<<parent, "..">>>>)
      Add(r, e) == IF e.kind = "dir" THEN add_dir(r, m.inode, e) ELSE add_file(r, m.inode, e)
  IN  FoldLeft(Add, m2, a.body)

NewDisk == [dinode |-> [i \in Inum |-> NoInode], blk |-> [b \in 0..FSSIZE-1 |-> ZeroBlock],
            bitmap |-> {}, log |-> {}]

\* main() up to its loop: the root directory.
Root ==
  LET m == ialloc(Maker(NewDisk, ROOTINO, nmeta, [i \in Inum |-> <<>>]), "dir")
  IN  iappend(iappend(m, ROOTINO, <<<<ROOTINO, ".">>>>), ROOTINO, <<<<ROOTINO, "..">>>>)

Made(m) == /\ disk' = m.disk /\ freeinode' = m.inode /\ freeblock' = m.block
           /\ host' = m.host

Init ==
  /\ disk = Root.disk /\ freeinode = Root.inode /\ freeblock = Root.block
  /\ host = Root.host
  /\ args \in Args
  /\ f = [x \in File |-> [ip |-> 0, off |-> 0]]
  /\ job = [p \in Writer |-> Idle]
  /\ out = <<>> /\ calls = 0
  /\ files = [i \in Inum |-> Contents(disk, i)]

Now == Maker(disk, freeinode, freeblock, host)


\* balloc() of mkfs: the first blocks are in use.
balloc_mkfs(used) == 0 .. used - 1

\* The end of main(): the size of the root becomes a multiple of the block size,
\* and the bitmap is written.
finish(m) ==
  [m.disk EXCEPT !.dinode[ROOTINO].size = (@ \div BSIZE + 1) * BSIZE,
                 !.bitmap = balloc_mkfs(m.block)]

\* The files that the kernel may have open, at their beginning.
Opened == {[ip |-> i, off |-> 0] : i \in {j \in Inum : disk.dinode[j].type = "file"}}

\* One argument; after the last the kernel boots, and files are opened.
mkfs ==
  /\ args # <<>>
  /\ args' = Tail(args)
  /\ LET a == Head(args)
         m == IF a.kind = "dir" THEN add_dir(Now, ROOTINO, a) ELSE add_file(Now, ROOTINO, a)
     IN  Made(IF args' = <<>> THEN [m EXCEPT !.disk = finish(m)] ELSE m)
  /\ IF args' = <<>> THEN f' \in [File -> Opened'] ELSE UNCHANGED f
  /\ UNCHANGED <<job, out, calls>>

Kernel ==
  \/ \E x \in File, n \in Length : fileread(x, n)
  \/ \E p \in Writer : filewrite(p)
  \/ \E p \in Writer, x \in File, n \in Length, good \in Length :
       good <= n /\ sys_write(p, x, [k \in 1..n |-> <<p>>], good)
  \/ \E x \in File : truncate(x)
  \/ \E name \in Name : unlink(name) \/ \E x \in File : link(name, f[x].ip)

Next == /\ mkfs \/ (args = <<>> /\ Kernel /\ UNCHANGED mkfsVars)
        /\ files' = [i \in Inum |-> Contents(disk', i)]

Spec == Init /\ [][Next]_allVars

-----------------------------------------------------------------------------
(* Properties.                                                             *)

BF == INSTANCE ByteFile

\* readi(), writei(), itrunc() and dirlink() on blocks, direct and indirect, are
\* reads, writes and truncations of sequences: a read returns what is in the
\* file from the offset on, a write changes the file it is for from its offset
\* on and nothing else, even if it is cut short because the disk is full, and
\* the offset moves by what was transferred, or by less if the address of the
\* data was bad.
FilesAreSequences ==
  [][args = <<>> =>
       \/ \E x \in File, n \in Length :
            BF!Read(f[x].ip, f[x].off, n) /\ f'[x].off = f[x].off + Len(out')
       \/ \E p \in Writer : job[p] # Idle /\ \E k \in 1 .. job[p].good :
            LET x == job[p].file IN
              /\ BF!Write(f[x].ip, f[x].off, SubSeq(job[p].left, 1, k))
              /\ \/ f'[x].off = f[x].off + k
                 \/ job[p].good < Len(job[p].left) /\ f'[x].off \in f[x].off .. f[x].off + k
       \/ \E x \in File : BF!Truncate(f[x].ip) /\ UNCHANGED f
       \/ \E o \in 0 .. disk.dinode[ROOTINO].size, name \in Name :
            \/ BF!Write(ROOTINO, o, <<Zero>>)
            \/ \E x \in File : BF!Write(ROOTINO, o, <<<<f[x].ip, name>>>>)
       \/ UNCHANGED <<BF!vars, f>>]_allVars


\* filewrite() cuts a write so that no operation gives the log more blocks than
\* begin_op() has reserved for it, counting the inode, the indirect block, the
\* bitmap blocks and the blocks at both ends of an unaligned write.
LogBudget == Cardinality(disk.log) <= MAXOPBLOCKS
=============================================================================
