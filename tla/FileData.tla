------------------------------ MODULE FileData ------------------------------
(***************************************************************************)
(* The contents of files and directories: blocks, bmap(), readi(),         *)
(* writei(), itrunc(), dirlookup() and dirlink() of kernel/fs.c, and the   *)
(* loops of fileread() and filewrite() in kernel/file.c.                   *)
(*                                                                         *)
(* The unit of data is a cell, of the size of a directory entry: <<v>> is  *)
(* a cell of a file, or a block number in an indirect block, <<inum, name>>*)
(* an entry, and <<>> zeroes.  A call of writei(), readi() or itrunc() is  *)
(* one step, because the caller has the inode locked.  disk.log is the set *)
(* of blocks that log_write() has got in the current operation.            *)
(***************************************************************************)
EXTENDS Integers, Sequences, SequencesExt, FiniteSetsExt, Functions

CONSTANTS BSIZE, NDIRECT,   \* in cells, in blocks; NINDIRECT is BSIZE
          FSSIZE, BPB,      \* blocks of the disk, bits in a bitmap block
          nlog, NINODES,
          MAXOPBLOCKS,
          Name,             \* names of directory entries
          Writer, File,     \* processes, open files
          MaxCall           \* bound: system calls

ROOTINO == 1
Inum == 1..NINODES
NINDIRECT == BSIZE
MAXFILE == NDIRECT + NINDIRECT
Zero == <<>>
ZeroBlock == [k \in 0..BSIZE-1 |-> Zero]
NoAddrs == [k \in 0..NDIRECT |-> 0]
NoInode == [type |-> "none", nlink |-> 0, size |-> 0, addrs |-> NoAddrs]

VARIABLES disk,    \* dinode, blk, bitmap, log
          f,       \* the open files: inode and offset
          job,     \* the write that each process is in: file, cells left, and
                   \* how many of them copyin() can read
          out,     \* what the last read() returned
          calls

vars == <<disk, f, job, out, calls>>

Idle == [file |-> 0, left |-> <<>>, good |-> 0]

Cells(s) == 0 .. Len(s) - 1

BBLOCK(b) == <<"bitmap", b \div BPB>>
IBLOCK == <<"inodes", 0>>
Logged(d, S) == [d EXCEPT !.log = @ \cup S]

-----------------------------------------------------------------------------
(* Each operation returns the disk d and its result.                       *)

\* The first free block, zeroed; 0 if there is none.
balloc(d) ==
  LET free == (0..FSSIZE-1) \ d.bitmap
      b == Min(free)
  IN  IF free = {} THEN [d |-> d, b |-> 0]
      ELSE [d |-> Logged([d EXCEPT !.bitmap = @ \cup {b}, !.blk[b] = ZeroBlock],
                         {BBLOCK(b), <<"data", b>>}),
            b |-> b]

bfree(d, S) == Logged([d EXCEPT !.bitmap = @ \ S], {BBLOCK(b) : b \in S})

\* Block bn of inode i, which is allocated if there is none.
bmap(d, i, bn) ==
  LET Entered(top, new) == [new EXCEPT !.d.dinode[i].addrs[top] = new.b]
      Address(top) == IF d.dinode[i].addrs[top] # 0
                      THEN [d |-> d, b |-> d.dinode[i].addrs[top]]
                      ELSE Entered(top, balloc(d))
      Linked(ind, k, n) ==
        IF n.b = 0 THEN n
        ELSE [n EXCEPT !.d = Logged([@ EXCEPT !.blk[ind][k] = <<n.b>>], {<<"data", ind>>})]
      Indirect(r, k) == IF r.b = 0 THEN r
                        ELSE IF r.d.blk[r.b][k] # Zero
                        THEN [r EXCEPT !.b = r.d.blk[r.b][k][1]]
                        ELSE Linked(r.b, k, balloc(r.d))
  IN  IF bn < NDIRECT THEN Address(bn) ELSE Indirect(Address(NDIRECT), bn - NDIRECT)

iupdate(d, i, size) ==
  Logged([d EXCEPT !.dinode[i].size = size], {IBLOCK})

\* Error: what the block held before and after the cells is lost.
Patched_bug(old, bn, off, s) ==
  [k \in 0..BSIZE-1 |-> LET c == bn * BSIZE + k - off
                        IN  IF c \in Cells(s) THEN s[c + 1] ELSE Zero]

\* The cells s at offset off, as far as they lie in block bn.
Patched(old, bn, off, s) ==
  [k \in 0..BSIZE-1 |-> LET c == bn * BSIZE + k - off
                        IN  IF c \in Cells(s) THEN s[c + 1] ELSE old[k]]

\* The loop of writei(), which stops when the disk is full, or when the address of
\* the data is bad after the first good cells: what was copied into the buffer
\* stays there and is not logged.
RECURSIVE write_blocks(_, _, _, _, _, _)
write_blocks(d, i, off, s, good, tot) ==
  LET bn == (off + tot) \div BSIZE
      next == Min({Len(s), (bn + 1) * BSIZE - off})
      Copied(m, n) == [m.d EXCEPT !.blk[m.b] = Patched(@, bn, off, SubSeq(s, 1, n))]
      Step(m) ==
        IF m.b = 0 THEN [d |-> m.d, n |-> tot]
        ELSE IF good < next THEN [d |-> Copied(m, good), n |-> tot]
        ELSE write_blocks(Logged(Copied(m, next), {<<"data", m.b>>}), i, off, s, good, next)
  IN  IF tot = Len(s) THEN [d |-> d, n |-> tot] ELSE Step(bmap(d, i, bn))

\* Whatever has been written, the inode is written too.
writei(d, i, off, s, good) ==
  LET size == d.dinode[i].size
      Updated(r) == [r EXCEPT !.d = iupdate(@, i, Max({size, off + r.n}))]
  IN  IF off > size \/ off + Len(s) > MAXFILE * BSIZE
      THEN [d |-> d, n |-> -1]
      ELSE Updated(write_blocks(d, i, off, s, good, 0))

\* The loop of readi(); bmap() would allocate a block that is missing.
RECURSIVE read_blocks(_, _, _, _, _)
read_blocks(d, i, off, end, s) ==
  LET o == off + Len(s)
      bn == o \div BSIZE
      part(blk) == SubSeq([k \in 1..BSIZE |-> blk[k - 1]],
                          (o % BSIZE) + 1, Min({BSIZE, end - bn * BSIZE}))
      Step(m) == IF m.b = 0 THEN [d |-> m.d, s |-> s]
                 ELSE read_blocks(m.d, i, off, end, s \o part(m.d.blk[m.b]))
  IN  IF o >= end THEN [d |-> d, s |-> s] ELSE Step(bmap(d, i, bn))

readi(d, i, off, n) ==
  read_blocks(d, i, off, Min({off + n, d.dinode[i].size}), <<>>)

\* The blocks of an inode: those of its cells, and its indirect block.
DataBlocks(d, i) ==
  LET addrs == d.dinode[i].addrs
      ind == addrs[NDIRECT]
  IN  [bn \in 0..MAXFILE-1 |->
         IF bn < NDIRECT THEN addrs[bn]
         ELSE IF ind = 0 \/ d.blk[ind][bn - NDIRECT] = Zero THEN 0
         ELSE d.blk[ind][bn - NDIRECT][1]]
AllBlocks(d, i) == (Range(DataBlocks(d, i)) \cup {d.dinode[i].addrs[NDIRECT]}) \ {0}

itrunc(d, i) ==
  iupdate([bfree(d, AllBlocks(d, i)) EXCEPT !.dinode[i].addrs = NoAddrs], i, 0)

Contents(d, i) == readi(d, i, 0, d.dinode[i].size).s

\* The offset of the first entry with the name, or of the first unused entry.
dirlookup(d, dp, name) ==
  LET First(Match) == IF Match = {} THEN -1 ELSE Min(Match)
      Search(s) == First({k \in Cells(s) : s[k + 1] # Zero /\ s[k + 1][2] = name})
  IN  Search(Contents(d, dp))

dirlink(d, dp, name, inum) ==
  LET Unused(s) == {k \in Cells(s) : s[k + 1] = Zero} \cup {Len(s)}
  IN  IF dirlookup(d, dp, name) # -1 THEN [d |-> d, n |-> -1]
      ELSE writei(d, dp, Min(Unused(Contents(d, dp))), <<<<inum, name>>>>, 1)

-----------------------------------------------------------------------------
(* System calls.                                                           *)

Op == [disk EXCEPT !.log = {}]     \* begin_op()

Called == calls < MaxCall /\ calls' = calls + 1

\* A read() to a bad address returns -1 and changes nothing.
fileread(x, n) ==
  \E r \in {readi(disk, f[x].ip, f[x].off, n)} :
      /\ Called
      /\ disk' = r.d
      /\ out' = r.s
      /\ f' = [f EXCEPT ![x].off = @ + Len(r.s)]
      /\ UNCHANGED job

sys_write(p, x, s, good) ==
  /\ job[p] = Idle
  /\ Called
  /\ job' = [job EXCEPT ![p] = [file |-> x, left |-> s, good |-> good]]
  /\ UNCHANGED <<disk, f, out>>

\* Error: the blocks that are not data are not counted.
max_bug == (MAXOPBLOCKS \div 2) * BSIZE

max == ((MAXOPBLOCKS - 1 - 1 - 2) \div 2) * BSIZE

\* One iteration of filewrite(), an operation of its own.
filewrite(p) ==
  LET x == job[p].file
      s == job[p].left
      n1 == Min({Len(s), max})
      left == SubSeq(s, n1 + 1, Len(s))
  IN  /\ job[p] # Idle
      /\ \E r \in {writei(Op, f[x].ip, f[x].off, SubSeq(s, 1, n1), job[p].good)} :
           /\ disk' = r.d
           /\ f' = [f EXCEPT ![x].off = IF r.n > 0 THEN @ + r.n ELSE @]
           /\ job' = [job EXCEPT ![p] = IF r.n # n1 \/ left = <<>> THEN Idle
                                        ELSE [@ EXCEPT !.left = left, !.good = @ - n1]]
      /\ UNCHANGED <<out, calls>>

\* open() with O_TRUNC
truncate(x) ==
  /\ Called
  /\ disk' = itrunc(Op, f[x].ip)
  /\ UNCHANGED <<f, job, out>>

\* sys_link() and create() enter a name, sys_unlink() clears the entry.
link(name, i) ==
  /\ Called
  /\ disk' = dirlink(Op, ROOTINO, name, i).d
  /\ UNCHANGED <<f, job, out>>

unlink(name) ==
  \E off \in {dirlookup(disk, ROOTINO, name)} :
      /\ Called
      /\ off # -1
      /\ disk' = writei(Op, ROOTINO, off, <<Zero>>, 1).d
      /\ UNCHANGED <<f, job, out>>
=============================================================================
