-------------------------------- MODULE Bcache --------------------------------
(***************************************************************************)
(* The buffer cache, kernel/bio.c, and the sleep locks that protect its    *)
(* buffers, kernel/sleeplock.c.  A section under bcache.lock or under the  *)
(* spin lock of a sleep lock is one step.  The clients keep the rule of    *)
(* log.c: a buffer that differs from the disk is pinned before it is       *)
(* released, and unpinned after it has been written.                       *)
(***************************************************************************)
EXTENDS Naturals, FiniteSets, Functions

CONSTANTS NBUF, Block, Content, Zero, Proc, None,
          MaxPin   \* bound: buffers pinned at a time

Buf == 1..NBUF

VARIABLES
  blockno, valid, refcnt, data,  \* struct buf; None stands for dev 0
  lru,     \* the list from bcache.head.next to bcache.head.prev
  locked,  \* the process that holds the sleep lock of each buffer, or None
  disk,
  pc, blk, buf,                  \* of each process: where, block, buffer
  pinned,  \* the buffers pinned by the log
  last     \* history: what was last stored in each block

bufVars == <<blockno, valid, refcnt, data, lru>>
vars == <<bufVars, locked, disk, pc, blk, buf, pinned, last>>

TypeOK ==
  /\ blockno \in [Buf -> Block \cup {None}]
  /\ valid \in [Buf -> BOOLEAN]
  /\ refcnt \in [Buf -> 0..(Cardinality(Proc) + 1)]
  /\ data \in [Buf -> Content]
  /\ IsInjective(lru) /\ Range(lru) = Buf
  /\ locked \in [Buf -> Proc \cup {None}]
  /\ disk \in [Block -> Content] /\ last \in [Block -> Content]
  /\ pc \in [Proc -> {"out", "acquire", "asleep", "read", "held", "brelse",
                      "panic"}]
  /\ blk \in [Proc -> Block \cup {None}]
  /\ buf \in [Proc -> Buf \cup {0}]
  /\ pinned \in SUBSET Buf

\* binit(): every buffer goes in front of the list.
Init ==
  /\ blockno = [b \in Buf |-> None]
  /\ valid = [b \in Buf |-> FALSE]
  /\ refcnt = [b \in Buf |-> 0]
  /\ data = [b \in Buf |-> Zero]
  /\ lru = [k \in Buf |-> NBUF + 1 - k]
  /\ locked = [b \in Buf |-> None]
  /\ disk = [k \in Block |-> Zero] /\ last = disk
  /\ pc = [p \in Proc |-> "out"]
  /\ blk = [p \in Proc |-> None]
  /\ buf = [p \in Proc |-> 0]
  /\ pinned = {}

\* A definition whose name ends in _bug is a deliberate error in the one that
\* follows it; each property is shown to fail when such an error is made.

Cached(k) == {b \in Buf : blockno[b] = k}

Unused == {b \in Buf : refcnt[b] = 0}

\* The last buffer of the list that is not in use.
LeastRecent == lru[CHOOSE k \in Buf : /\ lru[k] \in Unused
                                      /\ \A j \in Unused : lru[k] # j =>
                                           \E i \in 1..(k - 1) : lru[i] = j]

-------------------------------------------------------------------------------
(* bget(), up to the release of bcache.lock.                               *)

Go(p, k, b) ==
  /\ pc' = [pc EXCEPT ![p] = "acquire"]
  /\ blk' = [blk EXCEPT ![p] = k]
  /\ buf' = [buf EXCEPT ![p] = b]

bget_hit(p, k) ==
  /\ pc[p] = "out" /\ Cached(k) # {}
  /\ \E b \in Cached(k) :
       /\ refcnt' = [refcnt EXCEPT ![b] = @ + 1]
       /\ Go(p, k, b)
  /\ UNCHANGED <<blockno, valid, data, lru, locked, disk, pinned, last>>

bget_recycle(p, k) ==
  /\ pc[p] = "out" /\ Cached(k) = {} /\ Unused # {}
  /\ LET b == LeastRecent IN
       /\ blockno' = [blockno EXCEPT ![b] = k]
       /\ valid' = [valid EXCEPT ![b] = FALSE]
       /\ refcnt' = [refcnt EXCEPT ![b] = 1]
       /\ Go(p, k, b)
  /\ UNCHANGED <<data, lru, locked, disk, pinned, last>>

bget_panic(p, k) ==
  /\ pc[p] = "out" /\ Cached(k) = {} /\ Unused = {}
  /\ pc' = [pc EXCEPT ![p] = "panic"]
  /\ UNCHANGED <<bufVars, locked, disk, blk, buf, pinned, last>>

\* panic() stays in its last loop.
panic(p) == pc[p] = "panic" /\ UNCHANGED vars

-------------------------------------------------------------------------------
acquiresleep(p) ==
  /\ pc[p] = "acquire"
  /\ IF locked[buf[p]] = None
     THEN /\ locked' = [locked EXCEPT ![buf[p]] = p]
          /\ pc' = [pc EXCEPT ![p] = "read"]
     ELSE /\ pc' = [pc EXCEPT ![p] = "asleep"]
          /\ UNCHANGED locked
  /\ UNCHANGED <<bufVars, disk, blk, buf, pinned, last>>

\* Error: the disk is read again.
bread_bug(p) ==
  /\ pc[p] = "read"
  /\ data' = [data EXCEPT ![buf[p]] = disk[blockno[buf[p]]]]
  /\ valid' = [valid EXCEPT ![buf[p]] = TRUE]
  /\ pc' = [pc EXCEPT ![p] = "held"]
  /\ UNCHANGED <<blockno, refcnt, lru, locked, disk, blk, buf, pinned, last>>

\* The rest of bread(): read the block unless the buffer holds it.
bread(p) ==
  /\ pc[p] = "read"
  /\ LET b == buf[p] IN
       /\ data' = [data EXCEPT ![b] = IF valid[b] THEN @ ELSE disk[blockno[b]]]
       /\ valid' = [valid EXCEPT ![b] = TRUE]
  /\ pc' = [pc EXCEPT ![p] = "held"]
  /\ UNCHANGED <<blockno, refcnt, lru, locked, disk, blk, buf, pinned, last>>

\* The client stores a value in the data of the buffer it has locked.
modify(p, v) ==
  /\ pc[p] = "held"
  /\ data' = [data EXCEPT ![buf[p]] = v]
  /\ last' = [last EXCEPT ![blk[p]] = v]
  /\ UNCHANGED <<blockno, valid, refcnt, lru, locked, disk, pc, blk, buf,
                 pinned>>

bwrite(p) ==
  /\ pc[p] = "held"
  /\ disk' = [disk EXCEPT ![blockno[buf[p]]] = data[buf[p]]]
  /\ UNCHANGED <<bufVars, locked, pc, blk, buf, pinned, last>>

\* log_write() pins a buffer that is not in the log yet.
bpin(p) ==
  /\ pc[p] = "held" /\ buf[p] \notin pinned /\ Cardinality(pinned) < MaxPin
  /\ refcnt' = [refcnt EXCEPT ![buf[p]] = @ + 1]
  /\ pinned' = pinned \cup {buf[p]}
  /\ UNCHANGED <<blockno, valid, data, lru, locked, disk, pc, blk, buf, last>>

\* install_trans() unpins a buffer it has written to its place on the disk.
bunpin(p) ==
  /\ pc[p] = "held" /\ buf[p] \in pinned /\ disk[blk[p]] = data[buf[p]]
  /\ refcnt' = [refcnt EXCEPT ![buf[p]] = @ - 1]
  /\ pinned' = pinned \ {buf[p]}
  /\ UNCHANGED <<blockno, valid, data, lru, locked, disk, pc, blk, buf, last>>

\* Error: nobody is woken.
Sleepers_bug(b) == {}

\* The processes wakeup() finds asleep on the lock of b.
Sleepers(b) == {q \in Proc : pc[q] = "asleep" /\ buf[q] = b}

\* The first half of brelse(): releasesleep() wakes all who sleep on the lock.
releasesleep(p) ==
  /\ pc[p] = "held"
  /\ buf[p] \in pinned \/ disk[blk[p]] = data[buf[p]]
  /\ locked' = [locked EXCEPT ![buf[p]] = None]
  /\ pc' = [q \in Proc |->
              IF q = p THEN "brelse"
              ELSE IF q \in Sleepers(buf[p]) THEN "acquire"
              ELSE pc[q]]
  /\ UNCHANGED <<bufVars, disk, blk, buf, pinned, last>>

\* The list with b taken out of its place k and put in front.
MoveToFront(b) ==
  LET k == CHOOSE k \in Buf : lru[k] = b
  IN  [i \in Buf |-> IF i = 1 THEN b ELSE IF i <= k THEN lru[i - 1] ELSE lru[i]]

\* The second half: drop the reference, and move a buffer that is not in use
\* any more to the front of the list.
brelse(p) ==
  /\ pc[p] = "brelse"
  /\ LET b == buf[p] IN
       /\ refcnt' = [refcnt EXCEPT ![b] = @ - 1]
       /\ lru' = IF refcnt'[b] = 0 THEN MoveToFront(b) ELSE lru
  /\ pc' = [pc EXCEPT ![p] = "out"]
  /\ blk' = [blk EXCEPT ![p] = None]
  /\ buf' = [buf EXCEPT ![p] = 0]
  /\ UNCHANGED <<blockno, valid, data, locked, disk, pinned, last>>

Next == \E p \in Proc :
  \/ \E k \in Block : bget_hit(p, k) \/ bget_recycle(p, k) \/ bget_panic(p, k)
  \/ acquiresleep(p) \/ bread(p) \/ bwrite(p) \/ bpin(p) \/ bunpin(p)
  \/ \E v \in Content : modify(p, v)
  \/ releasesleep(p) \/ brelse(p) \/ panic(p)

Spec == Init /\ [][Next]_vars

-------------------------------------------------------------------------------
(* Properties.                                                             *)

\* No block is ever cached twice, however the searches of two processes
\* interleave, and no buffer is recycled under a process that waits for it.  The
\* caller of bread() is the only one that has the buffer locked, and finds in
\* it what was last stored in the block, whether that is on the disk yet or
\* only in a pinned buffer.  refcnt is exact, so that no reference leaks and
\* the "bget: no buffers" panic needs every buffer in use or pinned.
Coherent ==
  /\ TypeOK
  /\ \A b \in DOMAIN refcnt :
       refcnt[b] = Cardinality({p \in Proc : buf[p] = b}) + (IF b \in pinned THEN 1 ELSE 0)
  /\ \A k \in Block : Cardinality(Cached(k)) <= 1
  /\ \A p \in Proc : buf[p] # 0 => blockno[buf[p]] = blk[p]
  /\ \A p \in Proc : pc[p] = "held" =>
       /\ locked[buf[p]] = p
       /\ data[buf[p]] = last[blk[p]]

\* Nobody sleeps in acquiresleep() on a lock that is free, so the wakeup() of
\* releasesleep() is never missed.
NoLostWakeup ==
  \A p \in Proc : pc[p] = "asleep" => locked[buf[p]] # None
===============================================================================
