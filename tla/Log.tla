--------------------------------- MODULE Log ----------------------------------
(***************************************************************************)
(* The write-ahead log of kernel/log.c, with as much of the buffer cache   *)
(* (kernel/bio.c) as its correctness rests on: a block is evicted from the *)
(* cache, and later read back from the disk, unless it is pinned or held.  *)
(*                                                                         *)
(* Every bwrite() is a step of its own, and Crash may come between any two *)
(* of them, also while recover_from_log() runs.  A block write is atomic:  *)
(* virtio_disk_rw() returns when the device has reported the request done. *)
(* Code that runs under log.lock without sleeping is one step.             *)
(***************************************************************************)
EXTENDS Naturals, Sequences, FiniteSets

CONSTANTS Proc,         \* processes
          Block,        \* home blocks of the file system
          Val, Zero,    \* contents of a block; contents after mkfs
          None,         \* "no block"; also "no copy in the cache"
          LOGBLOCKS,    \* data blocks of the on-disk log      (param.h)
          MAXOPBLOCKS,  \* blocks begin_op() reserves per op   (param.h)
          OPBLOCKS,     \* log blocks an operation really takes
          MaxCrash      \* bound: crashes in one behaviour

ASSUME LogAssumption ==
  /\ LOGBLOCKS \in Nat /\ MAXOPBLOCKS \in Nat /\ OPBLOCKS \in Nat
  /\ OPBLOCKS <= MAXOPBLOCKS
  /\ MaxCrash \in Nat
  /\ Zero \in Val
  /\ None \notin Block /\ None \notin Val
  /\ IsFiniteSet(Proc)

VARIABLES
  disk,         \* home blocks on the disk
  dlog,         \* data blocks of the on-disk log
  dhead,        \* on-disk log header: the sequence block[0..n-1]
  cache,        \* buffer cache: contents of a cached block, or None
  pinned,       \* blocks whose buffer log_write() has pinned
  lh,           \* in-memory log header: the sequence block[0..n-1]
  outstanding,  \* log.outstanding
  committing,   \* log.committing
  pc,           \* where each process is
  buf,          \* the block a process has locked and changed, or None
  used,         \* blocks the operation of a process has added to the log
  tail,         \* loop variable of write_log() and install_trans(), from 1
  boot,         \* how far fsinit() has come; "up" when it has returned
  crashes       \* crashes so far

diskVars == <<disk, dlog, dhead>>
logVars  == <<lh, outstanding, committing>>
procVars == <<pc, buf, used>>
vars == <<diskVars, cache, pinned, logVars, procVars, tail, boot, crashes>>

InOp     == {"op", "modified"}
InCommit == {"write_log", "install_trans", "committed"}

TypeOK ==
  /\ disk \in [Block -> Val]
  /\ dlog \in [1..LOGBLOCKS -> Val]
  /\ dhead \in Seq(Block) /\ lh \in Seq(Block)
  /\ cache \in [Block -> Val \cup {None}]
  /\ pinned \in SUBSET Block
  /\ outstanding \in Nat /\ committing \in BOOLEAN
  /\ pc \in [Proc -> {"idle", "begin_op", "asleep"} \cup InOp \cup InCommit]
  /\ buf \in [Proc -> Block \cup {None}]
  /\ used \in [Proc -> 0..OPBLOCKS]
  /\ tail \in Nat \ {0}
  /\ boot \in {"read_head", "install_trans", "up"}
  /\ crashes \in Nat

\* A definition whose name ends in _bug is a deliberate error in the one that
\* follows it; each property is shown to fail when such an error is made.

logged == {lh[i] : i \in 1..Len(lh)}

\* bread(): the cached copy, or else the one on the disk.
Data(b) == IF cache[b] = None THEN disk[b] ELSE cache[b]

-------------------------------------------------------------------------------
\* mkfs leaves an empty log; the machine is booting.
Init ==
  /\ disk = [b \in Block |-> Zero]
  /\ dlog = [i \in 1..LOGBLOCKS |-> Zero]
  /\ dhead = <<>>
  /\ cache = [b \in Block |-> None]
  /\ pinned = {}
  /\ lh = <<>> /\ outstanding = 0 /\ committing = FALSE
  /\ pc = [p \in Proc |-> "idle"]
  /\ buf = [p \in Proc |-> None]
  /\ used = [p \in Proc |-> 0]
  /\ tail = 1
  /\ boot = "read_head"
  /\ crashes = 0

-------------------------------------------------------------------------------
(* recover_from_log(), run by the first process before any other exists.   *)

read_head ==
  /\ boot = "read_head"
  /\ lh' = dhead
  /\ tail' = 1
  /\ boot' = "install_trans"
  /\ UNCHANGED <<diskVars, cache, pinned, outstanding, committing, procVars,
                 crashes>>

\* One iteration of install_trans(1): the destination is read into the
\* cache, overwritten with the log block and written to the disk.
recover_block ==
  /\ boot = "install_trans" /\ tail <= Len(lh)
  /\ disk' = [disk EXCEPT ![lh[tail]] = dlog[tail]]
  /\ cache' = [cache EXCEPT ![lh[tail]] = dlog[tail]]
  /\ tail' = tail + 1
  /\ UNCHANGED <<dlog, dhead, pinned, logVars, procVars, boot, crashes>>

recover_clear ==
  /\ boot = "install_trans" /\ tail > Len(lh)
  /\ lh' = <<>>
  /\ dhead' = <<>>
  /\ boot' = "up"
  /\ UNCHANGED <<disk, dlog, cache, pinned, outstanding, committing, procVars,
                 tail, crashes>>

-------------------------------------------------------------------------------
(* The buffer cache.                                                       *)

Held(b) == \E p \in Proc : buf[p] = b

\* A process outside the log reads a block (bread() then brelse()).
Fetch(b) ==
  /\ boot = "up" /\ cache[b] = None
  /\ cache' = [cache EXCEPT ![b] = disk[b]]
  /\ UNCHANGED <<diskVars, pinned, logVars, procVars, tail, boot, crashes>>

\* Error: a pinned buffer is recycled.
Evict_bug(b) ==
  /\ cache[b] # None /\ ~Held(b)
  /\ cache' = [cache EXCEPT ![b] = None]
  /\ UNCHANGED <<diskVars, pinned, logVars, procVars, tail, boot, crashes>>

\* bget() recycles a buffer that has refcnt 0.
Evict(b) ==
  /\ cache[b] # None /\ b \notin pinned /\ ~Held(b)
  /\ cache' = [cache EXCEPT ![b] = None]
  /\ UNCHANGED <<diskVars, pinned, logVars, procVars, tail, boot, crashes>>

-------------------------------------------------------------------------------
(* Operations.                                                             *)

\* A process enters begin_op().
Start(p) ==
  /\ boot = "up" /\ pc[p] = "idle"
  /\ pc' = [pc EXCEPT ![p] = "begin_op"]
  /\ UNCHANGED <<diskVars, cache, pinned, logVars, buf, used, tail, boot,
                 crashes>>

\* Errors: the new operation is not counted; a commit is not waited for.
MustWait_count_bug ==
  committing \/ Len(lh) + outstanding * MAXOPBLOCKS > LOGBLOCKS
MustWait_commit_bug ==
  Len(lh) + (outstanding + 1) * MAXOPBLOCKS > LOGBLOCKS

\* The two conditions on which begin_op() waits.
MustWait == \/ committing
            \/ Len(lh) + (outstanding + 1) * MAXOPBLOCKS > LOGBLOCKS

\* One turn of the loop in begin_op(): sleep on &log, or take the
\* reservation.
begin_op(p) ==
  /\ pc[p] = "begin_op"
  /\ IF MustWait
     THEN /\ pc' = [pc EXCEPT ![p] = "asleep"]
          /\ UNCHANGED <<outstanding, used>>
     ELSE /\ pc' = [pc EXCEPT ![p] = "op"]
          /\ outstanding' = outstanding + 1
          /\ used' = [used EXCEPT ![p] = 0]
  /\ UNCHANGED <<diskVars, cache, pinned, lh, committing, buf, tail, boot,
                 crashes>>

\* The caller of log_write(): bread() and the change of b->data, under the
\* buffer's sleep-lock.  An operation adds at most OPBLOCKS blocks to the log.
modify(p, b, v) ==
  /\ pc[p] = "op" /\ ~Held(b)
  /\ b \in logged \/ used[p] < OPBLOCKS
  /\ cache' = [cache EXCEPT ![b] = v]
  /\ buf' = [buf EXCEPT ![p] = b]
  /\ pc' = [pc EXCEPT ![p] = "modified"]
  /\ UNCHANGED <<diskVars, pinned, logVars, used, tail, boot, crashes>>

\* The conditions under which log_write() does not panic.
LogWriteOK == Len(lh) < LOGBLOCKS /\ outstanding >= 1

\* log_write(b): absorb the block, or append and pin it; then brelse(b).
log_write(p) ==
  /\ pc[p] = "modified" /\ LogWriteOK
  /\ IF buf[p] \in logged
     THEN UNCHANGED <<lh, pinned, used>>
     ELSE /\ lh' = Append(lh, buf[p])
          /\ pinned' = pinned \cup {buf[p]}
          /\ used' = [used EXCEPT ![p] = @ + 1]
  /\ buf' = [buf EXCEPT ![p] = None]
  /\ pc' = [pc EXCEPT ![p] = "op"]
  /\ UNCHANGED <<diskVars, cache, outstanding, committing, tail, boot, crashes>>

\* Error: nobody is woken.
Woken_bug(f) == f

\* wakeup(&log): every process asleep in begin_op() tests again.
Woken(f) == [q \in Proc |-> IF f[q] = "asleep" THEN "begin_op" ELSE f[q]]

\* end_op() up to the release of log.lock.
end_op(p) ==
  /\ pc[p] = "op" /\ ~committing
  /\ outstanding' = outstanding - 1
  /\ IF outstanding' = 0
     THEN /\ committing' = TRUE
          /\ tail' = 1
          /\ pc' = [pc EXCEPT ![p] = IF lh = <<>> THEN "committed"
                                                  ELSE "write_log"]
     ELSE /\ pc' = [Woken(pc) EXCEPT ![p] = "idle"]
          /\ UNCHANGED <<committing, tail>>
  /\ UNCHANGED <<diskVars, cache, pinned, lh, buf, used, boot, crashes>>

-------------------------------------------------------------------------------
(* commit(), by the process that ended the last operation.                 *)

\* One iteration of write_log().
write_log(p) ==
  /\ pc[p] = "write_log" /\ tail <= Len(lh)
  /\ dlog' = [dlog EXCEPT ![tail] = Data(lh[tail])]
  /\ cache' = [cache EXCEPT ![lh[tail]] = Data(lh[tail])]
  /\ tail' = tail + 1
  /\ UNCHANGED <<disk, dhead, pinned, logVars, procVars, boot, crashes>>

\* write_head() with the n > 0 blocks of the transaction: the commit point.
write_head(p) ==
  /\ pc[p] = "write_log" /\ tail > Len(lh)
  /\ dhead' = lh
  /\ tail' = 1
  /\ pc' = [pc EXCEPT ![p] = "install_trans"]
  /\ UNCHANGED <<disk, dlog, cache, pinned, logVars, buf, used, boot, crashes>>

\* One iteration of install_trans(0).
install_trans(p) ==
  /\ pc[p] = "install_trans" /\ tail <= Len(lh)
  /\ disk' = [disk EXCEPT ![lh[tail]] = dlog[tail]]
  /\ cache' = [cache EXCEPT ![lh[tail]] = dlog[tail]]
  /\ pinned' = pinned \ {lh[tail]}
  /\ tail' = tail + 1
  /\ UNCHANGED <<dlog, dhead, logVars, procVars, boot, crashes>>

\* Error: the log is erased before it is installed.
erase_bug(p) ==
  /\ pc[p] = "install_trans"
  /\ lh' = <<>>
  /\ dhead' = <<>>
  /\ pc' = [pc EXCEPT ![p] = "committed"]
  /\ UNCHANGED <<disk, dlog, cache, pinned, outstanding, committing, buf, used,
                 tail, boot, crashes>>

\* log.lh.n = 0 and the second write_head().
erase(p) ==
  /\ pc[p] = "install_trans" /\ tail > Len(lh)
  /\ lh' = <<>>
  /\ dhead' = <<>>
  /\ pc' = [pc EXCEPT ![p] = "committed"]
  /\ UNCHANGED <<disk, dlog, cache, pinned, outstanding, committing, buf, used,
                 tail, boot, crashes>>

\* The end of end_op(): committing = 0 and wakeup(&log).
committed(p) ==
  /\ pc[p] = "committed"
  /\ committing' = FALSE
  /\ pc' = [Woken(pc) EXCEPT ![p] = "idle"]
  /\ UNCHANGED <<diskVars, cache, pinned, lh, outstanding, buf, used, tail,
                 boot, crashes>>

-------------------------------------------------------------------------------
\* The machine loses everything but the disk, and reboots.
Crash ==
  /\ crashes < MaxCrash
  /\ crashes' = crashes + 1
  /\ cache' = [b \in Block |-> None]
  /\ pinned' = {}
  /\ lh' = <<>> /\ outstanding' = 0 /\ committing' = FALSE
  /\ pc' = [p \in Proc |-> "idle"]
  /\ buf' = [p \in Proc |-> None]
  /\ used' = [p \in Proc |-> 0]
  /\ tail' = 1
  /\ boot' = "read_head"
  /\ UNCHANGED diskVars

recover_from_log == read_head \/ recover_block \/ recover_clear

commit(p) == write_log(p) \/ write_head(p) \/ install_trans(p) \/ erase(p)

Next ==
  \/ recover_from_log
  \/ \E b \in Block : Fetch(b) \/ Evict(b)
  \/ \E p \in Proc : \/ Start(p) \/ begin_op(p)
                     \/ \E b \in Block, v \in Val : modify(p, b, v)
                     \/ log_write(p) \/ end_op(p)
                     \/ commit(p) \/ committed(p)
  \/ Crash

Spec == Init /\ [][Next]_vars

(***************************************************************************)
(* A process in the kernel is scheduled again and again, so what it can do *)
(* it does.  That an operation ends needs strong fairness: it may rewrite  *)
(* the same block any number of times, but every system call calls         *)
(* log_write() finitely often.  Nobody is obliged to start an operation.   *)
(***************************************************************************)
Fairness ==
  /\ WF_vars(recover_from_log)
  /\ \A p \in Proc : /\ WF_vars(begin_op(p)) /\ WF_vars(log_write(p))
                     /\ SF_vars(end_op(p))
                     /\ WF_vars(commit(p)) /\ WF_vars(committed(p))

FairSpec == Spec /\ Fairness

-------------------------------------------------------------------------------
(* Properties.                                                             *)

active == {p \in Proc : pc[p] \in InOp}

\* Log blocks the operations of the processes A have reserved and, when they
\* have added u[p] blocks to the log each, not yet taken.
ReservedBy(A, u) == {r \in A \X (1..MAXOPBLOCKS) : r[2] > u[r[1]]}

Reserved == ReservedBy(active, used)

(***************************************************************************)
(* The reservation begin_op() makes is enough: the blocks in the log and   *)
(* the ones the running operations may still add fit in the log, whatever  *)
(* operations ended, overlapped or were absorbed before.                   *)
(***************************************************************************)
LogSpace == boot = "up" => Len(lh) + Cardinality(Reserved) <= LOGBLOCKS

(***************************************************************************)
(* No panic of log.c is reached: log_write() always finds an open          *)
(* transaction and a free log block ("too big a transaction", "log_write   *)
(* outside of trans"), and no operation ends during a commit               *)
(* ("log.committing").                                                     *)
(***************************************************************************)
NoPanic ==
  /\ \A p \in Proc : pc[p] = "modified" => LogWriteOK
  /\ \A p \in Proc : pc[p] = "op" => ~committing

\* What a crash at this instant, followed by recover_from_log(), leaves.
Durable ==
  [b \in Block |-> IF \E i \in 1..Len(dhead) : dhead[i] = b
                   THEN dlog[CHOOSE i \in 1..Len(dhead) : dhead[i] = b]
                   ELSE disk[b]]

\* The file system as running operations see it.
Current == IF boot = "up" THEN [b \in Block |-> Data(b)] ELSE Durable

(***************************************************************************)
(* end_op() of the last running operation has made every operation         *)
(* durable: while none runs and none commits, a crash loses nothing.       *)
(***************************************************************************)
QuiescentDurable ==
  (boot = "up" /\ outstanding = 0 /\ ~committing) => Current = Durable

(***************************************************************************)
(* The log implements a disk on which operations are atomic: the commit    *)
(* point is the single write of write_head(), and neither a crash in       *)
(* commit() or in recovery, nor an eviction, nor a write installed twice   *)
(* shows an operation in part.                                             *)
(***************************************************************************)
AD == INSTANCE AtomicDisk WITH mem <- Current, dur <- Durable

CrashAtomic == AD!Spec

(***************************************************************************)
(* A process asleep in begin_op() is woken: its wakeup(&log) is never      *)
(* lost, whichever of the two conditions it waits for.                     *)
(***************************************************************************)
NoLostWakeup == \A p \in Proc : pc[p] = "asleep" ~> pc[p] # "asleep"
===============================================================================
