------------------------------- MODULE MCLocks --------------------------------
(***************************************************************************)
(* Locks, and the buffer cache they protect.  The spin locks with the      *)
(* scheduler below them, and the buffer cache with its sleep locks, share  *)
(* no state, so that one of the two runs at a time.                        *)
(***************************************************************************)
EXTENDS SpinLock, TLC

CONSTANTS NBUF, Block, Content, Zero, User, None, MaxPin

ASSUME CacheAssumption ==
  /\ NBUF \in Nat /\ MaxPin \in Nat /\ IsFiniteSet(User)
  /\ None \notin Block /\ None \notin User /\ Zero \in Content

VARIABLES part, blockno, valid, refcnt, data, lru, blocked, disk, pc, blk, buf,
          pinned, last

B == INSTANCE Bcache WITH Proc <- User, locked <- blocked

cacheVars == <<blockno, valid, refcnt, data, lru, blocked, disk, pc, blk, buf,
               pinned, last>>

MCInit == part \in {"spin", "cache"} /\ Init /\ B!Init

MCNext == /\ \/ part = "spin" /\ Next /\ UNCHANGED cacheVars
             \/ part = "cache" /\ B!Next /\ UNCHANGED vars
          /\ UNCHANGED part

MCSpec == MCInit /\ [][MCNext]_<<part, vars, cacheVars>>

Symmetry == Permutations(CPU) \cup Permutations(Proc)
            \cup Permutations(Block)

\* No block is cached twice, bread() returns, locked, what was last stored in
\* the block, and references to buffers are counted exactly.
Coherent == B!Coherent

\* acquiresleep() and releasesleep(): nobody sleeps on a lock that is free.
NoLostWakeup == B!NoLostWakeup
===============================================================================
