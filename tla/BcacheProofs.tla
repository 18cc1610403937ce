----------------------------- MODULE BcacheProofs -----------------------------
(***************************************************************************)
(* kernel/sleeplock.c and kernel/bio.c for any number of processes,        *)
(* buffers and blocks.                                                     *)
(***************************************************************************)
EXTENDS MCLocks, FiniteSetTheorems, WellFoundedInduction, TLAPS

Buf == B!Buf

\* The processes that have a reference to buffer b.
Users(b) == {p \in User : buf[p] = b}

CacheTypes ==
  /\ blockno \in [Buf -> Block \cup {None}] /\ valid \in [Buf -> BOOLEAN]
  /\ refcnt \in [Buf -> Nat] /\ data \in [Buf -> Content]
  /\ blocked \in [Buf -> User \cup {None}]
  /\ disk \in [Block -> Content] /\ last \in [Block -> Content]
  /\ pc \in [User -> {"out", "acquire", "asleep", "read", "held", "brelse", "panic"}]
  /\ blk \in [User -> Block \cup {None}] /\ buf \in [User -> Buf \cup {0}]
  /\ pinned \in SUBSET Buf

\* The list of bcache.head is a permutation of the buffers.
ListInv ==
  /\ lru \in [Buf -> Buf]
  /\ \A i, j \in Buf : lru[i] = lru[j] => i = j
  /\ \A b \in Buf : \E i \in Buf : lru[i] = b

\* refcnt counts the processes between bget() and brelse(), and the log.
RefInv ==
  \A b \in Buf : refcnt[b] = Cardinality(Users(b)) + (IF b \in pinned THEN 1 ELSE 0)

\* What a process knows of the buffer it has a reference to.
ClientInv ==
  /\ \A p \in User : buf[p] = 0 <=> pc[p] \in {"out", "panic"}
  /\ \A p \in User : buf[p] # 0 => blk[p] \in Block /\ blockno[buf[p]] = blk[p]
  /\ \A p \in User : pc[p] = "held" => valid[buf[p]]

\* Who has the sleep lock of a buffer, and who waits for it.
SleepLockInv ==
  /\ \A p \in User : pc[p] \in {"read", "held"} => blocked[buf[p]] = p
  /\ \A b \in Buf : blocked[b] # None => pc[blocked[b]] \in {"read", "held"} /\ buf[blocked[b]] = b
  /\ \A p \in User : pc[p] = "asleep" => blocked[buf[p]] # None

\* A buffer that may differ from its block on the disk: it is pinned, or its
\* user has not released it yet.
Dirty(b) == b \in pinned \/ \E p \in User : pc[p] = "held" /\ buf[p] = b

\* A block has one buffer at most; what is valid is what was last stored; and
\* the disk has that too unless the buffer cannot be recycled.
DataInv ==
  /\ \A b, c \in Buf : blockno[b] = blockno[c] /\ blockno[b] # None => b = c
  /\ \A b \in Buf : valid[b] => blockno[b] # None /\ data[b] = last[blockno[b]]
  /\ \A b \in pinned : valid[b]
  /\ \A b \in Buf : blockno[b] # None /\ ~Dirty(b) => disk[blockno[b]] = last[blockno[b]]
  /\ \A k \in Block : (\A b \in Buf : blockno[b] # k) => disk[k] = last[k]

CacheInv == CacheTypes /\ ListInv /\ RefInv /\ ClientInv /\ SleepLockInv /\ DataInv

-------------------------------------------------------------------------------
(* Cardinality, in the buffer cache and in the library.                    *)
LEMMA CardSame == \A X : B!Cardinality(X) = Cardinality(X)
BY Zenon DEF B!Cardinality, Cardinality

LEMMA CacheFacts ==
  /\ NBUF \in Nat /\ IsFiniteSet(User) /\ None \notin Block /\ None \notin User
  /\ Zero \in Content /\ Buf = 1..NBUF /\ 0 \notin Buf
BY CacheAssumption DEF Buf, B!Buf

\* The number of processes with a reference is a number.
LEMMA UsersFinite == \A b : IsFiniteSet(Users(b)) /\ Cardinality(Users(b)) \in Nat
                            /\ Cardinality(Users(b)) <= Cardinality(User)
<1> TAKE b
<1>1. Users(b) \in SUBSET User BY Zenon DEF Users
<1> QED BY Zenon, <1>1, CacheFacts, FS_Subset, FS_CardinalityType

\* A set of natural numbers has a least element.
LEMMA Least == ASSUME NEW T \in SUBSET Nat, T # {} PROVE \E m \in T : \A k \in T : m <= k
<1>1. IsWellFoundedOn(OpToRel(<, Nat), Nat) BY Zenon, NatLessThanWellFounded
<1> DEFINE R == OpToRel(<, Nat)
<1>2. \A x, y \in Nat : y < x => <<y, x>> \in R BY Zenon DEF OpToRel
<1> HIDE DEF R
<1>3. PICK m \in T : \A k \in T : ~(<<k, m>> \in R) BY Zenon, <1>1, WFMin DEF R
<1>4. ASSUME NEW k \in T PROVE m <= k
  <2>1. m \in Nat /\ k \in Nat BY Zenon
  <2>2. ~(k < m) BY <1>2, <1>3, <2>1, Zenon
  <2> QED BY <2>1, <2>2
<1> QED BY Zenon, <1>4

\* The backward search of bget() finds a buffer that is not in use if there is
\* one.
LEMMA FindUnused ==
  ASSUME ListInv, refcnt \in [Buf -> Nat], B!Unused # {}
  PROVE  B!LeastRecent \in Buf /\ refcnt[B!LeastRecent] = 0
<1> DEFINE T == {n \in 0..NBUF : n < NBUF /\ refcnt[lru[NBUF - n]] = 0}
<1>1. PICK b \in Buf : refcnt[b] = 0 BY Zenon DEF B!Unused, Buf
<1>2. PICK i \in Buf : lru[i] = b BY Zenon, <1>1 DEF ListInv
<1>3. NBUF - i \in T
  <2>1. NBUF - i \in 0..NBUF /\ NBUF - i < NBUF /\ NBUF - (NBUF - i) = i BY CacheFacts
  <2>2. refcnt[lru[NBUF - (NBUF - i)]] = 0 BY Zenon, <1>1, <1>2, <2>1
  <2> QED BY Zenon, <2>1, <2>2
<1>4. PICK m \in T : \A k \in T : m <= k
  <2>1. T \in SUBSET Nat BY CacheFacts
  <2>2. T # {} BY <1>3, Zenon
  <2> HIDE DEF T
  <2> QED BY Zenon, <2>1, <2>2, Least
<1> DEFINE P(k) == /\ lru[k] \in B!Unused
                   /\ \A j \in B!Unused : lru[k] # j => \E h \in 1..(k - 1) : lru[h] = j
<1>5. NBUF - m \in Buf /\ refcnt[lru[NBUF - m]] = 0 BY <1>4, CacheFacts
<1>6. lru[NBUF - m] \in B!Unused BY Zenon, <1>5 DEF ListInv, B!Unused, Buf
<1>7. ASSUME NEW j \in B!Unused, lru[NBUF - m] # j PROVE \E h \in 1..(NBUF - m - 1) : lru[h] = j
  <2>1. j \in Buf /\ refcnt[j] = 0 BY Zenon DEF B!Unused, Buf
  <2>2. PICK h \in Buf : lru[h] = j BY Zenon, <2>1 DEF ListInv
  <2>3. NBUF - h \in T BY <2>1, <2>2, CacheFacts
  <2>4. m <= NBUF - h /\ h # NBUF - m BY Zenon, <1>4, <1>7, <2>2, <2>3
  <2>5. h \in 1..(NBUF - m - 1) BY <1>4, <2>4, CacheFacts
  <2> QED BY Zenon, <2>2, <2>5
<1>8. \E k \in B!Buf : P(k) BY Zenon, <1>5, <1>6, <1>7 DEF Buf
<1> HIDE DEF P
<1>9. P(CHOOSE k \in B!Buf : P(k)) BY <1>8, Zenon
<1>10. B!LeastRecent \in B!Unused BY <1>9, Zenon DEF B!LeastRecent, P
<1> QED BY Zenon, <1>10 DEF B!Unused, Buf

\* Nobody has a reference to the buffer that bget() recycles.
LEMMA RecycledFree ==
  ASSUME CacheInv, NEW b \in Buf, refcnt[b] = 0
  PROVE  Users(b) = {} /\ b \notin pinned
<1>1. Cardinality(Users(b)) + (IF b \in pinned THEN 1 ELSE 0) = 0 BY Zenon DEF CacheInv, RefInv
<1>2. Cardinality(Users(b)) = 0 /\ b \notin pinned BY <1>1, UsersFinite
<1> QED BY Zenon, <1>2, UsersFinite, FS_EmptySet

\* What holds of the buffer of a process between bget() and brelse().
HasBuffer(p) ==
  /\ buf[p] \in Buf /\ blk[p] \in Block /\ blockno[buf[p]] = blk[p]
  /\ refcnt[buf[p]] >= 1 /\ (buf[p] \in pinned => refcnt[buf[p]] >= 2)

LEMMA Referenced == ASSUME CacheInv, NEW p \in User, pc[p] \notin {"out", "panic"} PROVE HasBuffer(p)
<1>1. buf[p] \in Buf /\ blk[p] \in Block /\ blockno[buf[p]] = blk[p]
  BY Zenon, CacheFacts DEF CacheInv, ClientInv, CacheTypes
<1>2. p \in Users(buf[p]) BY Zenon DEF Users
<1>3. Cardinality(Users(buf[p])) # 0 BY Zenon, <1>2, UsersFinite, FS_EmptySet
<1>4. refcnt[buf[p]] = Cardinality(Users(buf[p])) + (IF buf[p] \in pinned THEN 1 ELSE 0)
  BY Zenon, <1>1 DEF CacheInv, RefInv
<1> QED BY <1>1, <1>3, <1>4, UsersFinite DEF HasBuffer

\* bget() finds block k in buffer b.
Hits(p, k, b) ==
  /\ pc[p] = "out" /\ blockno[b] = k
  /\ refcnt' = [refcnt EXCEPT ![b] = @ + 1] /\ pc' = [pc EXCEPT ![p] = "acquire"]
  /\ blk' = [blk EXCEPT ![p] = k] /\ buf' = [buf EXCEPT ![p] = b]
  /\ UNCHANGED <<blockno, valid, data, lru, blocked, disk, pinned, last>>

LEMMA HitsCached ==
  ASSUME NEW p \in User, NEW k \in Block, B!bget_hit(p, k) PROVE \E b \in Buf : Hits(p, k, b)
BY Zenon DEF B!bget_hit, B!Go, B!Cached, Hits, Buf

\* bget() recycles buffer c for block k: nobody has a reference to it.
Recycles(p, k, c) ==
  /\ refcnt[c] = 0 /\ c \notin pinned /\ \A q \in User : buf[q] # c
  /\ pc[p] = "out" /\ \A b \in Buf : blockno[b] # k
  /\ blockno' = [blockno EXCEPT ![c] = k] /\ valid' = [valid EXCEPT ![c] = FALSE]
  /\ refcnt' = [refcnt EXCEPT ![c] = 1] /\ pc' = [pc EXCEPT ![p] = "acquire"]
  /\ blk' = [blk EXCEPT ![p] = k] /\ buf' = [buf EXCEPT ![p] = c]
  /\ UNCHANGED <<data, lru, blocked, disk, pinned, last>>

LEMMA RecyclesUnused ==
  ASSUME CacheInv, NEW p \in User, NEW k \in Block, B!bget_recycle(p, k)
  PROVE  \E c \in Buf : Recycles(p, k, c)
<1> DEFINE c == B!LeastRecent
<1>1. c \in Buf /\ refcnt[c] = 0 BY FindUnused, Zenon DEF B!bget_recycle, CacheInv, CacheTypes
<1>2. Users(c) = {} /\ c \notin pinned BY Zenon, <1>1, RecycledFree
<1>3. \A q \in User : buf[q] # c BY Zenon, <1>2 DEF Users
<1>4. /\ pc[p] = "out" /\ (\A b \in Buf : blockno[b] # k)
      /\ blockno' = [blockno EXCEPT ![c] = k] /\ valid' = [valid EXCEPT ![c] = FALSE]
      /\ refcnt' = [refcnt EXCEPT ![c] = 1] /\ pc' = [pc EXCEPT ![p] = "acquire"]
      /\ blk' = [blk EXCEPT ![p] = k] /\ buf' = [buf EXCEPT ![p] = c]
      /\ UNCHANGED <<data, lru, blocked, disk, pinned, last>>
  BY Zenon DEF B!bget_recycle, B!Go, B!Cached, Buf
<1> HIDE DEF c
<1> QED BY <1>1, <1>2, <1>3, <1>4, Zenon DEF Recycles

\* acquiresleep() takes a lock that is free, or sleeps.
Takes(p) ==
  /\ pc[p] = "acquire" /\ blocked[buf[p]] = None
  /\ blocked' = [blocked EXCEPT ![buf[p]] = p] /\ pc' = [pc EXCEPT ![p] = "read"]
  /\ UNCHANGED <<blockno, valid, refcnt, data, lru, disk, blk, buf, pinned, last>>

Waits(p) ==
  /\ pc[p] = "acquire" /\ blocked[buf[p]] # None
  /\ blocked' = blocked /\ pc' = [pc EXCEPT ![p] = "asleep"]
  /\ UNCHANGED <<blockno, valid, refcnt, data, lru, disk, blk, buf, pinned, last>>

LEMMA AcquireCases == ASSUME NEW p \in User, B!acquiresleep(p) PROVE Takes(p) \/ Waits(p)
<1>1. CASE blocked[buf[p]] = None BY <1>1, Zenon DEF B!acquiresleep, B!bufVars, Takes
<1>2. CASE blocked[buf[p]] # None BY <1>2, Zenon DEF B!acquiresleep, B!bufVars, Waits
<1> QED BY Zenon, <1>1, <1>2

-------------------------------------------------------------------------------
(* Every step of the buffer cache keeps the invariant.                     *)

LEMMA CacheInitInv == B!Init => CacheInv
<1> SUFFICES ASSUME B!Init PROVE CacheInv BY Zenon
<1> USE CacheFacts
<1>1. CacheTypes BY Zenon DEF CacheTypes, B!Init, Buf
<1>2. ListInv
  <2>1. lru = [k \in Buf |-> NBUF + 1 - k] BY Zenon DEF B!Init, Buf
  <2>2. \A k \in Buf : NBUF + 1 - k \in Buf /\ NBUF + 1 - (NBUF + 1 - k) = k OBVIOUS
  <2>3. lru \in [Buf -> Buf] BY Zenon, <2>1, <2>2
  <2>4. \A i, j \in Buf : NBUF + 1 - i = NBUF + 1 - j => i = j OBVIOUS
  <2> QED BY Zenon, <2>1, <2>2, <2>3, <2>4 DEF ListInv
<1>3. RefInv
  <2>1. \A b \in Buf : Users(b) = {} BY Zenon DEF Users, B!Init
  <2>2. \A b \in Buf : Cardinality(Users(b)) = 0 BY <2>1, FS_EmptySet, Zenon
  <2>3. \A b \in Buf : refcnt[b] = 0 /\ b \notin pinned BY Zenon DEF B!Init, Buf
  <2> QED BY <2>2, <2>3 DEF RefInv
<1>4. ClientInv BY Zenon DEF ClientInv, B!Init
<1>5. SleepLockInv BY Zenon DEF SleepLockInv, B!Init, Buf
<1>6. DataInv BY Zenon DEF DataInv, B!Init, Buf
<1> QED BY Zenon, <1>1, <1>2, <1>3, <1>4, <1>5, <1>6 DEF CacheInv

\* Types.
LEMMA TypesStep == ASSUME CacheInv, B!Next PROVE CacheTypes'
<1>t. CacheTypes
  BY Zenon DEF CacheInv, CacheTypes
<1> USE CacheFacts, <1>t DEF CacheTypes, Buf
<1>1. ASSUME NEW p \in User, NEW k \in Block, B!bget_hit(p, k) PROVE CacheTypes'
  <2>1. PICK b \in Buf : Hits(p, k, b) BY <1>1, HitsCached, Zenon
  <2> QED BY <2>1 DEF Hits
<1>2. ASSUME NEW p \in User, NEW k \in Block, B!bget_recycle(p, k) PROVE CacheTypes'
  <2>1. PICK c \in Buf : Recycles(p, k, c) BY <1>2, RecyclesUnused, Zenon
  <2> QED BY Zenon, <2>1 DEF Recycles
<1>3. ASSUME NEW p \in User, NEW k \in Block, B!bget_panic(p, k) PROVE CacheTypes'
  BY Zenon, <1>3 DEF B!bget_panic, B!bufVars
<1>4. ASSUME NEW p \in User, B!acquiresleep(p) PROVE CacheTypes'
  <2>1. HasBuffer(p) BY <1>4, Referenced, Zenon DEF B!acquiresleep
  <2>2. CASE Takes(p) BY Zenon, <2>1, <2>2 DEF HasBuffer, Takes
  <2>3. CASE Waits(p) BY Zenon, <2>1, <2>3 DEF HasBuffer, Waits
  <2> QED BY <1>4, <2>2, <2>3, AcquireCases, Zenon
<1>5. ASSUME NEW p \in User, B!bread(p) PROVE CacheTypes'
  <2>1. HasBuffer(p) BY <1>5, Referenced, Zenon DEF B!bread
  <2> QED BY <1>5, <2>1 DEF HasBuffer, B!bread
<1>6. ASSUME NEW p \in User, B!bwrite(p) PROVE CacheTypes'
  <2>1. HasBuffer(p) BY <1>6, Referenced, Zenon DEF B!bwrite
  <2> QED BY Zenon, <1>6, <2>1 DEF HasBuffer, B!bwrite, B!bufVars
<1>7. ASSUME NEW p \in User, B!bpin(p) PROVE CacheTypes'
  <2>1. HasBuffer(p) BY <1>7, Referenced, Zenon DEF B!bpin
  <2>2. refcnt[buf[p]] + 1 \in Nat BY <2>1 DEF HasBuffer
  <2>3. refcnt' \in [Buf -> Nat] BY Zenon, <1>7, <2>1, <2>2 DEF B!bpin, HasBuffer
  <2>4. pinned' \in SUBSET Buf BY <1>7, <2>1, Zenon DEF B!bpin, HasBuffer
  <2> QED BY Zenon, <1>7, <2>3, <2>4 DEF B!bpin
<1>8. ASSUME NEW p \in User, B!bunpin(p) PROVE CacheTypes'
  <2>1. HasBuffer(p) BY <1>8, Referenced, Zenon DEF B!bunpin
  <2>2. refcnt[buf[p]] - 1 \in Nat BY <2>1 DEF HasBuffer
  <2>3. refcnt' \in [Buf -> Nat] BY Zenon, <1>8, <2>1, <2>2 DEF B!bunpin, HasBuffer
  <2>4. pinned' \in SUBSET Buf BY <1>8, <2>1, Zenon DEF B!bunpin, HasBuffer
  <2> QED BY Zenon, <1>8, <2>3, <2>4 DEF B!bunpin
<1>9. ASSUME NEW p \in User, NEW v \in Content, B!modify(p, v) PROVE CacheTypes'
  <2>1. HasBuffer(p) BY <1>9, Referenced, Zenon DEF B!modify
  <2> QED BY Zenon, <1>9, <2>1 DEF HasBuffer, B!modify
<1>10. ASSUME NEW p \in User, B!releasesleep(p) PROVE CacheTypes'
  <2>1. HasBuffer(p) BY <1>10, Referenced, Zenon DEF B!releasesleep
  <2> QED BY Zenon, <1>10, <2>1 DEF HasBuffer, B!releasesleep, B!bufVars, B!Sleepers
<1>11. ASSUME NEW p \in User, B!brelse(p) PROVE CacheTypes'
  <2>1. HasBuffer(p) BY <1>11, Referenced, Zenon DEF B!brelse
  <2> QED BY <1>11, <2>1 DEF HasBuffer, B!brelse
<1>12. ASSUME NEW p \in User, B!panic(p) PROVE CacheTypes'
  BY Zenon, <1>12 DEF B!panic, B!vars, B!bufVars
<1> HIDE DEF CacheTypes, Buf
<1> QED BY <1>1, <1>2, <1>3, <1>4, <1>5, <1>6, <1>7, <1>8, <1>9, <1>10, <1>11, <1>12, Zenon DEF B!Next

\* brelse() moves a buffer to the front of the list and loses none.
LEMMA ListStep == ASSUME CacheInv, B!Next PROVE ListInv'
<1>1. ASSUME NEW p \in User, B!brelse(p), lru' = B!MoveToFront(buf[p]) PROVE ListInv'
  <2> DEFINE b == buf[p]
             k == CHOOSE i \in Buf : lru[i] = b
             from(i) == IF i = 1 THEN k ELSE IF i <= k THEN i - 1 ELSE i
  <2>1. b \in Buf
    <3>1. pc[p] \notin {"out", "panic"} BY Zenon, <1>1 DEF B!brelse
    <3>2. HasBuffer(p) BY <3>1, Referenced, Zenon
    <3> QED BY <3>2, Zenon DEF HasBuffer
  <2>2. ListInv BY Zenon DEF CacheInv
  <2>3. k \in Buf /\ lru[k] = b BY Zenon, <2>1, <2>2 DEF ListInv
  <2>4. lru' = [i \in Buf |-> IF i = 1 THEN b ELSE IF i <= k THEN lru[i - 1] ELSE lru[i]]
    BY <1>1, Zenon DEF B!MoveToFront, Buf
  <2> HIDE DEF b, k
  <2>5. \A i \in Buf : from(i) \in Buf BY <2>3, CacheFacts
  <2>6. lru' = [i \in Buf |-> lru[from(i)]] BY Zenon, <2>3, <2>4
  <2>7. \A i, j \in Buf : from(i) = from(j) => i = j BY <2>3, CacheFacts
  <2>8. ASSUME NEW j \in Buf PROVE \E i \in Buf : from(i) = j
    <3>1. CASE j = k
      <4>1. 1 \in Buf /\ from(1) = j BY <3>1, <2>3, CacheFacts
      <4> QED BY Zenon, <4>1
    <3>2. CASE j < k
      <4>1. j + 1 \in Buf /\ from(j + 1) = j BY <2>3, <3>2, CacheFacts
      <4> QED BY Zenon, <4>1
    <3>3. CASE j > k
      <4>1. from(j) = j BY <2>3, <3>3, CacheFacts
      <4> QED BY Zenon, <4>1
    <3> QED BY <2>3, <3>1, <3>2, <3>3, CacheFacts
  <2> HIDE DEF from
  <2>9. lru' \in [Buf -> Buf] BY Zenon, <2>2, <2>5, <2>6 DEF ListInv
  <2>10. \A i, j \in Buf : lru'[i] = lru'[j] => i = j BY Zenon, <2>2, <2>5, <2>6, <2>7 DEF ListInv
  <2>11. \A d \in Buf : \E i \in Buf : lru'[i] = d BY Zenon, <2>2, <2>6, <2>8 DEF ListInv
  <2>12. Buf' = Buf BY Zenon DEF Buf, B!Buf
  <2> QED BY Zenon, <2>9, <2>10, <2>11, <2>12 DEF ListInv
<1>2. ASSUME lru' = lru PROVE ListInv' BY Zenon, <1>2 DEF CacheInv, ListInv, Buf, B!Buf
<1> QED BY <1>1, <1>2 DEF B!Next, B!bget_hit, B!bget_recycle, B!bget_panic, B!acquiresleep, B!bread,
     B!bwrite, B!bpin, B!bunpin, B!modify, B!releasesleep, B!brelse, B!panic, B!vars, B!bufVars

\* The process knows its buffer until it has released it.
LEMMA ClientStep == ASSUME CacheInv, B!Next PROVE ClientInv'
<1>t. /\ pc \in [User -> {"out", "acquire", "asleep", "read", "held", "brelse", "panic"}]
      /\ buf \in [User -> Buf \cup {0}]
      /\ blk \in [User -> Block \cup {None}]
      /\ blockno \in [Buf -> Block \cup {None}]
      /\ valid \in [Buf -> BOOLEAN]
      /\ ClientInv
  BY Zenon DEF CacheInv, CacheTypes
<1> USE CacheFacts, <1>t DEF ClientInv, Buf
<1>1. ASSUME NEW p \in User, NEW k \in Block, B!bget_hit(p, k) PROVE ClientInv'
  <2>1. PICK b \in Buf : Hits(p, k, b) BY <1>1, HitsCached, Zenon
  <2> QED BY <2>1 DEF Hits
<1>2. ASSUME NEW p \in User, NEW k \in Block, B!bget_recycle(p, k) PROVE ClientInv'
  <2>1. PICK c \in Buf : Recycles(p, k, c) BY <1>2, RecyclesUnused, Zenon
  <2> QED BY <2>1 DEF Recycles
<1>3. ASSUME NEW p \in User, NEW k \in Block, B!bget_panic(p, k) PROVE ClientInv'
  BY <1>3 DEF B!bget_panic, B!bufVars
<1>4. ASSUME NEW p \in User, B!acquiresleep(p) PROVE ClientInv'
  <2>1. HasBuffer(p) BY <1>4, Referenced, Zenon DEF B!acquiresleep
  <2>2. CASE Takes(p) BY <2>1, <2>2 DEF HasBuffer, Takes
  <2>3. CASE Waits(p) BY Zenon, <2>1, <2>3 DEF HasBuffer, Waits
  <2> QED BY <1>4, <2>2, <2>3, AcquireCases, Zenon
<1>5. ASSUME NEW p \in User, B!bread(p) PROVE ClientInv'
  <2>1. HasBuffer(p) BY <1>5, Referenced, Zenon DEF B!bread
  <2> QED BY <1>5, <2>1 DEF HasBuffer, B!bread
<1>6. ASSUME NEW p \in User, B!bwrite(p) PROVE ClientInv'
  <2>1. HasBuffer(p) BY <1>6, Referenced, Zenon DEF B!bwrite
  <2> QED BY Zenon, <1>6, <2>1 DEF HasBuffer, B!bwrite, B!bufVars
<1>7. ASSUME NEW p \in User, B!bpin(p) PROVE ClientInv'
  <2>1. HasBuffer(p) BY <1>7, Referenced, Zenon DEF B!bpin
  <2> QED BY Zenon, <1>7, <2>1 DEF HasBuffer, B!bpin
<1>8. ASSUME NEW p \in User, B!bunpin(p) PROVE ClientInv'
  <2>1. HasBuffer(p) BY <1>8, Referenced, Zenon DEF B!bunpin
  <2> QED BY Zenon, <1>8, <2>1 DEF HasBuffer, B!bunpin
<1>9. ASSUME NEW p \in User, NEW v \in Content, B!modify(p, v) PROVE ClientInv'
  <2>1. HasBuffer(p) BY <1>9, Referenced, Zenon DEF B!modify
  <2> QED BY Zenon, <1>9, <2>1 DEF HasBuffer, B!modify
<1>10. ASSUME NEW p \in User, B!releasesleep(p) PROVE ClientInv'
  <2>1. HasBuffer(p) BY <1>10, Referenced, Zenon DEF B!releasesleep
  <2> QED BY Zenon, <1>10, <2>1 DEF HasBuffer, B!releasesleep, B!bufVars, B!Sleepers
<1>11. ASSUME NEW p \in User, B!brelse(p) PROVE ClientInv'
  <2>1. HasBuffer(p) BY <1>11, Referenced, Zenon DEF B!brelse
  <2> QED BY <1>11, <2>1 DEF HasBuffer, B!brelse
<1>12. ASSUME NEW p \in User, B!panic(p) PROVE ClientInv'
  BY Zenon, <1>12 DEF B!panic, B!vars, B!bufVars
<1> HIDE DEF ClientInv, Buf
<1> QED BY <1>1, <1>2, <1>3, <1>4, <1>5, <1>6, <1>7, <1>8, <1>9, <1>10, <1>11, <1>12, Zenon DEF B!Next

\* acquiresleep() and releasesleep().
LEMMA SleepLockStep == ASSUME CacheInv, B!Next PROVE SleepLockInv'
<1>t. /\ pc \in [User -> {"out", "acquire", "asleep", "read", "held", "brelse", "panic"}]
      /\ buf \in [User -> Buf \cup {0}]
      /\ blocked \in [Buf -> User \cup {None}]
      /\ SleepLockInv /\ ClientInv
  BY Zenon DEF CacheInv, CacheTypes
<1> USE CacheFacts, <1>t DEF SleepLockInv, Buf
<1>1. ASSUME NEW p \in User, NEW k \in Block, B!bget_hit(p, k) PROVE SleepLockInv'
  <2>1. PICK b \in Buf : Hits(p, k, b) BY <1>1, HitsCached, Zenon
  <2>2. /\ pc[p] = "out" /\ blocked' = blocked /\ pc' = [pc EXCEPT ![p] = "acquire"] /\ buf' = [buf EXCEPT ![p] = b]
    BY Zenon, <2>1 DEF Hits
  <2>3. \A c \in Buf : blocked[c] # p BY Zenon, <2>2
  <2>4. \A c \in Buf : blocked'[c] # None => pc'[blocked'[c]] \in {"read", "held"} /\ buf'[blocked'[c]] = c
    BY <2>2, <2>3
  <2>5. \A q \in User : pc'[q] \in {"read", "held"} => blocked'[buf'[q]] = q BY <2>2
  <2>6. \A q \in User : pc'[q] = "asleep" => blocked'[buf'[q]] # None BY <2>2
  <2> QED BY Zenon, <2>4, <2>5, <2>6
<1>2. ASSUME NEW p \in User, NEW k \in Block, B!bget_recycle(p, k) PROVE SleepLockInv'
  <2>1. PICK c \in Buf : Recycles(p, k, c) BY <1>2, RecyclesUnused, Zenon
  <2>2. /\ pc[p] = "out" /\ blocked' = blocked /\ pc' = [pc EXCEPT ![p] = "acquire"] /\ buf' = [buf EXCEPT ![p] = c]
    BY Zenon, <2>1 DEF Recycles
  <2>3. \A b \in Buf : blocked[b] # p BY Zenon, <2>2
  <2>4. \A b \in Buf : blocked'[b] # None => pc'[blocked'[b]] \in {"read", "held"} /\ buf'[blocked'[b]] = b
    BY <2>2, <2>3
  <2>5. \A q \in User : pc'[q] \in {"read", "held"} => blocked'[buf'[q]] = q BY <2>2
  <2>6. \A q \in User : pc'[q] = "asleep" => blocked'[buf'[q]] # None BY <2>2
  <2> QED BY Zenon, <2>4, <2>5, <2>6
<1>3. ASSUME NEW p \in User, NEW k \in Block, B!bget_panic(p, k) PROVE SleepLockInv'
  BY <1>3 DEF B!bget_panic, B!bufVars
<1>4. ASSUME NEW p \in User, B!acquiresleep(p) PROVE SleepLockInv'
  <2>1. HasBuffer(p) BY <1>4, Referenced, Zenon DEF B!acquiresleep
  <2>2. CASE Takes(p) BY <2>1, <2>2 DEF HasBuffer, Takes
  <2>3. CASE Waits(p) BY <2>1, <2>3 DEF HasBuffer, Waits
  <2> QED BY <1>4, <2>2, <2>3, AcquireCases, Zenon
<1>5. ASSUME NEW p \in User, B!bread(p) PROVE SleepLockInv'
  <2>1. HasBuffer(p) BY <1>5, Referenced, Zenon DEF B!bread
  <2> QED BY <1>5, <2>1 DEF HasBuffer, B!bread
<1>6. ASSUME NEW p \in User, B!bwrite(p) PROVE SleepLockInv'
  <2>1. HasBuffer(p) BY <1>6, Referenced, Zenon DEF B!bwrite
  <2> QED BY Zenon, <1>6, <2>1 DEF HasBuffer, B!bwrite, B!bufVars
<1>7. ASSUME NEW p \in User, B!bpin(p) PROVE SleepLockInv'
  <2>1. HasBuffer(p) BY <1>7, Referenced, Zenon DEF B!bpin
  <2> QED BY Zenon, <1>7, <2>1 DEF HasBuffer, B!bpin
<1>8. ASSUME NEW p \in User, B!bunpin(p) PROVE SleepLockInv'
  <2>1. HasBuffer(p) BY <1>8, Referenced, Zenon DEF B!bunpin
  <2> QED BY Zenon, <1>8, <2>1 DEF HasBuffer, B!bunpin
<1>9. ASSUME NEW p \in User, NEW v \in Content, B!modify(p, v) PROVE SleepLockInv'
  <2>1. HasBuffer(p) BY <1>9, Referenced, Zenon DEF B!modify
  <2> QED BY Zenon, <1>9, <2>1 DEF HasBuffer, B!modify
<1>10. ASSUME NEW p \in User, B!releasesleep(p) PROVE SleepLockInv'
  <2>1. HasBuffer(p) BY <1>10, Referenced, Zenon DEF B!releasesleep
  <2> QED BY <1>10, <2>1 DEF HasBuffer, B!releasesleep, B!bufVars, B!Sleepers
<1>11. ASSUME NEW p \in User, B!brelse(p) PROVE SleepLockInv'
  <2>1. HasBuffer(p) BY <1>11, Referenced, Zenon DEF B!brelse
  <2> QED BY <1>11, <2>1 DEF HasBuffer, B!brelse
<1>12. ASSUME NEW p \in User, B!panic(p) PROVE SleepLockInv'
  BY Zenon, <1>12 DEF B!panic, B!vars, B!bufVars
<1> HIDE DEF SleepLockInv, Buf
<1> QED BY <1>1, <1>2, <1>3, <1>4, <1>5, <1>6, <1>7, <1>8, <1>9, <1>10, <1>11, <1>12, Zenon DEF B!Next

\* Data.
LEMMA DataStep == ASSUME CacheInv, B!Next PROVE DataInv'
<1>t. /\ pc \in [User -> {"out", "acquire", "asleep", "read", "held", "brelse", "panic"}]
      /\ buf \in [User -> Buf \cup {0}]
      /\ blk \in [User -> Block \cup {None}]
      /\ blockno \in [Buf -> Block \cup {None}]
      /\ valid \in [Buf -> BOOLEAN]
      /\ data \in [Buf -> Content]
      /\ disk \in [Block -> Content]
      /\ last \in [Block -> Content]
      /\ pinned \in SUBSET Buf
      /\ DataInv /\ \A q \in User : pc[q] = "held" => valid[buf[q]]
  BY Zenon DEF CacheInv, CacheTypes, ClientInv
<1> USE CacheFacts, <1>t DEF DataInv, Dirty, Buf
<1>1. ASSUME NEW p \in User, NEW k \in Block, B!bget_hit(p, k) PROVE DataInv'
  <2>1. PICK b \in Buf : Hits(p, k, b) BY <1>1, HitsCached, Zenon
  <2> QED BY Zenon, <2>1 DEF Hits
<1>2. ASSUME NEW p \in User, NEW k \in Block, B!bget_recycle(p, k) PROVE DataInv'
  <2>1. PICK c \in Buf : Recycles(p, k, c) BY <1>2, RecyclesUnused, Zenon
  <2> QED BY <2>1 DEF Recycles
<1>3. ASSUME NEW p \in User, NEW k \in Block, B!bget_panic(p, k) PROVE DataInv'
  BY <1>3 DEF B!bget_panic, B!bufVars
<1>4. ASSUME NEW p \in User, B!acquiresleep(p) PROVE DataInv'
  <2>1. HasBuffer(p) BY <1>4, Referenced, Zenon DEF B!acquiresleep
  <2>2. CASE Takes(p) BY <2>1, <2>2 DEF HasBuffer, Takes
  <2>3. CASE Waits(p) BY <2>1, <2>3 DEF HasBuffer, Waits
  <2> QED BY <1>4, <2>2, <2>3, AcquireCases, Zenon
<1>5. ASSUME NEW p \in User, B!bread(p) PROVE DataInv'
  <2>1. HasBuffer(p) BY <1>5, Referenced, Zenon DEF B!bread
  <2> QED BY <1>5, <2>1 DEF HasBuffer, B!bread
<1>6. ASSUME NEW p \in User, B!bwrite(p) PROVE DataInv'
  <2>1. HasBuffer(p) BY <1>6, Referenced, Zenon DEF B!bwrite
  <2> QED BY <1>6, <2>1 DEF HasBuffer, B!bwrite, B!bufVars
<1>7. ASSUME NEW p \in User, B!bpin(p) PROVE DataInv'
  <2>1. HasBuffer(p) BY <1>7, Referenced, Zenon DEF B!bpin
  <2> QED BY <1>7, <2>1 DEF HasBuffer, B!bpin
<1>8. ASSUME NEW p \in User, B!bunpin(p) PROVE DataInv'
  <2>1. HasBuffer(p) BY <1>8, Referenced, Zenon DEF B!bunpin
  <2> QED BY <1>8, <2>1 DEF HasBuffer, B!bunpin
<1>9. ASSUME NEW p \in User, NEW v \in Content, B!modify(p, v) PROVE DataInv'
  <2>1. HasBuffer(p) BY <1>9, Referenced, Zenon DEF B!modify
  <2> QED BY <1>9, <2>1 DEF HasBuffer, B!modify
<1>10. ASSUME NEW p \in User, B!releasesleep(p) PROVE DataInv'
  <2>1. HasBuffer(p) BY <1>10, Referenced, Zenon DEF B!releasesleep
  <2> QED BY <1>10, <2>1 DEF HasBuffer, B!releasesleep, B!bufVars, B!Sleepers
<1>11. ASSUME NEW p \in User, B!brelse(p) PROVE DataInv'
  <2>1. HasBuffer(p) BY <1>11, Referenced, Zenon DEF B!brelse
  <2> QED BY <1>11, <2>1 DEF HasBuffer, B!brelse
<1>12. ASSUME NEW p \in User, B!panic(p) PROVE DataInv'
  BY <1>12 DEF B!panic, B!vars, B!bufVars
<1> HIDE DEF DataInv, Dirty, Buf
<1> QED BY <1>1, <1>2, <1>3, <1>4, <1>5, <1>6, <1>7, <1>8, <1>9, <1>10, <1>11, <1>12, Zenon DEF B!Next

\* refcnt goes with the processes that have a reference.
LEMMA RefStep == ASSUME CacheInv, B!Next PROVE RefInv'
<1>t. /\ refcnt \in [Buf -> Nat] /\ buf \in [User -> Buf \cup {0}] /\ pinned \in SUBSET Buf
      /\ \A p \in User : pc[p] = "out" => buf[p] = 0
  BY Zenon DEF CacheInv, CacheTypes, ClientInv
<1>r. RefInv BY Zenon DEF CacheInv
<1>b. Buf' = Buf BY Zenon DEF Buf, B!Buf
<1>1. ASSUME buf' = buf, refcnt' = refcnt, pinned' = pinned PROVE RefInv'
  BY Zenon, <1>1, <1>r, <1>b DEF RefInv, Users
<1>2. ASSUME NEW p \in User, B!bpin(p) PROVE RefInv'
  <2>1. HasBuffer(p) BY <1>2, Referenced, Zenon DEF B!bpin
  <2>2. \A b \in Buf : Users(b)' = Users(b) BY Zenon, <1>2 DEF B!bpin, Users
  <2>3. ASSUME NEW b \in Buf PROVE refcnt'[b] = Cardinality(Users(b)) + (IF b \in pinned' THEN 1 ELSE 0)
    <3>1. CASE b = buf[p] BY <1>2, <1>t, <1>r, <3>1, UsersFinite DEF B!bpin, RefInv
    <3>2. CASE b # buf[p] BY Zenon, <1>2, <1>t, <1>r, <3>2, UsersFinite DEF B!bpin, RefInv
    <3> QED BY Zenon, <3>1, <3>2
  <2> QED BY Zenon, <2>2, <2>3, <1>b DEF RefInv
<1>3. ASSUME NEW p \in User, B!bunpin(p) PROVE RefInv'
  <2>1. HasBuffer(p) BY <1>3, Referenced, Zenon DEF B!bunpin
  <2>2. \A b \in Buf : Users(b)' = Users(b) BY Zenon, <1>3 DEF B!bunpin, Users
  <2>3. ASSUME NEW b \in Buf PROVE refcnt'[b] = Cardinality(Users(b)) + (IF b \in pinned' THEN 1 ELSE 0)
    <3>1. CASE b = buf[p] BY <1>3, <1>t, <1>r, <3>1, UsersFinite DEF B!bunpin, RefInv
    <3>2. CASE b # buf[p] BY Zenon, <1>3, <1>t, <1>r, <3>2, UsersFinite DEF B!bunpin, RefInv
    <3> QED BY Zenon, <3>1, <3>2
  <2> QED BY Zenon, <2>2, <2>3, <1>b DEF RefInv
<1>4. ASSUME NEW p \in User, NEW k \in Block, NEW b \in Buf, Hits(p, k, b) PROVE RefInv'
  <2>1. p \notin Users(b) /\ Users(b)' = Users(b) \cup {p} BY <1>4, <1>t, CacheFacts DEF Hits, Users
  <2>2. \A c \in Buf : c # b => Users(c)' = Users(c) BY Zenon, <1>4, <1>t, CacheFacts DEF Hits, Users
  <2>3. Cardinality(Users(b)') = Cardinality(Users(b)) + 1 BY Zenon, <2>1, UsersFinite, FS_AddElement
  <2>4. ASSUME NEW c \in Buf PROVE refcnt'[c] = Cardinality(Users(c)') + (IF c \in pinned' THEN 1 ELSE 0)
    <3>1. CASE c = b BY <1>4, <1>t, <1>r, <2>3, <3>1, UsersFinite DEF Hits, RefInv
    <3>2. CASE c # b BY Zenon, <1>4, <1>t, <1>r, <2>2, <3>2 DEF Hits, RefInv
    <3> QED BY Zenon, <3>1, <3>2
  <2> QED BY Zenon, <2>4, <1>b DEF RefInv
<1>5. ASSUME NEW p \in User, NEW k \in Block, NEW b \in Buf, Recycles(p, k, b) PROVE RefInv'
  <2>1. Users(b)' = {p} BY <1>5, <1>t, CacheFacts DEF Recycles, Users
  <2>2. \A c \in Buf : c # b => Users(c)' = Users(c) BY Zenon, <1>5, <1>t, CacheFacts DEF Recycles, Users
  <2>3. Cardinality(Users(b)') = 1 BY Zenon, <2>1, FS_Singleton
  <2>4. ASSUME NEW c \in Buf PROVE refcnt'[c] = Cardinality(Users(c)') + (IF c \in pinned' THEN 1 ELSE 0)
    <3>1. CASE c = b BY <1>5, <1>t, <2>3, <3>1 DEF Recycles
    <3>2. CASE c # b BY Zenon, <1>5, <1>t, <1>r, <2>2, <3>2 DEF Recycles, RefInv
    <3> QED BY Zenon, <3>1, <3>2
  <2> QED BY Zenon, <2>4, <1>b DEF RefInv
<1>6. ASSUME NEW p \in User, NEW b \in Buf, b = buf[p], B!brelse(p) PROVE RefInv'
  <2>1. HasBuffer(p) BY <1>6, Referenced, Zenon DEF B!brelse
  <2>3. /\ refcnt' = [refcnt EXCEPT ![b] = @ - 1] /\ buf' = [buf EXCEPT ![p] = 0] /\ pinned' = pinned
    BY <1>6, Zenon DEF B!brelse
  <2>4. p \in Users(b) /\ Users(b)' = Users(b) \ {p} BY Zenon, <1>6, <1>t, <2>3, CacheFacts DEF Users
  <2>5. \A c \in Buf : c # b => Users(c)' = Users(c) BY Zenon, <1>6, <1>t, <2>3, CacheFacts DEF Users
  <2>6. Cardinality(Users(b)') = Cardinality(Users(b)) - 1 BY <2>4, UsersFinite, FS_RemoveElement, Zenon
  <2>7. ASSUME NEW c \in Buf PROVE refcnt'[c] = Cardinality(Users(c)') + (IF c \in pinned' THEN 1 ELSE 0)
    <3>1. CASE c = b BY <1>t, <1>r, <2>3, <2>6, <3>1, UsersFinite DEF RefInv
    <3>2. CASE c # b BY Zenon, <1>t, <1>r, <2>3, <2>5, <3>2 DEF RefInv
    <3> QED BY Zenon, <3>1, <3>2
  <2> QED BY Zenon, <2>7, <1>b DEF RefInv
<1>9. ASSUME NEW p \in User, B!brelse(p) PROVE RefInv'
  <2>1. buf[p] \in Buf BY <1>9, Referenced, Zenon DEF B!brelse, HasBuffer
  <2> QED BY Zenon, <1>6, <1>9, <2>1
<1>7. ASSUME NEW p \in User, NEW k \in Block, B!bget_hit(p, k) PROVE RefInv' BY Zenon, <1>4, <1>7, HitsCached
<1>8. ASSUME NEW p \in User, NEW k \in Block, B!bget_recycle(p, k) PROVE RefInv' BY Zenon, <1>5, <1>8, RecyclesUnused
<1> QED BY <1>1, <1>2, <1>3, <1>7, <1>8, <1>9, Zenon DEF B!Next, B!bget_panic, B!acquiresleep, B!bread,
     B!bwrite, B!modify, B!releasesleep, B!panic, B!vars, B!bufVars

(* The invariant of the buffer cache holds in every state.                 *)
THEOREM CacheInvariant == MCSpec => []CacheInv
<1>1. MCInit => CacheInv BY Zenon, CacheInitInv DEF MCInit
<1>2. CacheInv /\ [MCNext]_<<part, vars, cacheVars>> => CacheInv'
  <2> SUFFICES ASSUME CacheInv, [MCNext]_<<part, vars, cacheVars>> PROVE CacheInv' BY Zenon
  <2>1. ASSUME B!Next PROVE CacheInv'
    BY Zenon, <2>1, TypesStep, ListStep, RefStep, ClientStep, SleepLockStep, DataStep DEF CacheInv
  <2>2. ASSUME UNCHANGED cacheVars PROVE CacheInv'
    <3> USE <2>2 DEF cacheVars, CacheInv, Buf, B!Buf
    <3>1. CacheTypes' BY Zenon DEF CacheTypes
    <3>2. ListInv' BY Zenon DEF ListInv
    <3>3. RefInv' BY Zenon DEF RefInv, Users
    <3>4. ClientInv' BY Zenon DEF ClientInv
    <3>5. SleepLockInv' BY Zenon DEF SleepLockInv
    <3>6. DataInv' BY Zenon DEF DataInv, Dirty
    <3> QED BY Zenon, <3>1, <3>2, <3>3, <3>4, <3>5, <3>6
  <2> QED BY <2>1, <2>2, Zenon DEF MCNext
<1> QED BY <1>1, <1>2, PTL DEF MCSpec

(* kernel/bio.c: a block is cached once, bread() returns it locked with    *)
(* what was last stored in it, and references are counted exactly.         *)
THEOREM CacheCoherence == MCSpec => []Coherent
<1>1. ASSUME CacheInv PROVE Coherent
  <2>i. CacheTypes /\ ListInv /\ RefInv /\ ClientInv /\ SleepLockInv /\ DataInv BY Zenon, <1>1 DEF CacheInv
  <2>1. \A b \in Buf : Cardinality(Users(b)) <= Cardinality(User) /\ Cardinality(Users(b)) \in Nat BY Zenon, UsersFinite
  <2>2. Cardinality(User) \in Nat BY Zenon, CacheFacts, FS_CardinalityType
  <2>3. refcnt \in [Buf -> 0..(Cardinality(User) + 1)] BY <2>i, <2>1, <2>2 DEF RefInv, CacheTypes
  <2>4. B!IsInjective(lru) /\ B!Range(lru) = Buf BY <2>i DEF ListInv, B!IsInjective, B!Range
  <2>5. B!TypeOK BY Zenon, <2>i, <2>3, <2>4, CardSame DEF CacheTypes, B!TypeOK, Buf
  <2>6. ASSUME NEW b \in DOMAIN refcnt
        PROVE refcnt[b] = B!Cardinality({p \in User : buf[p] = b}) + (IF b \in pinned THEN 1 ELSE 0)
    BY Zenon, <2>i, CardSame DEF RefInv, CacheTypes, Users
  <2>7. ASSUME NEW k \in Block PROVE B!Cardinality(B!Cached(k)) <= 1
    <3>1. CASE B!Cached(k) = {} BY <3>1, CardSame, FS_EmptySet
    <3>2. CASE B!Cached(k) # {}
      <4>1. PICK b : b \in B!Cached(k) BY Zenon, <3>2
      <4>2. B!Cached(k) = {b} BY <2>i, <4>1, CacheFacts DEF DataInv, B!Cached, Buf
      <4>3. Cardinality(B!Cached(k)) = 1 BY <4>2, FS_Singleton, Zenon
      <4> QED BY <4>3, CardSame
    <3> QED BY Zenon, <3>1, <3>2
  <2>8. \A p \in User : buf[p] # 0 => blockno[buf[p]] = blk[p] BY Zenon, <2>i DEF ClientInv
  <2>9. ASSUME NEW p \in User, pc[p] = "held" PROVE blocked[buf[p]] = p /\ data[buf[p]] = last[blk[p]]
    BY <2>i, <2>9, CacheFacts DEF ClientInv, SleepLockInv, DataInv, CacheTypes
  <2> QED BY <2>5, <2>6, <2>7, <2>8, <2>9, Zenon DEF Coherent, B!Coherent
<1> QED BY <1>1, CacheInvariant, PTL

(* kernel/sleeplock.c: nobody sleeps on a lock that is free.               *)
THEOREM SleepLockNoLostWakeup == MCSpec => []NoLostWakeup
<1>1. CacheInv => NoLostWakeup BY Zenon DEF CacheInv, SleepLockInv, NoLostWakeup, B!NoLostWakeup
<1> QED BY <1>1, CacheInvariant, PTL
===============================================================================
