------------------------------ MODULE DiskProofs ------------------------------
(***************************************************************************)
(* The driver and the device of the disk, for any number of processes and  *)
(* any sizes of the rings.                                                 *)
(***************************************************************************)
EXTENDS Devices, Integers, Sequences, TLAPS

-------------------------------------------------------------------------------
(* Library is what the proofs use of the library's theorems on finite sets *)
(* and on the order of the natural numbers, which give it in DeviceProofs. *)

Library ==
  /\ \A S : IsFiniteSet(S) => Cardinality(S) \in Nat
  /\ /\ IsFiniteSet({}) /\ Cardinality({}) = 0
     /\ \A S : IsFiniteSet(S) => (Cardinality(S) = 0 <=> S = {})
  /\ \A S, x : IsFiniteSet(S) =>
       /\ IsFiniteSet(S \cup {x})
       /\ Cardinality(S \cup {x}) = IF x \in S THEN Cardinality(S) ELSE Cardinality(S) + 1
  /\ \A S, x : IsFiniteSet(S) =>
       /\ IsFiniteSet(S \ {x})
       /\ Cardinality(S \ {x}) = IF x \in S THEN Cardinality(S) - 1 ELSE Cardinality(S)
  /\ \A a, b \in Int : /\ IsFiniteSet(a..b)
                       /\ Cardinality(a..b) = IF a > b THEN 0 ELSE b - a + 1
  /\ \A S : IsFiniteSet(S) => \A W \in SUBSET S : IsFiniteSet(W)
  /\ \A S, W : IsFiniteSet(S) /\ IsFiniteSet(W) /\ Cardinality(W) < Cardinality(S) =>
       \A f \in [S -> W] : \E x, y \in S : x # y /\ f[x] = f[y]
  /\ \A S \in SUBSET Nat : S # {} => \E m \in S : \A k \in S : m <= k

\* A number is a multiple and a remainder.
LEMMA Division == ASSUME NEW m \in Nat \ {0}, NEW x \in Nat
                  PROVE \E q \in Nat : x = q * m + (x % m) /\ x % m \in 0..(m - 1)
<1>1. x \div m \in Nat /\ x = m * (x \div m) + (x % m) /\ x % m \in 0..(m - 1) OBVIOUS
<1>2. m * (x \div m) = (x \div m) * m BY <1>1
<1> QED BY <1>1, <1>2, Zenon

\* The remainder is the only one.
LEMMA Unique == ASSUME NEW m \in Nat \ {0}, NEW q \in Nat, NEW k \in 0..(m - 1)
                PROVE (q * m + k) % m = k
OBVIOUS

\* The remainder of a number below twice the modulus.
LEMMA Remainder == ASSUME NEW m \in Nat \ {0}, NEW x \in 0 .. 2 * m - 1
                   PROVE x % m = IF x < m THEN x ELSE x - m
OBVIOUS

-------------------------------------------------------------------------------
(* The disk.  Rings: the k entries from one index to another, both of which*)
(* wrap around.                                                            *)

Gap(from, to, k, m) == to = from + k \/ to = from + k - m

Window(s, from, k) == (from <= s /\ s < from + k) \/ s + NUM < from + k

\* The entries of f between the indices are the ones that are not None, and no
\* descriptor is in f twice.
Ring(f, from, to) ==
  /\ \E k \in 0..NUM : /\ Gap(from, to, k, U16) /\ Gap(from % NUM, to % NUM, k, NUM)
                       /\ \A s \in V!Desc : f[s] # None <=> Window(s, from % NUM, k)
  /\ \A s, t \in V!Desc : f[s] # None /\ f[s] = f[t] => s = t

DiskTypes ==
  /\ free \in SUBSET V!Desc
  /\ desc \in [V!Desc -> [addr : Proc \cup {None}, next : V!Desc \cup {None}]]
  /\ info \in [V!Desc -> [b : Proc \cup {None}, status : {0, 255}]]
  /\ avail \in [V!Desc -> V!Desc \cup {None}] /\ used \in [V!Desc -> V!Desc \cup {None}]
  /\ avail_idx \in 0..(U16 - 1) /\ dev_used \in 0..(U16 - 1)
  /\ used_idx \in 0..(U16 - 1) /\ dev_avail \in 0..(U16 - 1)
  /\ bdisk \in [Proc -> BOOLEAN] /\ served \in [Proc -> 0..1]
  /\ vpc \in [Proc -> {"out", "alloc", "nodesc", "asleep", "woken"}]
  /\ idx \in [Proc -> V!Desc \cup {None}] /\ busy \in SUBSET V!Desc
  /\ vintr \in BOOLEAN /\ raise \in BOOLEAN /\ virq \in BOOLEAN

Owners == {p \in Proc : idx[p] # None}
Second(p) == desc[idx[p]].next
Third(p) == desc[Second(p)].next
InChain(x, p) == x = idx[p] \/ x = Second(p) \/ x = Third(p)

\* The chain of three descriptors that the request of p has.
Owned(p) ==
  /\ idx[p] \in V!Desc \ free /\ Second(p) \in V!Desc \ free /\ Third(p) \in V!Desc \ free
  /\ idx[p] # Second(p) /\ idx[p] # Third(p) /\ Second(p) # Third(p)
  /\ desc[Third(p)].next = None
  /\ desc[idx[p]].addr = p /\ desc[Second(p)].addr = p /\ desc[Third(p)].addr = p
  /\ info[idx[p]].b = p

ChainInv ==
  /\ \A p \in Owners : Owned(p)
  /\ \A x \in V!Desc \ free : \E p \in Owners : InChain(x, p)
  /\ Cardinality(free) = NUM - 3 * Cardinality(Owners)

RingInv == Ring(avail, dev_avail, avail_idx) /\ Ring(used, used_idx, dev_used)

\* The request with head d has been served k times, and virtio_disk_intr() has not
\* seen it.
Pending(d, k) == /\ info[d].b \in Proc /\ idx[info[d].b] = d
                 /\ bdisk[info[d].b] /\ served[info[d].b] = k

\* A head is in one ring or with the device.
PlaceInv ==
  /\ \A s \in V!Desc : avail[s] # None => Pending(avail[s], 0) /\ avail[s] \notin busy
  /\ \A d \in busy : Pending(d, 0)
  /\ \A s \in V!Desc : used[s] # None => Pending(used[s], 1) /\ info[used[s]].status = 0

\* Where a process is in virtio_disk_rw().
CallInv ==
  \A p \in Proc :
    /\ idx[p] # None <=> vpc[p] \in {"asleep", "woken"}
    /\ vpc[p] = "asleep" => bdisk[p]
    /\ vpc[p] = "nodesc" => Cardinality(free) < 3
    /\ idx[p] # None /\ ~bdisk[p] => served[p] = 1

DiskInv == DiskTypes /\ ChainInv /\ RingInv /\ PlaceInv /\ CallInv /\ V!CompletionNoticed

\* The same of the next state, with a head that may depend on it.
PendingNext(d, k) == /\ info'[d].b \in Proc /\ idx'[info'[d].b] = d
                     /\ bdisk'[info'[d].b] /\ served'[info'[d].b] = k

\* What virtio_disk_rw() does to the descriptors a, b and c that it has.
Submits(p, a, b, c) ==
  /\ vpc[p] = "alloc" /\ a \in free /\ b \in free \ {a} /\ c \in free \ {a, b}
  /\ free' = free \ {a, b, c}
  /\ desc' = [desc EXCEPT ![a] = [addr |-> p, next |-> b], ![b] = [addr |-> p, next |-> c],
                          ![c] = [addr |-> p, next |-> None]]
  /\ info' = [info EXCEPT ![a] = [b |-> p, status |-> 255]]
  /\ avail' = [avail EXCEPT ![avail_idx % NUM] = a]
  /\ idx' = [idx EXCEPT ![p] = a]
  /\ avail_idx' = V!Inc(avail_idx)
  /\ bdisk' = [bdisk EXCEPT ![p] = TRUE]
  /\ vpc' = [vpc EXCEPT ![p] = "asleep"]
  /\ served' = [served EXCEPT ![p] = 0]
  /\ UNCHANGED <<used_idx, vintr, used, dev_used, dev_avail, busy, raise, virq>>

\* What virtio_disk_rw() does when the request of p is done: free_chain() does not panic.
Frees(p) ==
  LET K == {idx[p], Second(p), Third(p)} IN
  /\ info' = [info EXCEPT ![idx[p]].b = None] /\ free' = free \cup K
  /\ desc' = [d \in V!Desc |-> IF d \in K THEN V!Unused ELSE desc[d]]
  /\ vpc' = [V!Wake("nodesc", Proc, "alloc") EXCEPT ![p] = "out"]
  /\ idx' = [idx EXCEPT ![p] = None]
  /\ UNCHANGED <<avail, avail_idx, used_idx, bdisk, vintr, used, dev_used, dev_avail, busy, raise, virq, served>>

\* The steps of the disk driver and of the device keep the invariant, which says
\* that requests are served once, that descriptors are neither lost nor shared and
\* that no wakeup is lost.
LEMMA DiskInduction ==
  ASSUME Library
  PROVE  /\ V!Init => DiskInv
         /\ DiskInv /\ V!Next => DiskInv'
         /\ DiskInv /\ UNCHANGED diskVars => DiskInv'
         /\ DiskInv => V!ServedOnce /\ V!DescriptorsOwned /\ V!NoLostWakeup /\ V!CompletionNoticed

\* The size of a finite set is a natural number.
<1>SizeNat. ASSUME NEW S, IsFiniteSet(S) PROVE Cardinality(S) \in Nat
  BY <1>SizeNat, Zenon DEF Library

\* Only the empty set has size 0.
<1>SizeEmpty. /\ IsFiniteSet({}) /\ Cardinality({}) = 0
              /\ \A S : IsFiniteSet(S) => (Cardinality(S) = 0 <=> S = {})
  BY Zenon DEF Library

\* One element more.
<1>SizeAdd. ASSUME NEW S, NEW x, IsFiniteSet(S)
            PROVE  /\ IsFiniteSet(S \cup {x})
                   /\ Cardinality(S \cup {x}) = IF x \in S THEN Cardinality(S) ELSE Cardinality(S) + 1
  BY <1>SizeAdd, Zenon DEF Library

\* One element less.
<1>SizeRemove. ASSUME NEW S, NEW x, IsFiniteSet(S)
               PROVE  /\ IsFiniteSet(S \ {x})
                      /\ Cardinality(S \ {x}) = IF x \in S THEN Cardinality(S) - 1 ELSE Cardinality(S)
  BY <1>SizeRemove, Zenon DEF Library

\* The numbers from a to b.
<1>SizeInterval. ASSUME NEW a \in Int, NEW b \in Int
                 PROVE  /\ IsFiniteSet(a..b)
                        /\ Cardinality(a..b) = IF a > b THEN 0 ELSE b - a + 1
  BY <1>SizeInterval, Zenon DEF Library

\* A part of a finite set.
<1>SizeSubset. ASSUME NEW S, IsFiniteSet(S), NEW W \in SUBSET S PROVE IsFiniteSet(W)
  BY <1>SizeSubset, Zenon DEF Library

\* A function into a smaller set has the same value twice.
<1>PigeonHole. ASSUME NEW S, IsFiniteSet(S), NEW W, IsFiniteSet(W), Cardinality(W) < Cardinality(S),
                      NEW f \in [S -> W]
               PROVE  \E x, y \in S : x # y /\ f[x] = f[y]
  <2> USE <1>PigeonHole
  <2>1. \A X, Y : IsFiniteSet(X) /\ IsFiniteSet(Y) /\ Cardinality(Y) < Cardinality(X) =>
          \A g \in [X -> Y] : \E x, y \in X : x # y /\ g[x] = g[y]
    BY Zenon DEF Library
  <2>2. \A g \in [S -> W] : \E x, y \in S : x # y /\ g[x] = g[y] BY <2>1, Zenon
  <2> QED BY <2>2, Zenon

\* A set of natural numbers has a least element.
<1>LeastOf. ASSUME NEW S \in SUBSET Nat, S # {} PROVE \E m \in S : \A k \in S : m <= k
  BY <1>LeastOf, Zenon DEF Library

\* The remainder of the next number.
<1>Succ. ASSUME NEW m \in Nat \ {0}, NEW x \in Nat
         PROVE (x + 1) % m = IF x % m = m - 1 THEN 0 ELSE (x % m) + 1
  <2> USE <1>Succ
  <2>1. PICK q \in Nat : x = q * m + (x % m) /\ x % m \in 0..(m - 1) BY Division, Zenon
  <2>2. PICK k \in 0..(m - 1) : k = x % m /\ x = q * m + k BY Zenon, <2>1
  <2>3. CASE k = m - 1
    <3>1. x + 1 = (q + 1) * m + 0 BY <2>2, <2>3
    <3>2. ((q + 1) * m + 0) % m = 0 BY Unique
    <3> QED BY Zenon, <2>2, <2>3, <3>1, <3>2
  <2>4. CASE k # m - 1
    <3>1. x + 1 = q * m + (k + 1) /\ k + 1 \in 0..(m - 1) BY <2>2, <2>4
    <3>2. (q * m + (k + 1)) % m = k + 1 BY <3>1, Unique, Zenon
    <3> QED BY Zenon, <2>2, <2>4, <3>1, <3>2
  <2> QED BY Zenon, <2>3, <2>4

\* What the proofs use of the constants of the disk.
<1>DiskFacts. /\ NUM \in Nat \ {0} /\ NUM >= 3 /\ U16 \in Nat \ {0} /\ NUM < U16
              /\ U16 % NUM = 0 /\ (U16 - 1) % NUM = NUM - 1
              /\ None \notin Proc /\ None \notin V!Desc /\ IsFiniteSet(Proc)
  <2>1. NUM \in Nat \ {0} /\ NUM >= 3 /\ None \notin Proc /\ None \notin V!Desc /\ IsFiniteSet(Proc)
    BY DeviceAssumption DEF V!Desc
  <2>2. PICK k \in 2..U16 : U16 = k * NUM /\ U16 \in Nat BY Zenon, DeviceAssumption
  <2>3. k \in Nat /\ k >= 2 BY <2>2
  <2>4. U16 = NUM + (k - 2) * NUM + NUM /\ (k - 2) * NUM \in Nat BY <2>1, <2>2, <2>3
  <2>5. NUM < U16 /\ U16 \in Nat \ {0} BY <2>1, <2>4
  <2>6. U16 % NUM = 0
    <3>1. (k * NUM + 0) % NUM = 0 BY <2>1, <2>3, Unique
    <3> QED BY <2>1, <2>2, <2>3, <3>1
  <2>7. (U16 - 1) % NUM = NUM - 1
    <3>1. U16 - 1 = (k - 1) * NUM + (NUM - 1) BY <2>1, <2>2, <2>3
    <3>2. ((k - 1) * NUM + (NUM - 1)) % NUM = NUM - 1 BY <2>1, <2>3, Unique
    <3> QED BY Zenon, <3>1, <3>2
  <2> QED BY Zenon, <2>1, <2>5, <2>6, <2>7

\* The next index, and its place in the ring.
<1>NextIndex. ASSUME NEW x \in 0..(U16 - 1)
              PROVE /\ x % NUM \in V!Desc
                    /\ V!Inc(x) \in 0..(U16 - 1) /\ V!Inc(x) = IF x + 1 = U16 THEN 0 ELSE x + 1
                    /\ V!Inc(x) % NUM = IF x % NUM = NUM - 1 THEN 0 ELSE (x % NUM) + 1
  <2> USE <1>NextIndex
  <2>1. NUM \in Nat \ {0} /\ U16 \in Nat \ {0} /\ x \in Nat BY <1>DiskFacts
  <2>2. x % NUM \in V!Desc BY <2>1 DEF V!Desc
  <2>3. V!Inc(x) = IF x + 1 = U16 THEN 0 ELSE x + 1
    <3>1. x % U16 = x BY <2>1
    <3>2. (x + 1) % U16 = IF x % U16 = U16 - 1 THEN 0 ELSE (x % U16) + 1 BY <2>1, <1>Succ, Zenon
    <3> QED BY <2>1, <3>1, <3>2 DEF V!Inc
  <2>4. V!Inc(x) % NUM = IF x % NUM = NUM - 1 THEN 0 ELSE (x % NUM) + 1
    <3>1. CASE x + 1 = U16
      <4>1. 0 % NUM = 0 BY <2>1
      <4>2. x = U16 - 1 BY <2>1, <3>1
      <4> QED BY Zenon, <2>3, <3>1, <4>1, <4>2, <1>DiskFacts
    <3>2. CASE x + 1 # U16 BY <2>1, <2>3, <3>2, <1>Succ, Zenon
    <3> QED BY Zenon, <3>1, <3>2
  <2> QED BY <2>1, <2>2, <2>3, <2>4

\* An index that moves to a place that was free, or past one.
<1>WindowMoves. ASSUME NEW b \in V!Desc, NEW k \in 0..NUM, NEW t \in V!Desc, NEW s \in V!Desc, Gap(b, t, k, NUM)
                PROVE /\ k < NUM => ~Window(t, b, k) /\ (Window(s, b, k + 1) <=> Window(s, b, k) \/ s = t)
                      /\ k > 0 => /\ Window(b, b, k)
                                  /\ Window(s, IF b = NUM - 1 THEN 0 ELSE b + 1, k - 1) <=> Window(s, b, k) /\ s # b
  BY <1>WindowMoves, <1>DiskFacts DEF V!Desc, Gap, Window

\* A new entry: there is room for a descriptor that is not in the ring, and none is
\* overwritten.
<1>RingPut. ASSUME NEW f \in [V!Desc -> V!Desc \cup {None}], NEW from \in 0..(U16 - 1), NEW to \in 0..(U16 - 1),
                   Ring(f, from, to), NEW d \in V!Desc, \A s \in V!Desc : f[s] # d
            PROVE /\ to % NUM \in V!Desc /\ f[to % NUM] = None
                  /\ Ring([f EXCEPT ![to % NUM] = d], from, V!Inc(to))
  <2> USE <1>RingPut
  <2>1. PICK k \in 0..NUM : /\ Gap(from, to, k, U16) /\ Gap(from % NUM, to % NUM, k, NUM)
                            /\ \A s \in V!Desc : f[s] # None <=> Window(s, from % NUM, k)
    BY Zenon DEF Ring
  <2>2. \A s, t \in V!Desc : f[s] # None /\ f[s] = f[t] => s = t BY Zenon DEF Ring
  <2> DEFINE b == from % NUM
             t == to % NUM
             g == [f EXCEPT ![t] = d]
  <2>3. b \in V!Desc /\ t \in V!Desc BY Zenon, <1>NextIndex
  <2>4. d # None /\ NUM \in Nat /\ U16 \in Nat /\ NUM < U16 BY Zenon, <1>DiskFacts
  <2>5. k < NUM
    <3> SUFFICES ASSUME k = NUM PROVE FALSE BY <2>4
    <3>1. ASSUME NEW s \in V!Desc PROVE Window(s, b, NUM) BY <2>3, <2>4 DEF V!Desc, Window
    <3>2. \A s \in V!Desc : f[s] # None BY Zenon, <2>1, <3>1
    <3>3. f \in [V!Desc -> V!Desc \ {d}] BY Zenon, <3>2
    <3>4. IsFiniteSet(V!Desc) /\ Cardinality(V!Desc) = NUM
      <4>1. IsFiniteSet(0..(NUM - 1)) /\ Cardinality(0..(NUM - 1)) = IF 0 > NUM - 1 THEN 0 ELSE NUM - 1 - 0 + 1
        BY <2>4, <1>SizeInterval
      <4> QED BY <4>1, <2>4, <1>DiskFacts DEF V!Desc
    <3>5. IsFiniteSet(V!Desc \ {d}) /\ Cardinality(V!Desc \ {d}) = NUM - 1 BY Zenon, <3>4, <1>SizeRemove
    <3>6. Cardinality(V!Desc \ {d}) < Cardinality(V!Desc) BY <2>4, <3>4, <3>5
    <3>7. \E x, y \in V!Desc : x # y /\ f[x] = f[y] 
      <4> DEFINE S == V!Desc
                 W == V!Desc \ {d}
      <4>1. f \in [S -> W] /\ IsFiniteSet(S) /\ IsFiniteSet(W) /\ Cardinality(W) < Cardinality(S)
        BY Zenon, <3>3, <3>4, <3>5, <3>6
      <4> HIDE DEF S, W
      <4>2. \E x, y \in S : x # y /\ f[x] = f[y] BY <4>1, <1>PigeonHole
      <4> QED BY Zenon, <4>2 DEF S
    <3> QED BY Zenon, <2>2, <3>2, <3>7
  <2>6. Gap(b, t, k, NUM) BY Zenon, <2>1
  <2> HIDE DEF b, t
  <2>7. f[t] = None BY Zenon, <2>1, <2>3, <2>5, <2>6, <1>WindowMoves DEF b
  <2>8. \A s \in V!Desc : g[s] # None <=> Window(s, b, k + 1)
    <3> TAKE s \in V!Desc
    <3>1. Window(s, b, k + 1) <=> Window(s, b, k) \/ s = t BY Zenon, <2>3, <2>5, <2>6, <1>WindowMoves
    <3>2. f[s] # None <=> Window(s, b, k) BY Zenon, <2>1 DEF b
    <3> QED BY Zenon, <2>3, <2>4, <3>1, <3>2
  <2>9. \A s, u \in V!Desc : g[s] # None /\ g[s] = g[u] => s = u BY <2>2, <2>3
  <2>10. Gap(from, V!Inc(to), k + 1, U16)
    <3>1. V!Inc(to) = IF to + 1 = U16 THEN 0 ELSE to + 1 BY Zenon, <1>NextIndex
    <3> QED BY <2>1, <2>4, <2>5, <3>1 DEF Gap
  <2>11. Gap(b, V!Inc(to) % NUM, k + 1, NUM)
    <3>1. V!Inc(to) % NUM = IF t = NUM - 1 THEN 0 ELSE t + 1 BY Zenon, <1>NextIndex DEF t
    <3> QED BY <2>3, <2>4, <2>5, <2>6, <3>1 DEF Gap, V!Desc
  <2>12. k + 1 \in 0..NUM BY <2>4, <2>5
  <2>13. Ring(g, from, V!Inc(to)) BY Zenon, <2>8, <2>9, <2>10, <2>11, <2>12 DEF Ring, b
  <2> QED BY Zenon, <2>3, <2>7, <2>13 DEF t

\* The oldest entry is taken.
<1>RingTake. ASSUME NEW f \in [V!Desc -> V!Desc \cup {None}], NEW from \in 0..(U16 - 1), NEW to \in 0..(U16 - 1),
                    Ring(f, from, to), from # to
             PROVE /\ from % NUM \in V!Desc /\ f[from % NUM] \in V!Desc
                   /\ Ring([f EXCEPT ![from % NUM] = None], V!Inc(from), to)
  <2> USE <1>RingTake
  <2>1. PICK k \in 0..NUM : /\ Gap(from, to, k, U16) /\ Gap(from % NUM, to % NUM, k, NUM)
                            /\ \A s \in V!Desc : f[s] # None <=> Window(s, from % NUM, k)
    BY Zenon DEF Ring
  <2>2. \A s, t \in V!Desc : f[s] # None /\ f[s] = f[t] => s = t BY Zenon DEF Ring
  <2> DEFINE b == from % NUM
             t == to % NUM
             c == V!Inc(from) % NUM
             g == [f EXCEPT ![b] = None]
  <2>3. b \in V!Desc /\ t \in V!Desc BY Zenon, <1>NextIndex
  <2>4. NUM \in Nat /\ U16 \in Nat /\ NUM < U16 BY Zenon, <1>DiskFacts
  <2>5. k > 0 /\ k - 1 \in 0..NUM BY <2>1, <2>4 DEF Gap
  <2>6. Gap(b, t, k, NUM) BY Zenon, <2>1
  <2>7. c = IF b = NUM - 1 THEN 0 ELSE b + 1 BY Zenon, <1>NextIndex
  <2> HIDE DEF b, t, c
  <2>8. f[b] # None BY Zenon, <2>1, <2>3, <2>5, <2>6, <1>WindowMoves DEF b
  <2>9. \A s \in V!Desc : g[s] # None <=> Window(s, c, k - 1)
    <3> TAKE s \in V!Desc
    <3>1. Window(s, c, k - 1) <=> Window(s, b, k) /\ s # b BY Zenon, <2>3, <2>5, <2>6, <2>7, <1>WindowMoves
    <3>2. f[s] # None <=> Window(s, b, k) BY Zenon, <2>1 DEF b
    <3> QED BY Zenon, <2>3, <3>1, <3>2
  <2>10. \A s, u \in V!Desc : g[s] # None /\ g[s] = g[u] => s = u BY <2>2, <2>3
  <2>11. Gap(V!Inc(from), to, k - 1, U16)
    <3>1. V!Inc(from) = IF from + 1 = U16 THEN 0 ELSE from + 1 BY Zenon, <1>NextIndex
    <3> QED BY <2>1, <2>4, <2>5, <3>1 DEF Gap
  <2>12. Gap(c, t, k - 1, NUM) BY <2>3, <2>4, <2>5, <2>6, <2>7 DEF Gap, V!Desc
  <2>13. Ring(g, V!Inc(from), to) BY Zenon, <2>5, <2>9, <2>10, <2>11, <2>12 DEF Ring, c, t
  <2> QED BY Zenon, <2>3, <2>8, <2>13 DEF b

\* The requests of the rings and of the device, in the next state.
<1>PlaceNext. ASSUME \A s \in V!Desc : avail'[s] # None => PendingNext(avail'[s], 0) /\ avail'[s] \notin busy',
                     \A d \in busy' : PendingNext(d, 0),
                     \A s \in V!Desc : used'[s] # None => PendingNext(used'[s], 1) /\ info'[used'[s]].status = 0
              PROVE PlaceInv'
  BY <1>PlaceNext, Zenon DEF PlaceInv, Pending, PendingNext

\* Cardinality in Virtio.tla is that of FiniteSets.
<1>DiskCard. \A S : V!Cardinality(S) = Cardinality(S)
  BY Zenon DEF V!Cardinality, Cardinality

\* alloc_desc() returns a free descriptor.
<1>FirstFreeIn. ASSUME NEW S \in SUBSET V!Desc, S # {} PROVE V!FirstFree(S) \in S
  <2> USE <1>FirstFreeIn
  <2>1. S \in SUBSET Nat BY <1>DiskFacts DEF V!Desc
  <2>2. \E m \in S : \A k \in S : m <= k BY Zenon, <2>1, <1>LeastOf
  <2> QED BY Zenon, <2>2 DEF V!FirstFree

\* The descriptors are finite in number.
<1>FreeFinite. ASSUME NEW S \in SUBSET V!Desc PROVE IsFiniteSet(S) /\ Cardinality(S) \in Nat
  <2> USE <1>FreeFinite
  <2>1. IsFiniteSet(V!Desc) BY <1>DiskFacts, <1>SizeInterval DEF V!Desc
  <2> QED BY Zenon, <2>1, <1>SizeSubset, <1>SizeNat

\* free_chain() goes through the three descriptors of the request.
<1>ChainIs. ASSUME DiskTypes, NEW p \in Proc, Owned(p)
            PROVE V!Chain(idx[p]) = {idx[p], Second(p), Third(p)}
  <2> USE <1>ChainIs
  <2> DEFINE K == {idx[p], Second(p), Third(p)}
  <2>0. K \subseteq V!Desc BY Zenon DEF Owned
  <2>1. V!Linked(K) BY Zenon DEF V!Linked, Owned, Second, Third
  <2>2. ASSUME NEW S, idx[p] \in S, V!Linked(S) PROVE K \subseteq S
    <3>1. Second(p) \in S BY Zenon, <2>2, <1>DiskFacts DEF V!Linked, Second, Owned
    <3>2. Third(p) \in S BY Zenon, <3>1, <2>2, <1>DiskFacts DEF V!Linked, Third, Owned
    <3> QED BY Zenon, <2>2, <3>1, <3>2
  <2>3. ASSUME NEW x \in V!Desc, x \notin K PROVE x \notin V!Chain(idx[p])
    <3>1. K \in SUBSET (V!Desc \ {x}) /\ idx[p] \in K BY Zenon, <2>0, <2>3
    <3> QED BY Zenon, <2>1, <3>1 DEF V!Chain
  <2>4. ASSUME NEW x \in K PROVE x \in V!Chain(idx[p])
    <3>1. ASSUME NEW S \in SUBSET (V!Desc \ {x}), idx[p] \in S, V!Linked(S) PROVE FALSE
      <4>1. K \subseteq S BY Zenon, <2>2, <3>1
      <4> QED BY Zenon, <4>1
    <3> QED BY Zenon, <2>0, <3>1 DEF V!Chain
  <2>5. V!Chain(idx[p]) \subseteq V!Desc BY Zenon DEF V!Chain
  <2> HIDE DEF K
  <2>6. V!Chain(idx[p]) = K BY Zenon, <2>0, <2>3, <2>4, <2>5
  <2> QED BY Zenon, <2>6 DEF K

\* A step that touches neither chains, rings nor requests.
<1>DiskSame. ASSUME DiskInv, UNCHANGED <<free, desc, info, avail, avail_idx, used, dev_used, used_idx, bdisk, idx,
                                         dev_avail, busy, served>>,
                    vpc' \in [Proc -> {"out", "alloc", "nodesc", "asleep", "woken"}],
                    vintr' \in BOOLEAN /\ raise' \in BOOLEAN /\ virq' \in BOOLEAN,
                    \A p \in Proc : vpc'[p] # vpc[p] =>
                       /\ vpc[p] \in {"out", "alloc", "nodesc"} /\ vpc'[p] \in {"out", "alloc", "nodesc"}
                       /\ vpc'[p] = "nodesc" => Cardinality(free) < 3,
                    used_idx = dev_used \/ raise' \/ virq' \/ vintr'
             PROVE DiskInv'
  <2> USE <1>DiskSame
  <2>1. DiskTypes' BY Zenon DEF DiskInv, DiskTypes
  <2>2. ChainInv'
    <3>1. Owners' = Owners BY Zenon DEF Owners
    <3>2. \A p : Second(p)' = Second(p) /\ Third(p)' = Third(p) BY Zenon DEF Second, Third
    <3>3. \A p : Owned(p) => Owned(p)' BY <3>2, Zenon DEF Owned
    <3>4. \A x, p : InChain(x, p) => InChain(x, p)' BY <3>2, Zenon DEF InChain
    <3>5. \A p \in Owners : Owned(p)' BY <3>3, Zenon DEF DiskInv, ChainInv
    <3>6. \A x \in V!Desc \ free : \E p \in Owners : InChain(x, p)' BY <3>4, Zenon DEF DiskInv, ChainInv
    <3> QED BY <3>1, <3>5, <3>6, Zenon DEF DiskInv, ChainInv
  <2>3. RingInv' BY Zenon DEF DiskInv, RingInv, Ring
  <2>4. PlaceInv' BY Zenon DEF DiskInv, PlaceInv, Pending
  <2>5. CallInv'
    <3> SUFFICES ASSUME NEW p \in Proc
                 PROVE /\ idx[p] # None <=> vpc'[p] \in {"asleep", "woken"}
                       /\ vpc'[p] = "asleep" => bdisk[p]
                       /\ vpc'[p] = "nodesc" => Cardinality(free) < 3
                       /\ idx[p] # None /\ ~bdisk[p] => served[p] = 1
      BY Zenon DEF CallInv
    <3> QED BY Zenon DEF DiskInv, CallInv
  <2>6. V!CompletionNoticed' BY Zenon DEF V!CompletionNoticed
  <2> QED BY Zenon, <2>1, <2>2, <2>3, <2>4, <2>5, <2>6 DEF DiskInv

\* A call of virtio_disk_rw(), and one that finds too few descriptors.
<1>CallStep. ASSUME DiskInv, NEW p \in Proc, V!virtio_disk_rw(p) \/ V!no_desc(p) PROVE DiskInv'
  <2> USE <1>CallStep
  <2>0. /\ vpc \in [Proc -> {"out", "alloc", "nodesc", "asleep", "woken"}]
        /\ vintr \in BOOLEAN /\ raise \in BOOLEAN /\ virq \in BOOLEAN /\ V!CompletionNoticed
    BY Zenon DEF DiskInv, DiskTypes
  <2>1. UNCHANGED <<free, desc, info, avail, avail_idx, used, dev_used, used_idx, bdisk, idx, dev_avail, busy,
                    served, vintr, raise, virq>>
    BY Zenon DEF V!virtio_disk_rw, V!no_desc, V!device
  <2>2. CASE V!virtio_disk_rw(p)
    <3>1. vpc[p] = "out" /\ vpc' = [vpc EXCEPT ![p] = "alloc"] BY <2>2, Zenon DEF V!virtio_disk_rw
    <3> QED BY Zenon, <2>0, <2>1, <3>1, <1>DiskSame DEF V!CompletionNoticed
  <2>3. CASE V!no_desc(p)
    <3>1. vpc[p] = "alloc" /\ Cardinality(free) < 3 BY Zenon, <2>3, <1>DiskCard DEF V!no_desc
    <3>2. \A q \in Proc : vpc'[q] = IF q = p THEN "nodesc" ELSE IF free # {} /\ vpc[q] = "nodesc" THEN "alloc" ELSE vpc[q]
      BY Zenon, <2>3 DEF V!no_desc, V!Wake
    <3>3. vpc' \in [Proc -> {"out", "alloc", "nodesc", "asleep", "woken"}]
      <4>1. vpc' = [q \in Proc |-> vpc'[q]] BY <2>3, Zenon DEF V!no_desc, V!Wake
      <4> QED BY Zenon, <2>0, <3>2, <4>1
    <3>4. \A q \in Proc : vpc'[q] # vpc[q] =>
              /\ vpc[q] \in {"out", "alloc", "nodesc"} /\ vpc'[q] \in {"out", "alloc", "nodesc"}
              /\ vpc'[q] = "nodesc" => Cardinality(free) < 3
      BY Zenon, <3>1, <3>2
    <3> QED BY Zenon, <2>0, <2>1, <3>3, <3>4, <1>DiskSame DEF V!CompletionNoticed
  <2> QED BY Zenon, <2>2, <2>3

\* The beginning and the end of virtio_disk_intr(), and the interrupt itself.
<1>FlagStep. ASSUME DiskInv, V!intr_ack \/ V!intr_done \/ V!dev_raise PROVE DiskInv'
  <2> USE <1>FlagStep
  <2>0. /\ vpc \in [Proc -> {"out", "alloc", "nodesc", "asleep", "woken"}]
        /\ vintr \in BOOLEAN /\ raise \in BOOLEAN /\ virq \in BOOLEAN /\ V!CompletionNoticed
    BY Zenon DEF DiskInv, DiskTypes
  <2>1. UNCHANGED <<free, desc, info, avail, avail_idx, used, dev_used, used_idx, bdisk, idx, dev_avail, busy,
                    served, vpc>>
    BY Zenon DEF V!intr_ack, V!intr_done, V!dev_raise, V!device, V!driver
  <2>2. vintr' \in BOOLEAN /\ raise' \in BOOLEAN /\ virq' \in BOOLEAN
    BY <2>0, Zenon DEF V!intr_ack, V!intr_done, V!dev_raise, V!device, V!driver
  <2>3. used_idx = dev_used \/ raise' \/ virq' \/ vintr'
    BY <2>0, Zenon DEF V!CompletionNoticed, V!intr_ack, V!intr_done, V!dev_raise, V!device, V!driver
  <2> QED BY Zenon, <2>0, <2>1, <2>2, <2>3, <1>DiskSame

\* A head that is pending is not free.
<1>PendingHead. ASSUME DiskInv, NEW d \in V!Desc, NEW k, Pending(d, k)
                PROVE /\ info[d].b \in Proc /\ info[d].b \in Owners /\ Owned(info[d].b) /\ d \notin free
                      /\ idx[info[d].b] = d
  <2> USE <1>PendingHead
  <2>1. info[d].b \in Proc /\ idx[info[d].b] = d BY Zenon DEF Pending
  <2>2. info[d].b \in Owners BY Zenon, <2>1, <1>DiskFacts DEF Owners
  <2>3. Owned(info[d].b) BY <2>2, Zenon DEF DiskInv, ChainInv
  <2>4. d \notin free BY <2>1, <2>3, Zenon DEF Owned
  <2> QED BY Zenon, <2>1, <2>2, <2>3, <2>4

\* The chains are the same when neither they nor the owners change.
<1>ChainSame. ASSUME ChainInv, UNCHANGED <<free, desc, idx>>, \A p \in Proc : Owned(p) => info'[idx[p]].b = info[idx[p]].b
              PROVE ChainInv'
  <2> USE <1>ChainSame
  <2>1. Owners' = Owners BY Zenon DEF Owners
  <2>2. \A p : Second(p)' = Second(p) /\ Third(p)' = Third(p) BY Zenon DEF Second, Third
  <2>3. \A p \in Proc : Owned(p) => Owned(p)' BY <2>2, Zenon DEF Owned
  <2>4. \A x, p : InChain(x, p) => InChain(x, p)' BY <2>2, Zenon DEF InChain
  <2>5. \A p \in Owners : p \in Proc BY Zenon DEF Owners
  <2>6. \A p \in Owners : Owned(p)' BY <2>3, <2>5, Zenon DEF ChainInv
  <2>7. \A x \in V!Desc \ free : \E p \in Owners : InChain(x, p)' BY <2>4, Zenon DEF ChainInv
  <2> QED BY <2>1, <2>6, <2>7, Zenon DEF ChainInv

\* The device takes a request from the ring.
<1>TakeStep. ASSUME DiskInv, V!dev_take PROVE DiskInv'
  <2> USE <1>TakeStep
  <2> DEFINE t == dev_avail % NUM
             d == avail[t]
  <2>1. /\ dev_avail # avail_idx
        /\ busy' = busy \cup {d} /\ avail' = [avail EXCEPT ![t] = None] /\ dev_avail' = V!Inc(dev_avail)
        /\ UNCHANGED <<free, desc, info, avail_idx, used_idx, bdisk, vintr, vpc, idx, used, dev_used, raise, virq, served>>
    BY Zenon DEF V!dev_take
  <2>2. DiskTypes /\ ChainInv /\ RingInv /\ PlaceInv /\ CallInv /\ V!CompletionNoticed BY Zenon DEF DiskInv
  <2>t. /\ avail \in [V!Desc -> V!Desc \cup {None}] /\ dev_avail \in 0..(U16 - 1) /\ avail_idx \in 0..(U16 - 1)
        /\ busy \in SUBSET V!Desc
    BY Zenon, <2>2 DEF DiskTypes
  <2>3. t \in V!Desc /\ d \in V!Desc /\ Ring(avail', V!Inc(dev_avail), avail_idx)
    BY Zenon, <2>1, <2>2, <2>t, <1>RingTake DEF RingInv
  <2>4. V!Inc(dev_avail) \in 0..(U16 - 1) BY Zenon, <2>t, <1>NextIndex
  <2>5. d # None BY Zenon, <2>3, <1>DiskFacts
  <2> HIDE DEF t, d
  <2>6. avail' \in [V!Desc -> V!Desc \cup {None}] /\ busy' \in SUBSET V!Desc BY Zenon, <2>1, <2>3, <2>t
  <2>7. DiskTypes' BY Zenon, <2>1, <2>2, <2>4, <2>6 DEF DiskTypes
  <2>8. ChainInv' BY <2>1, <2>2, <1>ChainSame, Zenon
  <2>9. RingInv' BY <2>1, <2>2, <2>3, Zenon DEF RingInv
  <2>10. PlaceInv'
    <3>1. \A x, k : Pending(x, k) => PendingNext(x, k) BY <2>1, Zenon DEF Pending, PendingNext
    <3>2. ASSUME NEW s \in V!Desc, avail'[s] # None PROVE avail'[s] = avail[s] /\ s # t
      BY Zenon, <2>1, <2>3, <2>t, <3>2
    <3>3. ASSUME NEW s \in V!Desc, avail[s] = d PROVE s = t
      BY Zenon, <2>2, <2>3, <2>5, <3>3 DEF RingInv, Ring, d
    <3>4. \A s \in V!Desc : avail'[s] # None => PendingNext(avail'[s], 0) /\ avail'[s] \notin busy'
      BY <2>1, <2>2, <3>1, <3>2, <3>3 DEF PlaceInv
    <3>5. Pending(d, 0) BY <2>2, <2>3, <2>5, Zenon DEF PlaceInv, d
    <3>6. \A x \in busy' : PendingNext(x, 0) BY Zenon, <2>1, <2>2, <3>1, <3>5 DEF PlaceInv
    <3>7. \A s \in V!Desc : used'[s] # None => PendingNext(used'[s], 1) /\ info'[used'[s]].status = 0
      BY <2>1, <2>2, <3>1, Zenon DEF PlaceInv
    <3> QED BY <3>4, <3>6, <3>7, <1>PlaceNext, Zenon
  <2>11. CallInv' BY <2>1, <2>2, Zenon DEF CallInv
  <2>12. V!CompletionNoticed' BY <2>1, <2>2, Zenon DEF V!CompletionNoticed
  <2> QED BY <2>7, <2>8, <2>9, <2>10, <2>11, <2>12, Zenon DEF DiskInv

\* The device finishes a request, and puts it into the used ring.
<1>FinishStep. ASSUME DiskInv, NEW d \in V!Desc, V!dev_finish(d) PROVE DiskInv'
  <2> USE <1>FinishStep
  <2> DEFINE t == dev_used % NUM
             p == info[d].b
  <2>2. DiskTypes /\ ChainInv /\ RingInv /\ PlaceInv /\ CallInv /\ V!CompletionNoticed BY Zenon DEF DiskInv
  <2>t. /\ used \in [V!Desc -> V!Desc \cup {None}] /\ used_idx \in 0..(U16 - 1) /\ dev_used \in 0..(U16 - 1)
        /\ busy \in SUBSET V!Desc /\ served \in [Proc -> 0..1]
        /\ info \in [V!Desc -> [b : Proc \cup {None}, status : {0, 255}]]
    BY Zenon, <2>2 DEF DiskTypes
  <2>1. d \in busy /\ Pending(d, 0) BY <2>2, Zenon DEF V!dev_finish, PlaceInv
  <2>3. p \in Proc /\ Owned(p) /\ idx[p] = d /\ d \notin free BY <2>1, <1>PendingHead, Zenon
  <2>4. desc[desc[d].next].addr = p BY <2>3, Zenon DEF Owned, Second
  <2>5. /\ busy' = busy \ {d}
        /\ served' = [served EXCEPT ![desc[desc[d].next].addr] = @ + 1]
        /\ info' = [info EXCEPT ![d].status = 0]
        /\ used' = [used EXCEPT ![t] = d] /\ dev_used' = V!Inc(dev_used) /\ raise' = TRUE
        /\ UNCHANGED <<free, desc, avail, avail_idx, used_idx, bdisk, vintr, vpc, idx, dev_avail, virq>>
    BY Zenon DEF V!dev_finish
  <2>6. served[p] = 0 /\ bdisk[p] BY <2>1, Zenon DEF Pending
  <2> HIDE DEF t, p
  <2>7. served' \in [Proc -> 0..1] /\ served'[p] = 1 /\ \A q \in Proc : q # p => served'[q] = served[q]
    <3>1. served' = [served EXCEPT ![p] = 1] BY <2>3, <2>4, <2>5, <2>6, <2>t
    <3> QED BY <2>3, <2>t, <3>1
  <2>8. /\ info' \in [V!Desc -> [b : Proc \cup {None}, status : {0, 255}]] /\ info'[d].status = 0
        /\ \A x \in V!Desc : info'[x].b = info[x].b /\ (x # d => info'[x] = info[x])
    BY <2>5, <2>t
  <2>9. \A s \in V!Desc : used[s] # d
    <3>1. ASSUME NEW s \in V!Desc, used[s] = d PROVE FALSE
      <4>1. Pending(d, 1) BY Zenon, <2>2, <3>1, <1>DiskFacts DEF PlaceInv
      <4> QED BY <2>6, <4>1 DEF Pending, p
    <3> QED BY Zenon, <3>1
  <2>10. t \in V!Desc /\ Ring(used', used_idx, V!Inc(dev_used))
    BY <2>2, <2>5, <2>9, <2>t, <1>RingPut DEF RingInv, t
  <2>11. V!Inc(dev_used) \in 0..(U16 - 1) BY Zenon, <2>t, <1>NextIndex
  <2>12. used' \in [V!Desc -> V!Desc \cup {None}] /\ busy' \in SUBSET V!Desc BY Zenon, <2>5, <2>t
  <2>13. DiskTypes' BY Zenon, <2>2, <2>5, <2>7, <2>8, <2>11, <2>12 DEF DiskTypes
  <2>14. ChainInv'
    <3>1. \A q \in Proc : Owned(q) => info'[idx[q]].b = info[idx[q]].b BY <2>8, Zenon DEF Owned
    <3> QED BY <2>2, <2>5, <3>1, <1>ChainSame, Zenon
  <2>15. RingInv' BY <2>2, <2>5, <2>10, Zenon DEF RingInv
  <2>16. PlaceInv'
    <3>1. ASSUME NEW x \in V!Desc, NEW k, x # d, Pending(x, k) PROVE PendingNext(x, k)
      <4>1. info[x].b \in Proc /\ idx[info[x].b] = x /\ bdisk[info[x].b] /\ served[info[x].b] = k
        BY <3>1, Zenon DEF Pending
      <4>2. info[x].b # p BY Zenon, <2>3, <3>1, <4>1
      <4>3. info'[x].b = info[x].b BY Zenon, <2>8, <3>1
      <4> QED BY <2>5, <2>7, <4>1, <4>2, <4>3, Zenon DEF PendingNext
    <3>2. PendingNext(d, 1)
      <4>1. info'[d].b = p BY Zenon, <2>8 DEF p
      <4> QED BY <2>3, <2>5, <2>6, <2>7, <4>1, Zenon DEF PendingNext
    <3>3. ASSUME NEW s \in V!Desc, avail[s] # None PROVE PendingNext(avail[s], 0) /\ avail[s] \notin busy'
      <4>1. Pending(avail[s], 0) /\ avail[s] \notin busy BY <2>2, <3>3, Zenon DEF PlaceInv
      <4>2. avail[s] \in V!Desc BY <2>2, <3>3 DEF DiskTypes
      <4> QED BY Zenon, <2>1, <2>5, <3>1, <4>1, <4>2
    <3>4. \A x \in busy' : PendingNext(x, 0) BY Zenon, <2>2, <2>5, <2>t, <3>1 DEF PlaceInv
    <3>5. ASSUME NEW s \in V!Desc, used'[s] # None PROVE PendingNext(used'[s], 1) /\ info'[used'[s]].status = 0
      <4>1. CASE s = t
        <5>1. used'[s] = d BY Zenon, <2>5, <2>t, <4>1
        <5> QED BY Zenon, <2>8, <3>2, <5>1
      <4>2. CASE s # t
        <5>1. used'[s] = used[s] /\ used[s] # d /\ used[s] \in V!Desc BY <2>5, <2>9, <2>t, <3>5, <4>2
        <5>2. Pending(used[s], 1) /\ info[used[s]].status = 0 BY <2>2, <3>5, <5>1, Zenon DEF PlaceInv
        <5> QED BY <2>8, <3>1, <5>1, <5>2
      <4> QED BY Zenon, <4>1, <4>2
    <3>6. avail' = avail BY Zenon, <2>5
    <3> QED BY <3>3, <3>4, <3>5, <3>6, <1>PlaceNext, Zenon
  <2>17. CallInv'
    <3> SUFFICES ASSUME NEW q \in Proc
                 PROVE /\ idx[q] # None <=> vpc[q] \in {"asleep", "woken"}
                       /\ vpc[q] = "asleep" => bdisk[q]
                       /\ vpc[q] = "nodesc" => Cardinality(free) < 3
                       /\ idx[q] # None /\ ~bdisk[q] => served'[q] = 1
      BY Zenon, <2>5 DEF CallInv
    <3> QED BY Zenon, <2>2, <2>6, <2>7 DEF CallInv
  <2>18. V!CompletionNoticed' BY <2>5, Zenon DEF V!CompletionNoticed
  <2> QED BY <2>13, <2>14, <2>15, <2>16, <2>17, <2>18, Zenon DEF DiskInv

\* virtio_disk_intr() looks at one entry of the used ring.
<1>UsedStep. ASSUME DiskInv, V!intr_used PROVE DiskInv'
  <2> USE <1>UsedStep
  <2> DEFINE t == used_idx % NUM
             d == used[t]
             p == info[d].b
  <2>2. DiskTypes /\ ChainInv /\ RingInv /\ PlaceInv /\ CallInv /\ V!CompletionNoticed BY Zenon DEF DiskInv
  <2>t. /\ used \in [V!Desc -> V!Desc \cup {None}] /\ used_idx \in 0..(U16 - 1) /\ dev_used \in 0..(U16 - 1)
        /\ bdisk \in [Proc -> BOOLEAN] /\ vpc \in [Proc -> {"out", "alloc", "nodesc", "asleep", "woken"}]
    BY Zenon, <2>2 DEF DiskTypes
  <2>1. /\ vintr /\ used_idx # dev_used
        /\ used' = [used EXCEPT ![t] = None] /\ used_idx' = V!Inc(used_idx)
        /\ UNCHANGED <<free, desc, info, avail, avail_idx, vintr, idx, dev_used, dev_avail, busy, raise, virq, served>>
    BY Zenon DEF V!intr_used
  <2>3. t \in V!Desc /\ d \in V!Desc /\ Ring(used', V!Inc(used_idx), dev_used)
    <3>1. Ring(used, used_idx, dev_used) BY <2>2, Zenon DEF RingInv
    <3> QED BY <2>1, <2>t, <3>1, <1>RingTake, Zenon
  <2>4. V!Inc(used_idx) \in 0..(U16 - 1) BY Zenon, <2>t, <1>NextIndex
  <2>5. d # None BY Zenon, <2>3, <1>DiskFacts
  <2>6. Pending(d, 1) /\ info[d].status = 0 BY <2>2, <2>3, <2>5, Zenon DEF PlaceInv
  <2>7. p \in Proc /\ idx[p] = d /\ served[p] = 1 /\ bdisk[p] BY <2>6, Zenon DEF Pending
  <2>8. p # None BY Zenon, <2>7, <1>DiskFacts
  <2>9. bdisk' = [bdisk EXCEPT ![p] = FALSE] /\ vpc' = V!Wake("asleep", {p}, "woken")
    BY <2>5, <2>6, <2>8, Zenon DEF V!intr_used, V!FinishedBuf
  <2> HIDE DEF t, d, p
  <2>10. bdisk' \in [Proc -> BOOLEAN] /\ ~bdisk'[p] /\ \A q \in Proc : q # p => bdisk'[q] = bdisk[q]
    BY Zenon, <2>7, <2>9, <2>t
  <2>11. \A q \in Proc : vpc'[q] = IF q = p /\ vpc[q] = "asleep" THEN "woken" ELSE vpc[q]
    BY Zenon, <2>9 DEF V!Wake
  <2>12. vpc' \in [Proc -> {"out", "alloc", "nodesc", "asleep", "woken"}]
    <3>1. vpc' = [q \in Proc |-> vpc'[q]] BY <2>9, Zenon DEF V!Wake
    <3> QED BY Zenon, <2>11, <2>t, <3>1
  <2>13. used' \in [V!Desc -> V!Desc \cup {None}] BY Zenon, <2>1, <2>t
  <2>14. DiskTypes' BY Zenon, <2>1, <2>2, <2>4, <2>10, <2>12, <2>13 DEF DiskTypes
  <2>15. ChainInv' BY <2>1, <2>2, <1>ChainSame, Zenon
  <2>16. RingInv' BY <2>1, <2>2, <2>3, Zenon DEF RingInv
  <2>17. PlaceInv'
    <3>1. ASSUME NEW x, NEW k, x # d, Pending(x, k) PROVE PendingNext(x, k)
      <4>1. info[x].b \in Proc /\ idx[info[x].b] = x /\ bdisk[info[x].b] /\ served[info[x].b] = k
        BY <3>1, Zenon DEF Pending
      <4>2. info[x].b # p BY Zenon, <2>7, <3>1, <4>1
      <4> QED BY <2>1, <2>10, <4>1, <4>2, Zenon DEF PendingNext
    <3>2. ~Pending(d, 0) BY <2>7 DEF Pending, p
    <3>3. \A s \in V!Desc : avail'[s] # None => PendingNext(avail'[s], 0) /\ avail'[s] \notin busy'
      BY <2>1, <2>2, <3>1, <3>2, Zenon DEF PlaceInv
    <3>4. \A x \in busy' : PendingNext(x, 0) BY <2>1, <2>2, <3>1, <3>2, Zenon DEF PlaceInv
    <3>5. ASSUME NEW s \in V!Desc, used'[s] # None PROVE PendingNext(used'[s], 1) /\ info'[used'[s]].status = 0
      <4>1. s # t /\ used'[s] = used[s] BY Zenon, <2>1, <2>3, <2>t, <3>5
      <4>2. Pending(used[s], 1) /\ info[used[s]].status = 0 BY <2>2, <3>5, <4>1, Zenon DEF PlaceInv
      <4>3. used[s] # d
        <5>1. \A x, y \in V!Desc : used[x] = used[y] /\ used[x] # None => x = y
          BY <2>2, Zenon DEF RingInv, Ring
        <5> QED BY Zenon, <2>3, <2>5, <4>1, <5>1 DEF d
      <4>4. info' = info BY Zenon, <2>1
      <4> QED BY Zenon, <3>1, <4>1, <4>2, <4>3, <4>4
    <3> QED BY <3>3, <3>4, <3>5, <1>PlaceNext, Zenon
  <2>18. CallInv'
    <3> SUFFICES ASSUME NEW q \in Proc
                 PROVE /\ idx[q] # None <=> vpc'[q] \in {"asleep", "woken"}
                       /\ vpc'[q] = "asleep" => bdisk'[q]
                       /\ vpc'[q] = "nodesc" => Cardinality(free) < 3
                       /\ idx[q] # None /\ ~bdisk'[q] => served[q] = 1
      BY Zenon, <2>1 DEF CallInv
    <3> QED BY <2>2, <2>7, <2>10, <2>11 DEF CallInv
  <2>19. V!CompletionNoticed' BY <2>1, Zenon DEF V!CompletionNoticed
  <2> QED BY <2>14, <2>15, <2>16, <2>17, <2>18, <2>19, Zenon DEF DiskInv

\* Three descriptors fewer.
<1>RemoveThree. ASSUME NEW S, IsFiniteSet(S), NEW a \in S, NEW b \in S \ {a}, NEW c \in S \ {a, b}
                PROVE Cardinality(S \ {a, b, c}) = Cardinality(S) - 3
  <2> USE <1>RemoveThree
  <2>1. IsFiniteSet(S \ {a}) /\ Cardinality(S \ {a}) = Cardinality(S) - 1 BY Zenon, <1>SizeRemove
  <2>2. /\ IsFiniteSet((S \ {a}) \ {b}) /\ Cardinality((S \ {a}) \ {b}) = Cardinality(S \ {a}) - 1
    BY Zenon, <2>1, <1>SizeRemove
  <2>3. (S \ {a}) \ {b} = S \ {a, b} /\ (S \ {a, b}) \ {c} = S \ {a, b, c} BY Zenon
  <2>4. IsFiniteSet(S \ {a, b}) /\ Cardinality(S \ {a, b}) = Cardinality(S \ {a}) - 1 BY <2>2, <2>3, Zenon
  <2>5. Cardinality((S \ {a, b}) \ {c}) = Cardinality(S \ {a, b}) - 1 BY <2>4, <1>SizeRemove, Zenon
  <2>6. Cardinality(S \ {a, b, c}) = Cardinality(S \ {a, b}) - 1 BY <2>3, <2>5, Zenon
  <2>7. Cardinality(S) \in Nat BY <1>SizeNat, Zenon
  <2> QED BY <2>1, <2>4, <2>6, <2>7

\* alloc3_desc() succeeds.
<1>ThreeFree. ASSUME NEW S \in SUBSET V!Desc, Cardinality(S) >= 3
              PROVE /\ V!FirstFree(S) \in S /\ V!FirstFree(S \ {V!FirstFree(S)}) \in S \ {V!FirstFree(S)}
                    /\ V!FirstFree(S \ {V!FirstFree(S), V!FirstFree(S \ {V!FirstFree(S)})})
                         \in S \ {V!FirstFree(S), V!FirstFree(S \ {V!FirstFree(S)})}
  <2> USE <1>ThreeFree
  <2> DEFINE a == V!FirstFree(S)
             b == V!FirstFree(S \ {a})
  <2>1. IsFiniteSet(S) /\ Cardinality(S) \in Nat BY Zenon, <1>FreeFinite
  <2>2. S # {} BY <2>1, <1>SizeEmpty
  <2>3. a \in S BY <2>2, <1>FirstFreeIn, Zenon
  <2> HIDE DEF a
  <2>4. IsFiniteSet(S \ {a}) /\ Cardinality(S \ {a}) = Cardinality(S) - 1 BY Zenon, <2>1, <2>3, <1>SizeRemove
  <2>5. S \ {a} # {} BY <2>1, <2>4, <1>SizeEmpty
  <2>6. b \in S \ {a}
    <3>1. S \ {a} \in SUBSET V!Desc BY Zenon
    <3> QED BY <2>5, <3>1, <1>FirstFreeIn, Zenon
  <2> HIDE DEF b
  <2>7. Cardinality((S \ {a}) \ {b}) = Cardinality(S) - 2
    <3>1. Cardinality((S \ {a}) \ {b}) = Cardinality(S \ {a}) - 1 BY <2>4, <2>6, <1>SizeRemove, Zenon
    <3> QED BY <2>1, <2>4, <3>1
  <2>8. S \ {a, b} # {}
    <3>1. (S \ {a}) \ {b} = S \ {a, b} BY Zenon
    <3> QED BY <2>1, <2>7, <3>1, <1>SizeEmpty
  <2>9. V!FirstFree(S \ {a, b}) \in S \ {a, b}
    <3>1. S \ {a, b} \in SUBSET V!Desc BY Zenon
    <3> QED BY <2>8, <3>1, <1>FirstFreeIn, Zenon
  <2> QED BY <2>3, <2>6, <2>9, Zenon DEF a, b

\* submit(p) takes three free descriptors, which alloc3_desc() found.
<1>SubmitIs. ASSUME DiskTypes, NEW p \in Proc, V!submit(p)
             PROVE \E a, b, c \in V!Desc : Submits(p, a, b, c)
  <2> USE <1>SubmitIs
  <2> DEFINE a == V!FirstFree(free)
             b == V!FirstFree(free \ {a})
             c == V!FirstFree(free \ {a, b})
  <2>1. free \in SUBSET V!Desc /\ Cardinality(free) >= 3 BY Zenon, <1>DiskCard DEF DiskTypes, V!submit
  <2>2. a \in free /\ b \in free \ {a} /\ c \in free \ {a, b} BY <2>1, <1>ThreeFree, Zenon
  <2>3. Submits(p, a, b, c)
    <3>1. V!Taken({a, b, c}) = free \ {a, b, c} BY Zenon DEF V!Taken
    <3>2. free' = V!Taken({a, b, c}) BY Zenon DEF V!submit
    <3> QED BY <2>2, <3>1, <3>2, Zenon DEF V!submit, Submits
  <2>4. a \in V!Desc /\ b \in V!Desc /\ c \in V!Desc BY Zenon, <2>1, <2>2
  <2> QED BY <2>3, <2>4, Zenon

\* The chains after it.
<1>SubmitChains. ASSUME DiskTypes, ChainInv, NEW p \in Proc, idx[p] = None,
                        NEW a \in V!Desc, NEW b \in V!Desc, NEW c \in V!Desc, Submits(p, a, b, c)
                 PROVE ChainInv' /\ Owners' = Owners \cup {p} /\ Cardinality(free') < Cardinality(free)
  <2> USE <1>SubmitChains
  <2>t. /\ free \in SUBSET V!Desc /\ idx \in [Proc -> V!Desc \cup {None}]
        /\ desc \in [V!Desc -> [addr : Proc \cup {None}, next : V!Desc \cup {None}]]
        /\ info \in [V!Desc -> [b : Proc \cup {None}, status : {0, 255}]]
    BY Zenon DEF DiskTypes
  <2>f. a \in free /\ b \in free \ {a} /\ c \in free \ {a, b} /\ free' = free \ {a, b, c} BY Zenon DEF Submits
  <2>1. \A x \in V!Desc \ free : desc'[x] = desc[x] /\ info'[x] = info[x]
    BY <2>f, <2>t DEF Submits
  <2>2. \A q \in Proc : q # p => idx'[q] = idx[q] BY <2>t DEF Submits
  <2>3. idx'[p] = a BY <2>t DEF Submits
  <2>4. desc'[a] = [addr |-> p, next |-> b] /\ desc'[b] = [addr |-> p, next |-> c] /\ desc'[c] = [addr |-> p, next |-> None]
    BY <2>f, <2>t DEF Submits
  <2>5. info'[a].b = p BY <2>t DEF Submits
  <2>6. a # None BY Zenon, <1>DiskFacts
  <2>7. Owners' = Owners \cup {p} /\ p \notin Owners /\ Owners \in SUBSET Proc
    <3>1. \A q \in Proc : idx'[q] # None <=> (idx[q] # None \/ q = p) BY Zenon, <2>2, <2>3, <2>6
    <3> QED BY Zenon, <3>1 DEF Owners
  <2>8. Second(p)' = b /\ Third(p)' = c /\ Owned(p)'
    <3>1. Second(p)' = b BY <2>3, <2>4 DEF Second
    <3>2. Third(p)' = c BY <3>1, <2>4 DEF Third
    <3>3. /\ a \notin free' /\ b \notin free' /\ c \notin free' BY Zenon, <2>f
    <3>4. a # b /\ a # c /\ b # c BY Zenon, <2>f
    <3>5. desc'[a].addr = p /\ desc'[b].addr = p /\ desc'[c].addr = p /\ desc'[c].next = None BY <2>4
    <3>6. Owned(p)' BY <2>3, <2>5, <3>1, <3>2, <3>3, <3>4, <3>5, Zenon DEF Owned
    <3> QED BY Zenon, <3>1, <3>2, <3>6
  <2>9. ASSUME NEW q \in Owners
        PROVE Owned(q)' /\ \A x : InChain(x, q) => InChain(x, q)'
    <3>1. Owned(q) /\ q \in Proc /\ q # p BY <2>7, Zenon DEF ChainInv
    <3>2. idx'[q] = idx[q] BY Zenon, <2>2, <3>1
    <3>3. Second(q)' = Second(q) BY <2>1, <3>1, <3>2, Zenon DEF Second, Owned
    <3>4. Third(q)' = Third(q) BY <2>1, <3>1, <3>3, Zenon DEF Third, Owned
    <3>5. \A x \in V!Desc \ free : x \in V!Desc \ free' BY Zenon, <2>f
    <3>6. Owned(q)' BY <2>1, <3>1, <3>2, <3>3, <3>4, <3>5, Zenon DEF Owned
    <3> QED BY <3>2, <3>3, <3>4, <3>6, Zenon DEF InChain
  <2>10. \A q \in Owners' : Owned(q)' BY <2>7, <2>8, <2>9, Zenon
  <2>11. ASSUME NEW x \in V!Desc \ free' PROVE \E q \in Owners' : InChain(x, q)'
    <3>1. CASE x \in free
      <4>1. x = a \/ x = b \/ x = c BY Zenon, <2>f, <3>1
      <4>2. InChain(x, p)' BY <2>3, <2>8, <4>1, Zenon DEF InChain
      <4> QED BY <2>7, <4>2, Zenon
    <3>2. CASE x \notin free
      <4>1. PICK q \in Owners : InChain(x, q) BY <3>2, Zenon DEF ChainInv
      <4>2. q \in Owners' BY Zenon, <2>7
      <4> QED BY <2>9, <4>1, <4>2, Zenon
    <3> QED BY Zenon, <3>1, <3>2
  <2>12. IsFiniteSet(Owners) /\ Cardinality(Owners) \in Nat BY Zenon, <2>7, <1>DiskFacts, <1>SizeSubset, <1>SizeNat
  <2>13. Cardinality(Owners') = Cardinality(Owners) + 1 BY <2>7, <2>12, <1>SizeAdd, Zenon
  <2>14. Cardinality(free) \in Nat /\ Cardinality(free') = Cardinality(free) - 3
    <3>1. IsFiniteSet(free) /\ Cardinality(free) \in Nat BY Zenon, <2>t, <1>FreeFinite
    <3> QED BY Zenon, <2>f, <3>1, <1>RemoveThree
  <2>15. Cardinality(free) = NUM - 3 * Cardinality(Owners) BY Zenon DEF ChainInv
  <2>16. Cardinality(free') = NUM - 3 * Cardinality(Owners') BY <2>12, <2>13, <2>14, <2>15, <1>DiskFacts
  <2>17. ChainInv' BY <2>10, <2>11, <2>16, Zenon DEF ChainInv
  <2>18. Cardinality(free') < Cardinality(free) BY <2>14
  <2> QED BY Zenon, <2>7, <2>17, <2>18

\* virtio_disk_rw() has three descriptors, and sleeps.
<1>SubmitStep. ASSUME DiskInv, NEW p \in Proc, V!submit(p) PROVE DiskInv'
  <2> USE <1>SubmitStep
  <2>1. DiskTypes /\ ChainInv /\ RingInv /\ PlaceInv /\ CallInv /\ V!CompletionNoticed BY Zenon DEF DiskInv
  <2>2. PICK a \in V!Desc, b \in V!Desc, c \in V!Desc : Submits(p, a, b, c) BY <2>1, <1>SubmitIs, Zenon
  <2>t. /\ avail \in [V!Desc -> V!Desc \cup {None}] /\ avail_idx \in 0..(U16 - 1) /\ dev_avail \in 0..(U16 - 1)
        /\ idx \in [Proc -> V!Desc \cup {None}] /\ bdisk \in [Proc -> BOOLEAN] /\ served \in [Proc -> 0..1]
        /\ free \in SUBSET V!Desc /\ vpc \in [Proc -> {"out", "alloc", "nodesc", "asleep", "woken"}]
        /\ desc \in [V!Desc -> [addr : Proc \cup {None}, next : V!Desc \cup {None}]]
        /\ info \in [V!Desc -> [b : Proc \cup {None}, status : {0, 255}]]
    BY Zenon, <2>1 DEF DiskTypes
  <2>3. idx[p] = None
    <3>1. vpc[p] = "alloc" BY <2>2, Zenon DEF Submits
    <3> QED BY Zenon, <2>1, <3>1 DEF CallInv
  <2>4. ChainInv' /\ Owners' = Owners \cup {p} /\ Cardinality(free') < Cardinality(free)
    BY <2>1, <2>2, <2>3, <1>SubmitChains, Zenon
  <2>5. \A x \in V!Desc : \A k : Pending(x, k) => x \notin free BY <1>PendingHead, Zenon
  <2>6. a \in free BY <2>2, Zenon DEF Submits
  <2>7. \A s \in V!Desc : avail[s] # a
    <3>1. ASSUME NEW s \in V!Desc, avail[s] = a PROVE FALSE
      <4>1. a # None BY Zenon, <1>DiskFacts
      <4>2. Pending(a, 0) BY <2>1, <3>1, <4>1, Zenon DEF PlaceInv
      <4> QED BY <2>5, <2>6, <4>2, Zenon
    <3> QED BY Zenon, <3>1
  <2>8. /\ avail' = [avail EXCEPT ![avail_idx % NUM] = a] /\ avail_idx' = V!Inc(avail_idx)
        /\ UNCHANGED <<used_idx, vintr, used, dev_used, dev_avail, busy, raise, virq>>
    BY <2>2, Zenon DEF Submits
  <2>9. Ring(avail', dev_avail, V!Inc(avail_idx)) /\ avail_idx % NUM \in V!Desc
    <3>1. Ring(avail, dev_avail, avail_idx) BY <2>1, Zenon DEF RingInv
    <3> QED BY <2>7, <2>8, <2>t, <3>1, <1>RingPut, Zenon
  <2>10. RingInv' BY <2>1, <2>8, <2>9, Zenon DEF RingInv
  <2>11. /\ idx' = [idx EXCEPT ![p] = a] /\ bdisk' = [bdisk EXCEPT ![p] = TRUE]
         /\ vpc' = [vpc EXCEPT ![p] = "asleep"] /\ served' = [served EXCEPT ![p] = 0]
         /\ info' = [info EXCEPT ![a] = [b |-> p, status |-> 255]] /\ free' = free \ {a, b, c}
         /\ desc' = [desc EXCEPT ![a] = [addr |-> p, next |-> b], ![b] = [addr |-> p, next |-> c],
                                 ![c] = [addr |-> p, next |-> None]]
    BY <2>2, Zenon DEF Submits
  <2>12. DiskTypes'
    <3>1. avail' \in [V!Desc -> V!Desc \cup {None}] BY <2>8, <2>t, Zenon
    <3>2. avail_idx' \in 0..(U16 - 1) BY Zenon, <2>8, <2>t, <1>NextIndex
    <3>3. /\ idx' \in [Proc -> V!Desc \cup {None}] /\ bdisk' \in [Proc -> BOOLEAN] /\ served' \in [Proc -> 0..1]
          /\ free' \in SUBSET V!Desc /\ vpc' \in [Proc -> {"out", "alloc", "nodesc", "asleep", "woken"}]
      BY <2>11, <2>t
    <3>4. desc' \in [V!Desc -> [addr : Proc \cup {None}, next : V!Desc \cup {None}]] BY Zenon, <2>11, <2>t
    <3>5. info' \in [V!Desc -> [b : Proc \cup {None}, status : {0, 255}]] BY <2>11, <2>t
    <3> QED BY Zenon, <2>1, <2>8, <3>1, <3>2, <3>3, <3>4, <3>5 DEF DiskTypes
  <2>13. PlaceInv'
    <3>1. ASSUME NEW x \in V!Desc, NEW k, Pending(x, k) PROVE PendingNext(x, k)
      <4>1. info[x].b \in Proc /\ idx[info[x].b] = x /\ bdisk[info[x].b] /\ served[info[x].b] = k
        BY <3>1, Zenon DEF Pending
      <4>2. x # a BY <2>5, <2>6, <3>1, Zenon
      <4>3. info[x].b # p BY Zenon, <2>3, <4>1, <1>DiskFacts
      <4>4. info'[x] = info[x] BY <2>11, <2>t, <4>2
      <4>5. idx'[info[x].b] = x /\ bdisk'[info[x].b] = bdisk[info[x].b] /\ served'[info[x].b] = k
        BY <2>11, <2>t, <4>1, <4>3, Zenon
      <4> QED BY <4>1, <4>4, <4>5, Zenon DEF PendingNext
    <3>2. PendingNext(a, 0)
      <4>1. info'[a].b = p BY <2>11, <2>t
      <4>2. idx'[p] = a /\ bdisk'[p] = TRUE /\ served'[p] = 0 BY <2>11, <2>t
      <4> QED BY <4>1, <4>2, Zenon DEF PendingNext
    <3>3. ASSUME NEW s \in V!Desc, avail'[s] # None PROVE PendingNext(avail'[s], 0) /\ avail'[s] \notin busy'
      <4>1. CASE s = avail_idx % NUM
        <5>1. avail'[s] = a BY Zenon, <2>8, <2>t, <4>1
        <5>2. a \notin busy BY <2>1, <2>5, <2>6, Zenon DEF PlaceInv
        <5> QED BY <2>8, <3>2, <5>1, <5>2
      <4>2. CASE s # avail_idx % NUM
        <5>1. avail'[s] = avail[s] /\ avail[s] \in V!Desc BY <2>8, <2>t, <3>3, <4>2
        <5>2. Pending(avail[s], 0) /\ avail[s] \notin busy BY <2>1, <3>3, <5>1, Zenon DEF PlaceInv
        <5> QED BY <2>8, <3>1, <5>1, <5>2
      <4> QED BY Zenon, <4>1, <4>2
    <3>4. \A x \in busy' : PendingNext(x, 0)
      <4>1. busy \in SUBSET V!Desc BY Zenon, <2>1 DEF DiskTypes
      <4> QED BY Zenon, <2>1, <2>8, <3>1, <4>1 DEF PlaceInv
    <3>5. ASSUME NEW s \in V!Desc, used'[s] # None PROVE PendingNext(used'[s], 1) /\ info'[used'[s]].status = 0
      <4>1. used'[s] = used[s] /\ used[s] \in V!Desc BY <2>1, <2>8, <3>5 DEF DiskTypes
      <4>2. Pending(used[s], 1) /\ info[used[s]].status = 0 BY <2>1, <3>5, <4>1, Zenon DEF PlaceInv
      <4>3. used[s] # a BY <2>5, <2>6, <4>1, <4>2, Zenon
      <4>4. info'[used[s]] = info[used[s]] BY <2>11, <2>t, <4>1, <4>3
      <4> QED BY Zenon, <3>1, <4>1, <4>2, <4>4
    <3> QED BY <3>3, <3>4, <3>5, <1>PlaceNext, Zenon
  <2>14. CallInv'
    <3> SUFFICES ASSUME NEW q \in Proc
                 PROVE /\ idx'[q] # None <=> vpc'[q] \in {"asleep", "woken"}
                       /\ vpc'[q] = "asleep" => bdisk'[q]
                       /\ vpc'[q] = "nodesc" => Cardinality(free') < 3
                       /\ idx'[q] # None /\ ~bdisk'[q] => served'[q] = 1
      BY Zenon DEF CallInv
    <3>1. CASE q = p
      <4>1. idx'[q] = a /\ bdisk'[q] = TRUE /\ vpc'[q] = "asleep" BY <2>11, <2>t, <3>1
      <4> QED BY Zenon, <4>1, <1>DiskFacts
    <3>2. CASE q # p
      <4>1. idx'[q] = idx[q] /\ bdisk'[q] = bdisk[q] /\ vpc'[q] = vpc[q] /\ served'[q] = served[q] BY <2>11, <2>t, <3>2
      <4>2. Cardinality(free) < 3 => Cardinality(free') < 3
        <5>1. Cardinality(free) \in Nat BY Zenon, <2>t, <1>FreeFinite
        <5>2. Cardinality(free') \in Nat BY Zenon, <2>12, <1>FreeFinite DEF DiskTypes
        <5> QED BY <2>4, <5>1, <5>2
      <4> QED BY Zenon, <2>1, <4>1, <4>2 DEF CallInv
    <3> QED BY Zenon, <3>1, <3>2
  <2>15. V!CompletionNoticed' BY <2>1, <2>8, Zenon DEF V!CompletionNoticed
  <2> QED BY <2>4, <2>10, <2>12, <2>13, <2>14, <2>15, Zenon DEF DiskInv

\* Three descriptors more.
<1>AddThree. ASSUME NEW S, IsFiniteSet(S), NEW a, NEW b, NEW c, a \notin S, b \notin S \cup {a}, c \notin S \cup {a, b}
             PROVE Cardinality(S \cup {a, b, c}) = Cardinality(S) + 3
  <2> USE <1>AddThree
  <2>1. IsFiniteSet(S \cup {a}) /\ Cardinality(S \cup {a}) = Cardinality(S) + 1 BY <1>SizeAdd, Zenon
  <2>2. /\ IsFiniteSet((S \cup {a}) \cup {b}) /\ Cardinality((S \cup {a}) \cup {b}) = Cardinality(S \cup {a}) + 1
    BY <2>1, <1>SizeAdd, Zenon
  <2>3. (S \cup {a}) \cup {b} = S \cup {a, b} /\ (S \cup {a, b}) \cup {c} = S \cup {a, b, c} BY Zenon
  <2>4. IsFiniteSet(S \cup {a, b}) /\ Cardinality(S \cup {a, b}) = Cardinality(S \cup {a}) + 1 BY <2>2, <2>3, Zenon
  <2>5. Cardinality((S \cup {a, b}) \cup {c}) = Cardinality(S \cup {a, b}) + 1 BY <2>4, <1>SizeAdd, Zenon
  <2>6. Cardinality(S \cup {a, b, c}) = Cardinality(S \cup {a, b}) + 1 BY <2>3, <2>5, Zenon
  <2>7. Cardinality(S) \in Nat BY <1>SizeNat, Zenon
  <2> QED BY <2>1, <2>4, <2>6, <2>7

\* finish(p) frees the three descriptors of the request.
<1>FinishIs. ASSUME DiskInv, NEW p \in Proc, V!finish(p)
             PROVE idx[p] # None /\ p \in Owners /\ Owned(p) /\ Frees(p) /\ ~bdisk[p] /\ vpc[p] = "woken"
  <2> USE <1>FinishIs
  <2>1. vpc[p] = "woken" /\ ~bdisk[p] BY Zenon DEF V!finish
  <2>2. idx[p] # None BY Zenon, <2>1 DEF DiskInv, CallInv
  <2>3. p \in Owners /\ Owned(p) BY <2>2, Zenon DEF DiskInv, ChainInv, Owners
  <2> DEFINE K == {idx[p], Second(p), Third(p)}
  <2>4. V!Chain(idx[p]) = K BY <2>3, <1>ChainIs, Zenon DEF DiskInv
  <2>5. K \cap free = {} BY <2>3, Zenon DEF Owned
  <2> HIDE DEF K
  <2>6. /\ info' = [info EXCEPT ![idx[p]].b = None] /\ free' = free \cup K
        /\ desc' = [d \in V!Desc |-> IF d \in K THEN V!Unused ELSE desc[d]]
        /\ vpc' = [V!Wake("nodesc", Proc, "alloc") EXCEPT ![p] = "out"]
        /\ idx' = [idx EXCEPT ![p] = None]
        /\ UNCHANGED <<avail, avail_idx, used_idx, bdisk, vintr, used, dev_used, dev_avail, busy, raise, virq, served>>
    BY <2>4, <2>5, Zenon DEF V!finish, V!device
  <2>7. Frees(p) BY <2>6, Zenon DEF Frees, K
  <2> QED BY Zenon, <2>1, <2>2, <2>3, <2>7

\* Two requests have no descriptor in common.
<1>ChainsApart. ASSUME NEW p \in Proc, NEW q \in Proc, p # q, Owned(p), Owned(q), NEW x, InChain(x, q)
                PROVE x \notin {idx[p], Second(p), Third(p)}
  <2> USE <1>ChainsApart
  <2>1. desc[x].addr = q BY Zenon DEF InChain, Owned
  <2>2. \A y \in {idx[p], Second(p), Third(p)} : desc[y].addr = p BY Zenon DEF Owned
  <2> QED BY <2>1, <2>2, Zenon

\* The chains after it.
<1>FreeChains. ASSUME DiskTypes, ChainInv, NEW p \in Proc, p \in Owners, Owned(p), Frees(p) PROVE ChainInv'
  <2> USE <1>FreeChains
  <2>t. /\ free \in SUBSET V!Desc /\ idx \in [Proc -> V!Desc \cup {None}]
        /\ desc \in [V!Desc -> [addr : Proc \cup {None}, next : V!Desc \cup {None}]]
        /\ info \in [V!Desc -> [b : Proc \cup {None}, status : {0, 255}]]
    BY Zenon DEF DiskTypes
  <2> DEFINE K == {idx[p], Second(p), Third(p)}
  <2>k. K \subseteq V!Desc /\ idx[p] \in K BY Zenon DEF Owned
  <2>1. /\ info' = [info EXCEPT ![idx[p]].b = None] /\ free' = free \cup K
        /\ desc' = [d \in V!Desc |-> IF d \in K THEN V!Unused ELSE desc[d]]
        /\ idx' = [idx EXCEPT ![p] = None]
    BY Zenon DEF Frees
  <2>a. \A q \in Proc : q # p /\ Owned(q) => \A x : InChain(x, q) => x \notin K BY <1>ChainsApart, Zenon
  <2>14. Cardinality(free) \in Nat /\ Cardinality(free') = Cardinality(free) + 3
    <3>1. IsFiniteSet(free) /\ Cardinality(free) \in Nat BY Zenon, <2>t, <1>FreeFinite
    <3>2. idx[p] \notin free /\ Second(p) \notin free \cup {idx[p]} /\ Third(p) \notin free \cup {idx[p], Second(p)}
      BY Zenon DEF Owned
    <3> QED BY <2>1, <3>1, <3>2, <1>AddThree, Zenon
  <2> HIDE DEF K
  <2>2. \A x \in V!Desc \ K : desc'[x] = desc[x] /\ info'[x] = info[x] BY <2>1, <2>k, <2>t
  <2>3. \A q \in Proc : idx'[q] = IF q = p THEN None ELSE idx[q] BY <2>1, <2>t
  <2>7. Owners' = Owners \ {p} /\ Owners \in SUBSET Proc
    <3>1. \A q \in Proc : idx'[q] # None <=> (idx[q] # None /\ q # p) BY Zenon, <2>3
    <3> QED BY Zenon, <3>1 DEF Owners
  <2>9. ASSUME NEW q \in Owners, q # p
        PROVE Owned(q)' /\ \A x : InChain(x, q) => InChain(x, q)'
    <3>1. Owned(q) /\ q \in Proc BY <2>7, Zenon DEF ChainInv
    <3>2. idx'[q] = idx[q] BY Zenon, <2>3, <2>9, <3>1
    <3>c. idx[q] \notin K /\ Second(q) \notin K /\ Third(q) \notin K BY <2>9, <2>a, <3>1, Zenon DEF InChain
    <3>d. idx[q] \in V!Desc \ K /\ Second(q) \in V!Desc \ K /\ Third(q) \in V!Desc \ K BY <3>1, <3>c, Zenon DEF Owned
    <3>3. Second(q)' = Second(q) BY <2>2, <3>2, <3>d, Zenon DEF Second
    <3>4. Third(q)' = Third(q) BY <2>2, <3>3, <3>d, Zenon DEF Third
    <3>5. idx[q] \notin free' /\ Second(q) \notin free' /\ Third(q) \notin free'
      BY <2>1, <3>1, <3>c, Zenon DEF Owned
    <3>6. Owned(q)' BY <2>2, <3>1, <3>2, <3>3, <3>4, <3>5, <3>d, Zenon DEF Owned
    <3> QED BY <3>2, <3>3, <3>4, <3>6, Zenon DEF InChain
  <2>10. \A q \in Owners' : Owned(q)' BY Zenon, <2>7, <2>9
  <2>11. ASSUME NEW x \in V!Desc \ free' PROVE \E q \in Owners' : InChain(x, q)'
    <3>1. x \notin free /\ x \notin K BY Zenon, <2>1
    <3>2. PICK q \in Owners : InChain(x, q) BY <3>1, Zenon DEF ChainInv
    <3>3. q # p BY <3>1, <3>2, Zenon DEF InChain, K
    <3>4. q \in Owners' BY Zenon, <2>7, <3>3
    <3> QED BY <2>9, <3>2, <3>3, <3>4, Zenon
  <2>12. IsFiniteSet(Owners) /\ Cardinality(Owners) \in Nat BY Zenon, <2>7, <1>DiskFacts, <1>SizeSubset, <1>SizeNat
  <2>13. Cardinality(Owners') = Cardinality(Owners) - 1 BY <2>7, <2>12, <1>SizeRemove, Zenon
  <2>15. Cardinality(free) = NUM - 3 * Cardinality(Owners) BY Zenon DEF ChainInv
  <2>16. Cardinality(free') = NUM - 3 * Cardinality(Owners') BY <2>12, <2>13, <2>14, <2>15, <1>DiskFacts
  <2> QED BY <2>10, <2>11, <2>16, Zenon DEF ChainInv

\* virtio_disk_rw() returns.
<1>ReturnStep. ASSUME DiskInv, NEW p \in Proc, V!finish(p) PROVE DiskInv'
  <2> USE <1>ReturnStep
  <2>1. DiskTypes /\ ChainInv /\ RingInv /\ PlaceInv /\ CallInv /\ V!CompletionNoticed BY Zenon DEF DiskInv
  <2>2. idx[p] # None /\ p \in Owners /\ Owned(p) /\ Frees(p) /\ ~bdisk[p] BY <1>FinishIs, Zenon
  <2>3. ChainInv' BY <2>1, <2>2, <1>FreeChains, Zenon
  <2> DEFINE K == {idx[p], Second(p), Third(p)}
  <2>k. K \subseteq V!Desc /\ idx[p] \in V!Desc BY <2>2, Zenon DEF Owned
  <2>4. /\ info' = [info EXCEPT ![idx[p]].b = None] /\ free' = free \cup K
        /\ desc' = [d \in V!Desc |-> IF d \in K THEN V!Unused ELSE desc[d]]
        /\ vpc' = [V!Wake("nodesc", Proc, "alloc") EXCEPT ![p] = "out"]
        /\ idx' = [idx EXCEPT ![p] = None]
        /\ UNCHANGED <<avail, avail_idx, used_idx, bdisk, vintr, used, dev_used, dev_avail, busy, raise, virq, served>>
    BY <2>2, Zenon DEF Frees
  <2> HIDE DEF K
  <2>t. /\ idx \in [Proc -> V!Desc \cup {None}]
        /\ free \in SUBSET V!Desc /\ vpc \in [Proc -> {"out", "alloc", "nodesc", "asleep", "woken"}]
        /\ desc \in [V!Desc -> [addr : Proc \cup {None}, next : V!Desc \cup {None}]]
        /\ info \in [V!Desc -> [b : Proc \cup {None}, status : {0, 255}]]
    BY Zenon, <2>1 DEF DiskTypes
  <2>5. \A q \in Proc : vpc'[q] = IF q = p THEN "out" ELSE IF vpc[q] = "nodesc" THEN "alloc" ELSE vpc[q]
    BY Zenon, <2>4 DEF V!Wake
  <2>6. \A q \in Proc : idx'[q] = IF q = p THEN None ELSE idx[q] BY <2>4, <2>t
  <2>7. \A x \in V!Desc : info'[x].status = info[x].status /\ (x # idx[p] => info'[x] = info[x]) BY <2>4, <2>k, <2>t
  <2>8. DiskTypes'
    <3>1. free' \in SUBSET V!Desc BY Zenon, <2>4, <2>k, <2>t
    <3>2. desc' \in [V!Desc -> [addr : Proc \cup {None}, next : V!Desc \cup {None}]] BY <2>4, <2>t DEF V!Unused
    <3>3. info' \in [V!Desc -> [b : Proc \cup {None}, status : {0, 255}]] BY <2>4, <2>k, <2>t
    <3>4. idx' \in [Proc -> V!Desc \cup {None}] BY Zenon, <2>4, <2>t
    <3>5. vpc' \in [Proc -> {"out", "alloc", "nodesc", "asleep", "woken"}]
      <4>1. vpc' = [q \in Proc |-> vpc'[q]] BY <2>4, Zenon DEF V!Wake
      <4> QED BY <2>5, <2>t, <4>1
    <3> QED BY Zenon, <2>1, <2>4, <3>1, <3>2, <3>3, <3>4, <3>5 DEF DiskTypes
  <2>9. RingInv' BY <2>1, <2>4, Zenon DEF RingInv
  <2>10. PlaceInv'
    <3>1. ASSUME NEW x \in V!Desc, NEW k, Pending(x, k) PROVE PendingNext(x, k)
      <4>1. info[x].b \in Proc /\ idx[info[x].b] = x /\ bdisk[info[x].b] /\ served[info[x].b] = k
        BY <3>1, Zenon DEF Pending
      <4>2. info[x].b # p BY Zenon, <2>2, <4>1
      <4>3. x # idx[p] BY <2>2, <4>2, Zenon DEF Owned
      <4>4. info'[x] = info[x] BY Zenon, <2>7, <4>3
      <4>5. idx'[info[x].b] = x BY Zenon, <2>6, <4>1, <4>2
      <4> QED BY <2>4, <4>1, <4>4, <4>5, Zenon DEF PendingNext
    <3>2. ASSUME NEW s \in V!Desc, avail'[s] # None PROVE PendingNext(avail'[s], 0) /\ avail'[s] \notin busy'
      <4>1. avail'[s] = avail[s] /\ avail[s] \in V!Desc BY Zenon, <2>1, <2>4, <3>2 DEF DiskTypes
      <4>2. Pending(avail[s], 0) /\ avail[s] \notin busy BY <2>1, <3>2, <4>1, Zenon DEF PlaceInv
      <4> QED BY Zenon, <2>4, <3>1, <4>1, <4>2
    <3>3. \A x \in busy' : PendingNext(x, 0)
      <4>1. busy \in SUBSET V!Desc BY Zenon, <2>1 DEF DiskTypes
      <4> QED BY Zenon, <2>1, <2>4, <3>1, <4>1 DEF PlaceInv
    <3>4. ASSUME NEW s \in V!Desc, used'[s] # None PROVE PendingNext(used'[s], 1) /\ info'[used'[s]].status = 0
      <4>1. used'[s] = used[s] /\ used[s] \in V!Desc BY <2>1, <2>4, <3>4 DEF DiskTypes
      <4>2. Pending(used[s], 1) /\ info[used[s]].status = 0 BY <2>1, <3>4, <4>1, Zenon DEF PlaceInv
      <4> QED BY Zenon, <2>7, <3>1, <4>1, <4>2
    <3> QED BY <3>2, <3>3, <3>4, <1>PlaceNext, Zenon
  <2>11. CallInv'
    <3> SUFFICES ASSUME NEW q \in Proc
                 PROVE /\ idx'[q] # None <=> vpc'[q] \in {"asleep", "woken"}
                       /\ vpc'[q] = "asleep" => bdisk[q]
                       /\ vpc'[q] = "nodesc" => Cardinality(free') < 3
                       /\ idx'[q] # None /\ ~bdisk[q] => served[q] = 1
      BY <2>4, Zenon DEF CallInv
    <3> QED BY Zenon, <2>1, <2>5, <2>6 DEF CallInv
  <2>12. V!CompletionNoticed' BY <2>1, <2>4, Zenon DEF V!CompletionNoticed
  <2> QED BY <2>3, <2>8, <2>9, <2>10, <2>11, <2>12, Zenon DEF DiskInv

\* virtio_disk_init() leaves every descriptor free.
<1>DiskInit. ASSUME V!Init PROVE DiskInv
  <2> USE <1>DiskInit
  <2> USE DEF V!Init
  <2>0. NUM \in Nat /\ NUM >= 3 /\ U16 \in Nat \ {0} /\ None \notin V!Desc /\ IsFiniteSet(Proc) BY Zenon, <1>DiskFacts
  <2>1. DiskTypes
    <3>1. desc \in [V!Desc -> [addr : Proc \cup {None}, next : V!Desc \cup {None}]] BY Zenon DEF V!Unused
    <3>2. info \in [V!Desc -> [b : Proc \cup {None}, status : {0, 255}]] BY Zenon
    <3>3. avail \in [V!Desc -> V!Desc \cup {None}] /\ used \in [V!Desc -> V!Desc \cup {None}] BY Zenon
    <3>4. 0 \in 0..(U16 - 1) BY <2>0
    <3>5. bdisk \in [Proc -> BOOLEAN] /\ idx \in [Proc -> V!Desc \cup {None}] BY Zenon
    <3>6. served \in [Proc -> 0..1] /\ vpc \in [Proc -> {"out", "alloc", "nodesc", "asleep", "woken"}] OBVIOUS
    <3> QED BY <3>1, <3>2, <3>3, <3>4, <3>5, <3>6, Zenon DEF DiskTypes
  <2>2. ChainInv
    <3>1. Owners = {} BY Zenon DEF Owners
    <3>2. Cardinality(Owners) = 0 BY <3>1, <1>SizeEmpty, Zenon
    <3>3. Cardinality(V!Desc) = NUM
      <4>1. Cardinality(0..(NUM - 1)) = NUM BY <2>0, <1>SizeInterval
      <4> QED BY Zenon, <4>1 DEF V!Desc
    <3>4. Cardinality(free) = NUM - 3 * Cardinality(Owners) BY <2>0, <3>2, <3>3
    <3> QED BY <3>1, <3>4, Zenon DEF ChainInv
  <2>3. RingInv
    <3>1. 0 % NUM = 0 BY <2>0
    <3>2. Gap(0, 0, 0, U16) /\ Gap(0 % NUM, 0 % NUM, 0, NUM) BY <2>0, <3>1 DEF Gap
    <3>3. \A s \in V!Desc : ~Window(s, 0 % NUM, 0) BY <2>0, <3>1 DEF Window, V!Desc
    <3>4. 0 \in 0..NUM BY <2>0
    <3>5. \A s \in V!Desc : avail[s] = None BY Zenon
    <3>6. Ring(avail, 0, 0) BY <3>2, <3>3, <3>4, <3>5, Zenon DEF Ring
    <3> QED BY Zenon, <3>6 DEF RingInv
  <2>4. PlaceInv BY Zenon DEF PlaceInv
  <2>5. CallInv BY Zenon DEF CallInv
  <2>6. V!CompletionNoticed BY Zenon DEF V!CompletionNoticed
  <2> QED BY Zenon, <2>1, <2>2, <2>3, <2>4, <2>5, <2>6 DEF DiskInv

\* The other devices do not touch the disk.
<1>DiskStutter. ASSUME DiskInv, UNCHANGED diskVars PROVE DiskInv'
  <2> USE <1>DiskStutter
  <2>1. UNCHANGED <<free, desc, info, avail, avail_idx, used, dev_used, used_idx, bdisk, idx, dev_avail, busy, served,
                    vpc, vintr, raise, virq>>
    BY Zenon DEF diskVars
  <2>2. /\ vpc \in [Proc -> {"out", "alloc", "nodesc", "asleep", "woken"}]
        /\ vintr \in BOOLEAN /\ raise \in BOOLEAN /\ virq \in BOOLEAN /\ V!CompletionNoticed
    BY Zenon DEF DiskInv, DiskTypes
  <2> QED BY Zenon, <2>1, <2>2, <1>DiskSame DEF V!CompletionNoticed

\* Every step of the disk driver and of the device.
<1>DiskNext. ASSUME DiskInv, V!Next PROVE DiskInv'
  BY <1>DiskNext, <1>CallStep, <1>SubmitStep, <1>ReturnStep, <1>FlagStep, <1>UsedStep, <1>TakeStep, <1>FinishStep, Zenon
  DEF V!Next, V!Waiting, V!Intr, V!Device

\* What the invariant of the disk says about the descriptors.
<1>DiskOwned. ASSUME DiskInv PROVE V!ServedOnce /\ V!DescriptorsOwned
  <2> USE <1>DiskOwned
  <2>1. DiskTypes /\ ChainInv /\ CallInv BY Zenon DEF DiskInv
  <2>2. V!ServedOnce
    <3>1. ASSUME NEW p \in Proc PROVE served[p] <= 1 /\ (vpc[p] = "woken" /\ ~bdisk[p] => served[p] = 1)
      <4>1. served[p] \in 0..1 BY Zenon, <2>1 DEF DiskTypes
      <4>2. vpc[p] = "woken" => idx[p] # None BY Zenon, <2>1 DEF CallInv
      <4>3. idx[p] # None /\ ~bdisk[p] => served[p] = 1 BY Zenon, <2>1 DEF CallInv
      <4> QED BY <4>1, <4>2, <4>3
    <3> QED BY Zenon, <3>1 DEF V!ServedOnce
  <2>3. V!TypeOK BY <2>1 DEF DiskTypes, V!TypeOK
  <2>4. free = V!Desc \ UNION {V!Chain(idx[p]) : p \in Owners}
    <3>1. \A p \in Owners : V!Chain(idx[p]) = {idx[p], Second(p), Third(p)} /\ Owned(p)
      BY <2>1, <1>ChainIs, Zenon DEF ChainInv, Owners
    <3>2. free \subseteq V!Desc BY Zenon, <2>1 DEF DiskTypes
    <3>3. ASSUME NEW x \in free PROVE x \notin UNION {V!Chain(idx[p]) : p \in Owners}
      <4> SUFFICES ASSUME NEW p \in Owners, x \in V!Chain(idx[p]) PROVE FALSE BY Zenon
      <4>1. x = idx[p] \/ x = Second(p) \/ x = Third(p) BY <3>1, Zenon
      <4> QED BY <3>1, <4>1, Zenon DEF Owned
    <3>4. ASSUME NEW x \in V!Desc, x \notin free PROVE x \in UNION {V!Chain(idx[p]) : p \in Owners}
      <4>1. PICK p \in Owners : InChain(x, p) BY <2>1, <3>4, Zenon DEF ChainInv
      <4>2. x \in V!Chain(idx[p]) BY <3>1, <4>1, Zenon DEF InChain
      <4> QED BY <4>2, Zenon
    <3> QED BY <3>2, <3>3, <3>4, Zenon
  <2>5. Cardinality(free) = NUM - 3 * Cardinality(Owners) BY Zenon, <2>1 DEF ChainInv
  <2>6. \A p \in Proc : vpc[p] # "panic" BY Zenon, <2>1 DEF DiskTypes
  <2> QED BY <2>2, <2>3, <2>4, <2>5, <2>6, <1>DiskCard, Zenon DEF V!DescriptorsOwned, Owners

\* What it says about sleeping processes.
<1>DiskWakes. ASSUME DiskInv PROVE V!NoLostWakeup /\ V!CompletionNoticed
  <2> USE <1>DiskWakes
  <2>1. \A p \in Proc : (vpc[p] = "nodesc" => Cardinality(free) < 3) /\ (vpc[p] = "asleep" => bdisk[p])
    BY Zenon DEF DiskInv, CallInv
  <2>2. V!NoLostWakeup BY <2>1, <1>DiskCard, Zenon DEF V!NoLostWakeup
  <2> QED BY Zenon, <2>2 DEF DiskInv

<1> QED BY <1>DiskInit, <1>DiskNext, <1>DiskStutter, <1>DiskOwned, <1>DiskWakes, Zenon
===============================================================================
