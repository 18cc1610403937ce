-------------------------------- MODULE Virtio --------------------------------
(***************************************************************************)
(* The disk driver, kernel/virtio_disk.c, and the device it talks to.      *)
(*                                                                         *)
(* A section of virtio_disk_rw() under disk.vdisk_lock is one step: the    *)
(* device looks at the descriptors only after avail->idx has moved.        *)
(* virtio_disk_intr() is not, because the device adds to the used ring     *)
(* while the loop runs.  Every process has one buffer, whose sleep lock    *)
(* bread() and bwrite() hold, so a process stands for its buffer too.  An  *)
(* entry of a ring that has been read is set to None, where the code keeps *)
(* the old number: to read it again would be an error.                     *)
(***************************************************************************)
EXTENDS Naturals, FiniteSets

CONSTANTS Proc, None,
          NUM,    \* descriptors, and entries of each ring; at least 3
          U16     \* 2^16, a multiple of NUM: ring indices are of type uint16

Desc == 0..(NUM - 1)

VARIABLES
  free,               \* disk.free: the free descriptors
  desc,               \* what each points to, and the next of the chain
  info,               \* disk.info: buffer and status of a request
  avail, avail_idx,   \* the ring the driver writes
  used, dev_used,     \* the ring the device writes; used->idx
  used_idx,           \* how far the driver has looked at it
  bdisk,              \* b->disk of each buffer
  intr,               \* virtio_disk_intr() is running, and has the lock
  pc, idx,            \* of each process: where it is, its first descriptor
  dev_avail, busy,    \* the device: how far it has read, requests taken
  raise, irq,         \* it is to raise an interrupt; one is pending
  served              \* history: how often the device moved each buffer

ring   == <<avail, avail_idx, used, dev_used>>
driver == <<free, desc, info, avail, avail_idx, used_idx, bdisk, intr, pc, idx>>
device == <<used, dev_used, dev_avail, busy, raise, irq, served>>
vars   == <<driver, device>>

Unused == [addr |-> None, next |-> None]

TypeOK ==
  /\ free \in SUBSET Desc
  /\ desc \in [Desc -> [addr : Proc \cup {None}, next : Desc \cup {None}]]
  /\ info \in [Desc -> [b : Proc \cup {None}, status : {0, 255}]]
  /\ avail \in [Desc -> Desc \cup {None}] /\ used \in [Desc -> Desc \cup {None}]
  /\ {avail_idx, dev_used, used_idx, dev_avail} \subseteq 0..(U16 - 1)
  /\ bdisk \in [Proc -> BOOLEAN]
  /\ pc \in [Proc -> {"out", "alloc", "nodesc", "asleep", "woken", "panic"}]
  /\ idx \in [Proc -> Desc \cup {None}]
  /\ busy \in SUBSET Desc
  /\ {intr, raise, irq} \subseteq BOOLEAN
  /\ served \in [Proc -> 0..2]

Init ==
  /\ free = Desc
  /\ desc = [d \in Desc |-> Unused]
  /\ info = [d \in Desc |-> [b |-> None, status |-> 0]]
  /\ avail = [d \in Desc |-> None] /\ avail_idx = 0
  /\ used = avail /\ dev_used = 0 /\ used_idx = 0
  /\ bdisk = [p \in Proc |-> FALSE]
  /\ pc = [p \in Proc |-> "out"]
  /\ idx = [p \in Proc |-> None]
  /\ dev_avail = 0 /\ busy = {}
  /\ intr = FALSE /\ raise = FALSE /\ irq = FALSE
  /\ served = [p \in Proc |-> 0]

\* A definition whose name ends in _bug is a deliberate error in the one that
\* follows it; each property is shown to fail when such an error is made.

Inc(k) == (k + 1) % U16

\* Error: nobody is woken.
Wake_bug(a, S, to) == pc

\* wakeup() of the processes that are asleep at place a.
Wake(a, S, to) == [p \in Proc |-> IF p \in S /\ pc[p] = a THEN to ELSE pc[p]]

-------------------------------------------------------------------------------
(* virtio_disk_rw()                                                        *)

virtio_disk_rw(p) ==
  /\ pc[p] = "out"
  /\ pc' = [pc EXCEPT ![p] = "alloc"]
  /\ UNCHANGED <<free, desc, info, avail, avail_idx, used_idx, bdisk, intr,
                 idx, device>>

Taken(S) == free \ S

\* alloc_desc() three times.
FirstFree(S) == CHOOSE d \in S : \A x \in S : d <= x

\* alloc3_desc() succeeds: the chain of the request, buffer and status byte is
\* made, its head goes to the avail ring, and the process sleeps on b.
submit(p) ==
  /\ pc[p] = "alloc" /\ ~intr /\ Cardinality(free) >= 3
  /\ LET d0 == FirstFree(free)
         d1 == FirstFree(free \ {d0})
         d2 == FirstFree(free \ {d0, d1})
     IN /\ free' = Taken({d0, d1, d2})
        /\ desc' = [desc EXCEPT ![d0] = [addr |-> p, next |-> d1],
                                ![d1] = [addr |-> p, next |-> d2],
                                ![d2] = [addr |-> p, next |-> None]]
        /\ info' = [info EXCEPT ![d0] = [b |-> p, status |-> 255]]
        /\ avail' = [avail EXCEPT ![avail_idx % NUM] = d0]
        /\ idx' = [idx EXCEPT ![p] = d0]
  /\ avail_idx' = Inc(avail_idx)
  /\ bdisk' = [bdisk EXCEPT ![p] = TRUE]
  /\ pc' = [pc EXCEPT ![p] = "asleep"]
  /\ served' = [served EXCEPT ![p] = 0]
  /\ UNCHANGED <<used_idx, intr, used, dev_used, dev_avail, busy, raise, irq>>

\* It fails: each descriptor it had taken is freed again, which wakes those
\* who sleep on &disk.free[0], and the process sleeps there itself.
no_desc(p) ==
  /\ pc[p] = "alloc" /\ ~intr /\ Cardinality(free) < 3
  /\ pc' = [Wake("nodesc", IF free = {} THEN {} ELSE Proc, "alloc")
              EXCEPT ![p] = "nodesc"]
  /\ UNCHANGED <<free, desc, info, avail, avail_idx, used_idx, bdisk, intr,
                 idx, device>>

\* The descriptors free_chain() goes through: d, and the next of each of them.
Linked(S) == \A x \in S : desc[x].next \in S \cup {None}
Chain(d)  == {x \in Desc : ~\E S \in SUBSET (Desc \ {x}) : d \in S /\ Linked(S)}

\* The process finds b->disk cleared, frees the chain and returns; free_desc()
\* panics when a descriptor of it is free already.
finish(p) ==
  /\ pc[p] = "woken" /\ ~intr /\ ~bdisk[p]
  /\ LET chain == Chain(idx[p]) IN
       IF chain \cap free # {}
       THEN /\ pc' = [pc EXCEPT ![p] = "panic"]
            /\ UNCHANGED <<info, free, desc>>
       ELSE /\ info' = [info EXCEPT ![idx[p]].b = None]
            /\ free' = free \cup chain
            /\ desc' = [d \in Desc |-> IF d \in chain THEN Unused ELSE desc[d]]
            /\ pc' = [Wake("nodesc", Proc, "alloc") EXCEPT ![p] = "out"]
  /\ idx' = [idx EXCEPT ![p] = None]
  /\ UNCHANGED <<avail, avail_idx, used_idx, bdisk, intr, device>>

-------------------------------------------------------------------------------
(* virtio_disk_intr(): acknowledge, then go through the used ring.         *)

\* Error: the id is ignored.
FinishedBuf_bug(id) == CHOOSE p \in Proc : bdisk[p]

FinishedBuf(id) == info[id].b

intr_ack ==
  /\ irq /\ ~intr
  /\ irq' = FALSE /\ intr' = TRUE
  /\ UNCHANGED <<free, desc, info, avail, avail_idx, used_idx, bdisk, pc, idx,
                 used, dev_used, dev_avail, busy, raise, served>>

intr_used ==
  /\ intr /\ used_idx # dev_used
  /\ LET id == used[used_idx % NUM]
         b  == FinishedBuf(id)
     IN IF id = None \/ info[id].status # 0 \/ b = None
        THEN /\ pc' = [p \in Proc |-> "panic"]
             /\ UNCHANGED bdisk
        ELSE /\ bdisk' = [bdisk EXCEPT ![b] = FALSE]
             /\ pc' = Wake("asleep", {b}, "woken")
  /\ used' = [used EXCEPT ![used_idx % NUM] = None]
  /\ used_idx' = Inc(used_idx)
  /\ UNCHANGED <<free, desc, info, avail, avail_idx, intr, idx, dev_used,
                 dev_avail, busy, raise, irq, served>>

intr_done ==
  /\ intr /\ used_idx = dev_used
  /\ intr' = FALSE
  /\ UNCHANGED <<free, desc, info, avail, avail_idx, used_idx, bdisk, pc, idx,
                 device>>

-------------------------------------------------------------------------------
(* The device: it takes requests in order, finishes them in any order, and *)
(* raises an interrupt some time after it has moved used->idx.             *)

dev_take ==
  /\ dev_avail # avail_idx
  /\ busy' = busy \cup {avail[dev_avail % NUM]}
  /\ avail' = [avail EXCEPT ![dev_avail % NUM] = None]
  /\ dev_avail' = Inc(dev_avail)
  /\ UNCHANGED <<free, desc, info, avail_idx, used_idx, bdisk, intr, pc, idx,
                 used, dev_used, raise, irq, served>>

dev_finish(d) ==
  /\ d \in busy
  /\ busy' = busy \ {d}
  /\ LET b == desc[desc[d].next].addr IN
       served' = [served EXCEPT ![b] = @ + 1]
  /\ info' = [info EXCEPT ![d].status = 0]
  /\ used' = [used EXCEPT ![dev_used % NUM] = d]
  /\ dev_used' = Inc(dev_used)
  /\ raise' = TRUE
  /\ UNCHANGED <<free, desc, avail, avail_idx, used_idx, bdisk, intr, pc, idx,
                 dev_avail, irq>>

dev_raise ==
  /\ raise
  /\ raise' = FALSE /\ irq' = TRUE
  /\ UNCHANGED <<driver, used, dev_used, dev_avail, busy, served>>

Device == dev_take \/ (\E d \in Desc : dev_finish(d)) \/ dev_raise
Intr   == intr_ack \/ intr_used \/ intr_done
Waiting(p) == submit(p) \/ no_desc(p) \/ finish(p)

Next == \/ \E p \in Proc : virtio_disk_rw(p) \/ Waiting(p)
        \/ Intr \/ Device

Spec == Init /\ [][Next]_vars

-------------------------------------------------------------------------------
\* A process returns from virtio_disk_rw() only after the device has moved its
\* buffer, exactly once, whatever other requests finish in between.
ServedOnce ==
  /\ \A p \in Proc : pc[p] = "woken" /\ ~bdisk[p] => served[p] = 1
  /\ \A p \in Proc : served[p] <= 1

\* Every descriptor is free or belongs to the chain of exactly one request, so
\* the driver neither leaks descriptors nor shares them, and no panic of
\* free_desc() or the interrupt handler is reached.
DescriptorsOwned ==
  LET owners == {p \in Proc : idx[p] # None} IN
    /\ TypeOK
    /\ free = Desc \ UNION {Chain(idx[p]) : p \in owners}
    /\ Cardinality(free) = NUM - 3 * Cardinality(owners)
    /\ \A p \in Proc : pc[p] # "panic"

\* Nobody sleeps on &disk.free[0] while three descriptors are free, and nobody
\* sleeps on its buffer after the device has been done with it.
NoLostWakeup ==
  \A p \in Proc : /\ pc[p] = "nodesc" => Cardinality(free) < 3
                  /\ pc[p] = "asleep" => bdisk[p]

\* No completion is overlooked: while the used ring has an entry that the
\* handler has not seen, the handler is running or an interrupt will start it,
\* also when the device adds the entry after the acknowledgement.
CompletionNoticed == used_idx # dev_used => raise \/ irq \/ intr
===============================================================================
