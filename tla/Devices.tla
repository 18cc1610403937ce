------------------------------- MODULE Devices --------------------------------
(***************************************************************************)
(* The drivers of the disk, the keyboard and the serial line, and the      *)
(* clock, side by side: each has its lock and its interrupt, and no state  *)
(* in common with the others.                                              *)
(***************************************************************************)
EXTENDS Naturals, FiniteSets

CONSTANTS Proc, Reader, CPU, None, NUM, U16, Plain, INPUT_BUF_SIZE, UINT, MaxLen,
          Killable, MaxSync, TICKS, MaxPause

\* uint16 and uint wrap around at a multiple of the sizes of the rings, a pause is
\* shorter than the period of the clock, and None stands for no process.
ASSUME DeviceAssumption ==
  /\ None \notin Proc \cup Reader \cup 0..(NUM - 1) /\ IsFiniteSet(Proc)
  /\ NUM \in Nat /\ NUM >= 3 /\ \E k \in 2..U16 : U16 = k * NUM /\ U16 \in Nat
  /\ INPUT_BUF_SIZE \in Nat \ {0} /\ \E k \in 2..UINT : UINT = k * INPUT_BUF_SIZE /\ UINT \in Nat
  /\ MaxLen \in Nat /\ MaxSync \in Nat
  /\ TICKS \in Nat \ {0} /\ MaxPause \in Nat /\ MaxPause < TICKS

VARIABLES
  free, desc, info, avail, avail_idx, used, dev_used, used_idx, bdisk, vintr,
  vpc, idx, dev_avail, busy, raise, virq, served,
  buf, r, w, e, lock, cpc, n, target, killed,
  tx_busy, upc, left, sync, printed, uintr, fifo, uirq,
  ticks, tickslock, tpc, ticks0, tn, tkilled, elapsed

V == INSTANCE Virtio WITH intr <- vintr, pc <- vpc, irq <- virq
C == INSTANCE Console WITH Proc <- Reader, NoProc <- None, pc <- cpc
U == INSTANCE Uart WITH Proc <- Reader, pc <- upc, intr <- uintr, irq <- uirq
T == INSTANCE Timer WITH Proc <- Reader, pc <- tpc, n <- tn, killed <- tkilled

diskVars == <<free, desc, info, avail, avail_idx, used, dev_used, used_idx,
              bdisk, vintr, vpc, idx, dev_avail, busy, raise, virq, served>>
consVars == <<buf, r, w, e, lock, cpc, n, target, killed>>
uartVars == <<tx_busy, upc, left, sync, printed, uintr, fifo, uirq>>
timeVars == <<ticks, tickslock, tpc, ticks0, tn, tkilled, elapsed>>
devVars  == <<diskVars, consVars, uartVars, timeVars>>

DevInit == V!Init /\ C!Init /\ U!Init /\ T!Init

DevNext == \/ V!Next /\ UNCHANGED <<consVars, uartVars, timeVars>>
           \/ C!Next /\ UNCHANGED <<diskVars, uartVars, timeVars>>
           \/ U!Next /\ UNCHANGED <<diskVars, consVars, timeVars>>
           \/ T!Next /\ UNCHANGED <<diskVars, consVars, uartVars>>

DevSpec == DevInit /\ [][DevNext]_devVars

-------------------------------------------------------------------------------
\* virtio_disk_rw() returns after the device has served its own request, once;
\* each descriptor is free or belongs to one request, and none is lost.
ServedOnce == V!ServedOnce /\ V!DescriptorsOwned

\* Nobody sleeps in pause() after its time, in virtio_disk_rw() for descriptors that
\* are free or a request that is done, in consoleread() while a finished line waits,
\* or in uartwrite() while tx_busy is clear; and a finished request or a set tx_busy
\* has an interrupt on its way.
NoLostWakeup ==
  /\ T!NoLostWakeup
  /\ V!NoLostWakeup /\ V!CompletionNoticed
  /\ C!NoLostWakeup
  /\ U!NoLostWakeup /\ U!BusyIsTemporary

\* What consoleread() returns is what was typed, edited as a terminal does, and
\* it takes a ^D from the ring only when it returns no bytes.
LineDiscipline == C!LineDiscipline /\ C!EofIsZeroBytes

\* pause() does not return early, also when ticks wraps.
PauseNotEarly == T!PauseNotEarly
===============================================================================
