--------------------------------- MODULE Uart ---------------------------------
(***************************************************************************)
(* Console output, kernel/uart.c: processes in uartwrite(), which waits    *)
(* for interrupts, CPUs in uartputc_sync(), which polls and takes no lock, *)
(* the interrupt handler uartintr() and the transmitter.  What uartwrite() *)
(* does under tx_lock from one sleep() to the next is a step: it writes at *)
(* most one character, because that sets tx_busy.                          *)
(***************************************************************************)
EXTENDS Naturals, FiniteSets

CONSTANTS Proc,    \* processes that call uartwrite()
          CPU,     \* CPUs that call uartputc_sync(), to echo or to print
          MaxLen,  \* bound: characters in one uartwrite()
          MaxSync  \* bound: characters printed with uartputc_sync()

VARIABLES
  tx_busy,
  pc, left,  \* of each process: where it is, characters still to write
  sync,      \* of each CPU: where it is in uartputc_sync()
  printed,   \* characters printed with uartputc_sync()
  intr,      \* uartintr() has acknowledged, and has not looked at LSR yet
  fifo,      \* the transmitter: characters in its FIFO,
  irq        \* interrupt pending

vars == <<tx_busy, pc, left, sync, printed, intr, fifo, irq>>

TypeOK ==
  /\ tx_busy \in BOOLEAN
  /\ pc \in [Proc -> {"out", "ready", "asleep"}]
  /\ left \in [Proc -> 0..MaxLen]
  /\ sync \in [CPU -> {"out", "poll", "put"}]
  /\ printed \in 0..MaxSync
  /\ intr \in BOOLEAN /\ irq \in BOOLEAN
  /\ fifo \in Nat

Init ==
  /\ tx_busy = FALSE
  /\ pc = [p \in Proc |-> "out"] /\ left = [p \in Proc |-> 0]
  /\ sync = [c \in CPU |-> "out"] /\ printed = 0
  /\ intr = FALSE /\ irq = FALSE /\ fifo = 0

\* LSR_TX_IDLE.
Idle == fifo = 0

\* WriteReg(THR, c); a pending transmit interrupt is withdrawn.
PutTHR == fifo' = fifo + 1 /\ irq' = FALSE

-------------------------------------------------------------------------------
(* uartwrite()                                                             *)

uartwrite(p, k) ==
  /\ pc[p] = "out" /\ k > 0
  /\ pc' = [pc EXCEPT ![p] = "ready"]
  /\ left' = [left EXCEPT ![p] = k]
  /\ UNCHANGED <<tx_busy, sync, printed, intr, fifo, irq>>

\* A definition whose name ends in _bug is a deliberate error in the one that
\* follows it; each property is shown to fail when such an error is made.

\* The UART is not busy: write a character, then sleep if there are more.
write_char(p) ==
  /\ pc[p] = "ready" /\ ~tx_busy
  /\ PutTHR
  /\ tx_busy' = TRUE
  /\ left' = [left EXCEPT ![p] = @ - 1]
  /\ pc' = [pc EXCEPT ![p] = IF left[p] = 1 THEN "out" ELSE "asleep"]
  /\ UNCHANGED <<sync, printed, intr>>

write_busy(p) ==
  /\ pc[p] = "ready" /\ tx_busy
  /\ pc' = [pc EXCEPT ![p] = "asleep"]
  /\ UNCHANGED <<tx_busy, left, sync, printed, intr, fifo, irq>>

-------------------------------------------------------------------------------
(* uartputc_sync(): interrupts are off, other CPUs are not.                *)

uartputc_sync(c) ==
  /\ sync[c] = "out" /\ printed < MaxSync
  /\ sync' = [sync EXCEPT ![c] = "poll"]
  /\ printed' = printed + 1
  /\ UNCHANGED <<tx_busy, pc, left, intr, fifo, irq>>

sync_poll(c) ==
  /\ sync[c] = "poll" /\ Idle
  /\ sync' = [sync EXCEPT ![c] = "put"]
  /\ UNCHANGED <<tx_busy, pc, left, printed, intr, fifo, irq>>

sync_put(c) ==
  /\ sync[c] = "put"
  /\ sync' = [sync EXCEPT ![c] = "out"]
  /\ PutTHR
  /\ UNCHANGED <<tx_busy, pc, left, printed, intr>>

-------------------------------------------------------------------------------
(* uartintr(), its transmit half.                                          *)

intr_ack ==
  /\ irq /\ ~intr
  /\ irq' = FALSE /\ intr' = TRUE
  /\ UNCHANGED <<tx_busy, pc, left, sync, printed, fifo>>

Woken == [p \in Proc |-> IF pc[p] = "asleep" THEN "ready" ELSE pc[p]]

intr_tx ==
  /\ intr
  /\ intr' = FALSE
  /\ IF Idle THEN tx_busy' = FALSE /\ pc' = Woken
             ELSE UNCHANGED <<tx_busy, pc>>
  /\ UNCHANGED <<left, sync, printed, fifo, irq>>

\* The transmitter sends a character, and raises an interrupt when it has
\* sent the last one.
dev_send ==
  /\ fifo > 0
  /\ fifo' = fifo - 1
  /\ irq' = (irq \/ fifo = 1)
  /\ UNCHANGED <<tx_busy, pc, left, sync, printed, intr>>

Write(p) == write_char(p) \/ write_busy(p)
Sync(c)  == sync_poll(c) \/ sync_put(c)
Intr     == intr_ack \/ intr_tx

Next == \/ \E p \in Proc : Write(p) \/ \E k \in 1..MaxLen : uartwrite(p, k)
        \/ \E c \in CPU : Sync(c) \/ uartputc_sync(c)
        \/ Intr \/ dev_send

Spec == Init /\ [][Next]_vars

-------------------------------------------------------------------------------
\* tx_busy is never left set with nothing on its way: as long as it is set,
\* a character is still to be sent or an interrupt to be handled, so that the
\* sleeping writers will be woken.
BusyIsTemporary == TypeOK /\ (tx_busy => fifo > 0 \/ irq \/ intr)

\* No writer sleeps while the UART is not busy.
NoLostWakeup == \A p \in Proc : pc[p] = "asleep" => tx_busy
===============================================================================
