----------------------------- MODULE DeviceProofs -----------------------------
(***************************************************************************)
(* The drivers and the clock, for any number of processes, any sizes of    *)
(* the rings and any widths of the counters.                               *)
(***************************************************************************)
EXTENDS DiskProofs

-------------------------------------------------------------------------------
(* The serial line.                                                        *)

\* A process in uartwrite() has something to write, and sleeps only while tx_busy is
\* set; and what is on its way will clear it.
UartInv == /\ U!TypeOK
           /\ \A p \in Reader : upc[p] # "out" => left[p] > 0
           /\ \A p \in Reader : upc[p] = "asleep" => tx_busy
           /\ tx_busy => fifo > 0 \/ uirq \/ uintr

\* uartinit(), a step of the driver, and a step of something else.
LEMMA UartInduction == /\ U!Init => UartInv
                       /\ UartInv /\ U!Next => UartInv'
                       /\ UartInv /\ UNCHANGED uartVars => UartInv'

\* A writer of the console.
<1>WriterStep. ASSUME UartInv, NEW p \in Reader, U!write_char(p) \/ U!write_busy(p) \/ \E k \in 1..MaxLen : U!uartwrite(p, k)
               PROVE UartInv'
  <2> USE <1>WriterStep
  <2>t. /\ tx_busy \in BOOLEAN /\ upc \in [Reader -> {"out", "ready", "asleep"}] /\ left \in [Reader -> 0..MaxLen]
        /\ uintr \in BOOLEAN /\ uirq \in BOOLEAN /\ fifo \in Nat /\ MaxLen \in Nat
        /\ sync \in [CPU -> {"out", "poll", "put"}] /\ printed \in 0..MaxSync
    BY Zenon, DeviceAssumption DEF UartInv, U!TypeOK
  <2>i. /\ \A q \in Reader : upc[q] # "out" => left[q] > 0
        /\ \A q \in Reader : upc[q] = "asleep" => tx_busy
        /\ tx_busy => fifo > 0 \/ uirq \/ uintr
    BY Zenon DEF UartInv
  <2>1. CASE U!write_char(p)
    <3>1. /\ upc[p] = "ready" /\ fifo' = fifo + 1 /\ uirq' = FALSE /\ tx_busy' = TRUE
          /\ left' = [left EXCEPT ![p] = left[p] - 1]
          /\ upc' = [upc EXCEPT ![p] = IF left[p] = 1 THEN "out" ELSE "asleep"]
          /\ UNCHANGED <<sync, printed, uintr>>
      BY Zenon, <2>1 DEF U!write_char, U!PutTHR
    <3>2. left[p] \in 1..MaxLen BY <2>i, <2>t, <3>1
    <3>3. left' \in [Reader -> 0..MaxLen] /\ upc' \in [Reader -> {"out", "ready", "asleep"}] /\ fifo' \in Nat /\ fifo' > 0
      BY <2>t, <3>1, <3>2
    <3>4. \A q \in Reader : upc'[q] # "out" => left'[q] > 0 BY <2>i, <2>t, <3>1, <3>2
    <3>5. tx_busy' \in BOOLEAN /\ uirq' \in BOOLEAN /\ tx_busy' BY <3>1, Zenon
    <3> QED BY <2>t, <3>1, <3>3, <3>4, <3>5, Zenon DEF UartInv, U!TypeOK
  <2>2. CASE U!write_busy(p)
    <3>1. /\ upc[p] = "ready" /\ tx_busy /\ upc' = [upc EXCEPT ![p] = "asleep"]
          /\ UNCHANGED <<tx_busy, left, sync, printed, uintr, fifo, uirq>>
      BY <2>2, Zenon DEF U!write_busy
    <3>2. upc' \in [Reader -> {"out", "ready", "asleep"}] BY Zenon, <2>t, <3>1
    <3>3. \A q \in Reader : upc'[q] # "out" => left[q] > 0 BY Zenon, <2>i, <2>t, <3>1
    <3> QED BY <2>t, <2>i, <3>1, <3>2, <3>3, Zenon DEF UartInv, U!TypeOK
  <2>3. ASSUME NEW k \in 1..MaxLen, U!uartwrite(p, k) PROVE UartInv'
    <3>1. /\ upc' = [upc EXCEPT ![p] = "ready"] /\ left' = [left EXCEPT ![p] = k]
          /\ UNCHANGED <<tx_busy, sync, printed, uintr, fifo, uirq>>
      BY <2>3, Zenon DEF U!uartwrite
    <3>2. upc' \in [Reader -> {"out", "ready", "asleep"}] /\ left' \in [Reader -> 0..MaxLen] BY <2>t, <3>1
    <3>3. \A q \in Reader : upc'[q] # "out" => left'[q] > 0 BY <2>i, <2>t, <3>1
    <3>4. \A q \in Reader : upc'[q] = "asleep" => upc[q] = "asleep" BY Zenon, <2>t, <3>1
    <3> QED BY <2>t, <2>i, <3>1, <3>2, <3>3, <3>4, Zenon DEF UartInv, U!TypeOK
  <2> QED BY Zenon, <2>1, <2>2, <2>3

\* The kernel's own output, the interrupt handler and the transmitter.
<1>LineStep. ASSUME UartInv,
                    \/ \E c \in CPU : U!sync_poll(c) \/ U!sync_put(c) \/ U!uartputc_sync(c)
                    \/ U!intr_ack \/ U!intr_tx \/ U!dev_send
             PROVE UartInv'
  <2> USE <1>LineStep
  <2>t. /\ tx_busy \in BOOLEAN /\ upc \in [Reader -> {"out", "ready", "asleep"}] /\ left \in [Reader -> 0..MaxLen]
        /\ uintr \in BOOLEAN /\ uirq \in BOOLEAN /\ fifo \in Nat /\ MaxSync \in Nat
        /\ sync \in [CPU -> {"out", "poll", "put"}] /\ printed \in 0..MaxSync
    BY Zenon, DeviceAssumption DEF UartInv, U!TypeOK
  <2>i. /\ \A q \in Reader : upc[q] # "out" => left[q] > 0
        /\ \A q \in Reader : upc[q] = "asleep" => tx_busy
        /\ tx_busy => fifo > 0 \/ uirq \/ uintr
    BY Zenon DEF UartInv
  <2>1. ASSUME NEW c \in CPU, U!sync_poll(c) \/ U!uartputc_sync(c) PROVE UartInv'
    <3>1. UNCHANGED <<tx_busy, upc, left, uintr, fifo, uirq>> BY <2>1, Zenon DEF U!sync_poll, U!uartputc_sync
    <3>2. sync' \in [CPU -> {"out", "poll", "put"}] BY Zenon, <2>1, <2>t DEF U!sync_poll, U!uartputc_sync
    <3>3. printed' \in 0..MaxSync BY <2>1, <2>t DEF U!sync_poll, U!uartputc_sync
    <3> QED BY <2>t, <2>i, <3>1, <3>2, <3>3, Zenon DEF UartInv, U!TypeOK
  <2>2. ASSUME NEW c \in CPU, U!sync_put(c) PROVE UartInv'
    <3>1. /\ sync' = [sync EXCEPT ![c] = "out"] /\ fifo' = fifo + 1 /\ uirq' = FALSE
          /\ UNCHANGED <<tx_busy, upc, left, printed, uintr>>
      BY <2>2, Zenon DEF U!sync_put, U!PutTHR
    <3>2. sync' \in [CPU -> {"out", "poll", "put"}] /\ fifo' \in Nat /\ fifo' > 0 BY <2>t, <3>1
    <3>3. uirq' \in BOOLEAN BY <3>1, Zenon
    <3> QED BY <2>t, <2>i, <3>1, <3>2, <3>3, Zenon DEF UartInv, U!TypeOK
  <2>3. CASE U!intr_ack
    <3>1. uirq' = FALSE /\ uintr' = TRUE /\ UNCHANGED <<tx_busy, upc, left, sync, printed, fifo>>
      BY <2>3, Zenon DEF U!intr_ack
    <3>2. uirq' \in BOOLEAN /\ uintr' \in BOOLEAN /\ uintr' BY <3>1, Zenon
    <3> QED BY <2>t, <2>i, <3>1, <3>2, Zenon DEF UartInv, U!TypeOK
  <2>4. CASE U!intr_tx
    <3>1. uintr' = FALSE /\ UNCHANGED <<left, sync, printed, fifo, uirq>> BY <2>4, Zenon DEF U!intr_tx
    <3>2. CASE U!Idle
      <4>1. tx_busy' = FALSE /\ upc' = U!Woken BY <2>4, <3>2, Zenon DEF U!intr_tx
      <4>2. upc' \in [Reader -> {"out", "ready", "asleep"}] /\ \A q \in Reader : upc'[q] # "asleep" /\ (upc'[q] # "out" => upc[q] # "out")
        BY Zenon, <2>t, <4>1 DEF U!Woken
      <4>3. tx_busy' \in BOOLEAN /\ ~tx_busy' /\ uintr' \in BOOLEAN BY <3>1, <4>1, Zenon
      <4> QED BY <2>t, <2>i, <3>1, <4>2, <4>3, Zenon DEF UartInv, U!TypeOK
    <3>3. CASE ~U!Idle
      <4>1. UNCHANGED <<tx_busy, upc>> BY <2>4, <3>3, Zenon DEF U!intr_tx
      <4>2. fifo > 0 BY <2>t, <3>3 DEF U!Idle
      <4>3. uintr' \in BOOLEAN BY <3>1, Zenon
      <4> QED BY <2>t, <2>i, <3>1, <4>1, <4>2, <4>3, Zenon DEF UartInv, U!TypeOK
    <3> QED BY Zenon, <3>2, <3>3
  <2>5. CASE U!dev_send
    <3>1. /\ fifo > 0 /\ fifo' = fifo - 1 /\ uirq' = (uirq \/ fifo = 1)
          /\ UNCHANGED <<tx_busy, upc, left, sync, printed, uintr>>
      BY <2>5, Zenon DEF U!dev_send
    <3>2. fifo' \in Nat /\ (fifo' > 0 \/ fifo = 1) BY <2>t, <3>1
    <3>3. uirq' \in BOOLEAN /\ (fifo = 1 => uirq') BY <2>t, <3>1, Zenon
    <3> QED BY <2>t, <2>i, <3>1, <3>2, <3>3, Zenon DEF UartInv, U!TypeOK
  <2> QED BY Zenon, <2>1, <2>2, <2>3, <2>4, <2>5

\* uartinit(), a step of the driver, and a step of something else.
<1>UartSteps. /\ U!Init => UartInv
              /\ UartInv /\ U!Next => UartInv'
              /\ UartInv /\ UNCHANGED uartVars => UartInv'
  <2>1. ASSUME U!Init PROVE UartInv
    <3>1. 0 \in 0..MaxLen /\ 0 \in 0..MaxSync /\ 0 \in Nat BY DeviceAssumption
    <3>2. tx_busy \in BOOLEAN /\ uintr \in BOOLEAN /\ uirq \in BOOLEAN /\ ~tx_busy BY <2>1, Zenon DEF U!Init
    <3>3. upc = [p \in Reader |-> "out"] /\ left = [p \in Reader |-> 0] /\ sync = [c \in CPU |-> "out"] /\ printed = 0 /\ fifo = 0
      BY Zenon, <2>1 DEF U!Init
    <3>4. upc \in [Reader -> {"out", "ready", "asleep"}] /\ left \in [Reader -> 0..MaxLen] /\ sync \in [CPU -> {"out", "poll", "put"}]
      BY Zenon, <3>1, <3>3
    <3>5. \A p \in Reader : upc[p] = "out" BY Zenon, <3>3
    <3>6. \A p \in Reader : upc[p] # "asleep" BY Zenon, <3>5
    <3> QED BY <3>1, <3>2, <3>3, <3>4, <3>5, <3>6, Zenon DEF UartInv, U!TypeOK
  <2>2. ASSUME UartInv, U!Next PROVE UartInv' BY <2>2, <1>WriterStep, <1>LineStep, Zenon DEF U!Next, U!Write, U!Sync, U!Intr
  <2>3. ASSUME UartInv, UNCHANGED uartVars PROVE UartInv'
    <3>1. UNCHANGED <<tx_busy, upc, left, sync, printed, uintr, fifo, uirq>> BY <2>3, Zenon DEF uartVars
    <3> QED BY <2>3, <3>1, Zenon DEF UartInv, U!TypeOK
  <2> QED BY <2>1, <2>2, <2>3, Zenon

<1> QED BY <1>UartSteps, Zenon

-------------------------------------------------------------------------------
(* The clock.                                                              *)

TimeTypes ==
  /\ ticks \in 0 .. TICKS - 1
  /\ tpc \in [Reader -> {"user", "loop", "sleep", "asleep", "woken", "dead"}]
  /\ ticks0 \in [Reader -> 0 .. TICKS - 1]
  /\ tn \in [Reader -> 0 .. MaxPause]
  /\ elapsed \in [Reader -> 0 .. MaxPause]

Since(t, t0) == (t + TICKS - t0) % TICKS

\* tickslock is held from the look at ticks to sleep(), and elapsed is what the
\* code computes with unsigned subtraction until it stops counting.
PauseInv ==
  /\ TimeTypes
  /\ \A p \in Reader : tpc[p] \in {"loop", "sleep"} => tickslock = p
  /\ \A p \in Reader : tpc[p] \in {"sleep", "asleep"} => T!Paused(p)
  /\ \A p \in Reader : tpc[p] \in {"loop", "sleep", "asleep", "woken"} =>
       elapsed[p] = MaxPause \/ elapsed[p] = Since(ticks, ticks0[p])

\* The steps of the clock: PauseInv holds in the beginning and after every step of
\* Timer, and a process leaves pause() after its time.
LEMMA PauseInduction ==
  /\ T!Init => PauseInv
  /\ PauseInv /\ T!Next => PauseInv'
  /\ PauseInv /\ UNCHANGED timeVars => PauseInv'
  /\ \A p \in Reader : PauseInv /\ T!Next /\ tpc[p] = "loop" /\ tpc'[p] = "user" => elapsed[p] >= tn[p]

\* What the proofs use of the constants of the clock.
<1>TimeFacts. TICKS \in Nat \ {0} /\ MaxPause \in Nat /\ MaxPause < TICKS /\ None \notin Reader
  BY Zenon, DeviceAssumption

\* The distance of two readings of the clock.
<1>Distance. ASSUME NEW t \in 0 .. TICKS - 1, NEW t0 \in 0 .. TICKS - 1
             PROVE Since(t, t0) = IF t < t0 THEN t + TICKS - t0 ELSE t - t0
  <2> USE <1>Distance
  <2>1. t + TICKS - t0 \in 0 .. 2 * TICKS - 1 BY <1>TimeFacts
  <2>2. TICKS \in Nat \ {0} BY Zenon, <1>TimeFacts
  <2> DEFINE x == t + TICKS - t0
  <2> HIDE DEF x
  <2>3. x % TICKS = IF x < TICKS THEN x ELSE x - TICKS BY Zenon, <2>1, <2>2, Remainder DEF x
  <2>4. Since(t, t0) = IF x < TICKS THEN x ELSE x - TICKS BY Zenon, <2>3 DEF x, Since
  <2> QED BY <2>2, <2>4 DEF x

\* The clock stays in its range.
<1>NextTick. ASSUME NEW t \in 0 .. TICKS - 1
              PROVE /\ (t + 1) % TICKS = IF t + 1 < TICKS THEN t + 1 ELSE 0
                    /\ (t + 1) % TICKS \in 0 .. TICKS - 1
  <2> USE <1>NextTick
  <2> DEFINE v == t + 1
  <2>1. TICKS \in Nat \ {0} BY Zenon, <1>TimeFacts
  <2>2. v \in 0 .. 2 * TICKS - 1 BY <2>1
  <2> HIDE DEF v
  <2>3. v % TICKS = IF v < TICKS THEN v ELSE v - TICKS BY Zenon, <2>1, <2>2, Remainder
  <2> DEFINE y == v % TICKS
  <2>4. y = IF v < TICKS THEN v ELSE v - TICKS BY Zenon, <2>3
  <2> HIDE DEF y
  <2>5. y = (IF t + 1 < TICKS THEN t + 1 ELSE 0) /\ y \in 0 .. TICKS - 1 BY <2>1, <2>4 DEF v
  <2> QED BY Zenon, <2>5 DEF y, v

\* No time has passed since now.
<1>SinceSelf. ASSUME NEW t \in 0 .. TICKS - 1 PROVE Since(t, t) = 0
  <2> USE <1>SinceSelf
  <2> DEFINE a == Since(t, t)
  <2>1. TICKS \in Nat \ {0} BY Zenon, <1>TimeFacts
  <2>2. a = IF t < t THEN t + TICKS - t ELSE t - t BY Zenon, <1>Distance
  <2> HIDE DEF a
  <2>3. a = 0 BY <2>1, <2>2
  <2> QED BY Zenon, <2>3 DEF a

\* One tick more, as long as the difference does not wrap.
<1>Tick. ASSUME NEW t \in 0 .. TICKS - 1, NEW t0 \in 0 .. TICKS - 1,
                Since(t, t0) < TICKS - 1
         PROVE Since((t + 1) % TICKS, t0) = Since(t, t0) + 1
  <2> USE <1>Tick
  <2> DEFINE u == (t + 1) % TICKS
             a == Since(u, t0)
             b == Since(t, t0)
  <2>1. TICKS \in Nat \ {0} BY Zenon, <1>TimeFacts
  <2>2. u = (IF t + 1 < TICKS THEN t + 1 ELSE 0) /\ u \in 0 .. TICKS - 1 BY Zenon, <1>NextTick
  <2> HIDE DEF u
  <2>3. a = IF u < t0 THEN u + TICKS - t0 ELSE u - t0 BY Zenon, <2>2, <1>Distance
  <2>4. b = IF t < t0 THEN t + TICKS - t0 ELSE t - t0 BY Zenon, <1>Distance
  <2>5. b < TICKS - 1 BY Zenon
  <2> HIDE DEF a, b
  <2>6. a = b + 1 BY <2>1, <2>2, <2>3, <2>4, <2>5
  <2> QED BY Zenon, <2>6 DEF a, b, u

\* Paused() is unchanged for a process whose readings are.
<1>SamePaused. ASSUME NEW p \in Reader, ticks' = ticks, ticks0'[p] = ticks0[p], tn'[p] = tn[p]
               PROVE T!Paused(p)' <=> T!Paused(p)
  BY Zenon, <1>SamePaused DEF T!Paused

\* elapsed of a process that is in pause() follows the clock.
<1>Elapsed. ASSUME PauseInv, T!clockintr, NEW p \in Reader,
                   tpc[p] \in {"loop", "sleep", "asleep", "woken"}
            PROVE elapsed'[p] = MaxPause \/ elapsed'[p] = Since(ticks', ticks0'[p])
  <2> USE <1>Elapsed
  <2>1. /\ MaxPause \in Nat /\ TICKS \in Nat \ {0} /\ MaxPause < TICKS
        /\ ticks \in 0 .. TICKS - 1 /\ ticks0[p] \in 0 .. TICKS - 1 /\ elapsed[p] \in 0 .. MaxPause
    BY Zenon, <1>TimeFacts DEF PauseInv, TimeTypes
  <2>2. ticks' = (ticks + 1) % TICKS /\ ticks0'[p] = ticks0[p] BY Zenon DEF T!clockintr
  <2>3. elapsed'[p] = IF elapsed[p] < MaxPause THEN elapsed[p] + 1 ELSE elapsed[p]
    BY Zenon DEF T!clockintr
  <2>4. elapsed[p] = MaxPause \/ elapsed[p] = Since(ticks, ticks0[p]) BY Zenon DEF PauseInv
  <2>5. CASE elapsed[p] = MaxPause BY <2>1, <2>3, <2>5
  <2>6. CASE elapsed[p] # MaxPause
    <3>1. elapsed[p] = Since(ticks, ticks0[p]) /\ elapsed[p] < MaxPause BY <2>1, <2>4, <2>6
    <3>2. elapsed'[p] = Since(ticks, ticks0[p]) + 1 BY Zenon, <2>3, <3>1
    <3>3. Since(ticks, ticks0[p]) < TICKS - 1 BY <2>1, <3>1
    <3>4. Since((ticks + 1) % TICKS, ticks0[p]) = Since(ticks, ticks0[p]) + 1 BY Zenon, <2>1, <3>3, <1>Tick
    <3> QED BY Zenon, <2>2, <3>2, <3>4
  <2> QED BY Zenon, <2>5, <2>6

\* The clock interrupt needs tickslock, so nobody is between the look and sleep().
<1>ClockStep. ASSUME PauseInv, T!clockintr PROVE PauseInv'
  <2> USE <1>ClockStep
  <2>1. TimeTypes'
    <3>1. ticks' \in 0 .. TICKS - 1 BY Zenon, <1>NextTick DEF PauseInv, TimeTypes, T!clockintr
    <3>2. elapsed' \in [Reader -> 0 .. MaxPause]
      BY <1>TimeFacts DEF PauseInv, TimeTypes, T!clockintr
    <3>3. tpc' \in [Reader -> {"user", "loop", "sleep", "asleep", "woken", "dead"}]
      BY Zenon DEF PauseInv, TimeTypes, T!clockintr
    <3> QED BY Zenon, <3>1, <3>2, <3>3 DEF PauseInv, TimeTypes, T!clockintr
  <2>2. \A p \in Reader : tpc[p] \notin {"loop", "sleep"}
    BY Zenon, <1>TimeFacts DEF PauseInv, T!clockintr
  <2>3. \A p \in Reader : tpc'[p] \notin {"loop", "sleep", "asleep"}
    BY Zenon, <2>2 DEF PauseInv, TimeTypes, T!clockintr
  <2>4. ASSUME NEW p \in Reader, tpc'[p] \in {"loop", "sleep", "asleep", "woken"}
        PROVE elapsed'[p] = MaxPause \/ elapsed'[p] = Since(ticks', ticks0'[p])
    <3>1. tpc[p] \in {"asleep", "woken"} BY Zenon, <2>2, <2>4 DEF PauseInv, TimeTypes, T!clockintr
    <3> QED BY Zenon, <3>1, <1>Elapsed
  <2> QED BY Zenon, <2>1, <2>3, <2>4 DEF PauseInv, Since

\* The steps of one process leave the clock, and what the others read, alone.
<1>ProcStep. ASSUME PauseInv, NEW p \in Reader,
                    \/ \E k \in 0 .. MaxPause : T!pause(p, k)
                    \/ T!pause_done(p) \/ T!pause_killed(p) \/ T!pause_look(p) \/ T!sleep(p)
                    \/ T!woken(p) \/ T!kill(p) \/ T!renew(p)
             PROVE PauseInv'
  <2> USE <1>ProcStep
  <2>1. /\ ticks' = ticks
        /\ \A q \in Reader \ {p} : /\ tpc'[q] = tpc[q] /\ ticks0'[q] = ticks0[q]
                                 /\ tn'[q] = tn[q] /\ elapsed'[q] = elapsed[q]
    BY DEF PauseInv, TimeTypes, T!pause, T!pause_done, T!pause_killed, T!pause_look, T!sleep, T!woken, T!kill, T!renew, T!Return
  <2>2. TimeTypes'
    BY <1>TimeFacts DEF PauseInv, TimeTypes, T!pause, T!pause_done, T!pause_killed, T!pause_look, T!sleep, T!woken,
           T!kill, T!renew, T!Return
  <2>3. ASSUME NEW q \in Reader, tpc'[q] \in {"loop", "sleep"} PROVE tickslock' = q
    BY <1>TimeFacts, <2>1, <2>3 DEF PauseInv, TimeTypes, T!pause, T!pause_done, T!pause_killed, T!pause_look,
                      T!sleep, T!woken, T!kill, T!renew, T!Return
  <2>4. ASSUME NEW q \in Reader, tpc'[q] \in {"sleep", "asleep"} PROVE T!Paused(q)'
    <3>1. CASE q # p
      BY Zenon, <2>1, <2>4, <3>1, <1>SamePaused DEF PauseInv
    <3>2. CASE q = p
      <4>1. ticks0'[p] = ticks0[p] /\ tn'[p] = tn[p] /\ T!Paused(p)
        BY Zenon, <2>4, <3>2 DEF PauseInv, TimeTypes, T!pause, T!pause_done, T!pause_killed, T!pause_look, T!sleep, T!woken,
                          T!kill, T!renew, T!Return
      <4> QED BY Zenon, <2>1, <3>2, <4>1, <1>SamePaused
    <3> QED BY Zenon, <3>1, <3>2
  <2>5. ASSUME NEW q \in Reader, tpc'[q] \in {"loop", "sleep", "asleep", "woken"}
        PROVE elapsed'[q] = MaxPause \/ elapsed'[q] = Since(ticks', ticks0'[q])
    <3>1. CASE tpc[q] \in {"loop", "sleep", "asleep", "woken"}
      <4>1. ticks0'[q] = ticks0[q] /\ elapsed'[q] = elapsed[q]
        BY <2>1, <2>5, <3>1 DEF PauseInv, TimeTypes, T!pause, T!pause_done, T!pause_killed, T!pause_look, T!sleep,
                                T!woken, T!kill, T!renew, T!Return
      <4> QED BY Zenon, <2>1, <3>1, <4>1 DEF PauseInv
    <3>2. CASE tpc[q] \notin {"loop", "sleep", "asleep", "woken"}
      <4>1. ticks0'[q] = ticks' /\ elapsed'[q] = 0
        BY <2>1, <2>5, <3>2 DEF PauseInv, TimeTypes, T!pause, T!pause_done, T!pause_killed, T!pause_look, T!sleep,
                                T!woken, T!kill, T!renew, T!Return
      <4>2. Since(ticks', ticks') = 0
        BY Zenon, <2>2, <1>SinceSelf DEF TimeTypes
      <4> QED BY Zenon, <4>1, <4>2
    <3> QED BY Zenon, <3>1, <3>2
  <2> QED BY Zenon, <2>2, <2>3, <2>4, <2>5 DEF PauseInv, Since

\* The beginning, a step of the clock or of a process, and a step of something else.
<1>PauseSteps. /\ T!Init => PauseInv
               /\ PauseInv /\ T!Next => PauseInv'
               /\ PauseInv /\ UNCHANGED timeVars => PauseInv'
  <2>1. ASSUME T!Init PROVE PauseInv
    <3>1. TimeTypes BY <2>1, <1>TimeFacts DEF T!Init, TimeTypes
    <3> QED BY Zenon, <2>1, <3>1 DEF T!Init, PauseInv
  <2>2. ASSUME PauseInv, T!Next PROVE PauseInv' BY <2>2, <1>ClockStep, <1>ProcStep, Zenon DEF T!Next
  <2>3. ASSUME PauseInv, UNCHANGED timeVars PROVE PauseInv'
    <3>1. UNCHANGED <<ticks, tickslock, tpc, ticks0, tn, elapsed>> BY <2>3, Zenon DEF timeVars
    <3> QED BY <2>3, <3>1, Zenon DEF PauseInv, TimeTypes, T!Paused, Since
  <2> QED BY <2>1, <2>2, <2>3, Zenon

\* A process leaves pause() after its time.
<1>PauseOver. ASSUME PauseInv, T!Next, NEW p \in Reader, tpc[p] = "loop", tpc'[p] = "user" PROVE elapsed[p] >= tn[p]
  <2> USE <1>PauseOver
  <2>1. T!pause_done(p)
    <3>1. ~T!clockintr BY Zenon DEF T!clockintr
    <3>2. PICK q \in Reader :
            \/ \E k \in 0 .. MaxPause : T!pause(q, k)
            \/ T!pause_done(q) \/ T!pause_killed(q) \/ T!pause_look(q) \/ T!sleep(q)
            \/ T!woken(q) \/ T!kill(q) \/ T!renew(q)
      BY <3>1, Zenon DEF T!Next
    <3>3. q = p
      BY Zenon, <3>2 DEF PauseInv, TimeTypes, T!pause, T!pause_done, T!pause_killed, T!pause_look, T!sleep, T!woken, T!kill,
                  T!renew, T!Return
    <3> QED
      BY Zenon, <3>2, <3>3 DEF PauseInv, TimeTypes, T!pause, T!pause_killed, T!pause_look, T!sleep, T!woken, T!kill, T!renew,
                        T!Return
  <2>2. ~(Since(ticks, ticks0[p]) < tn[p]) BY <2>1, Zenon DEF T!pause_done, T!Paused, Since
  <2>3. /\ tn[p] \in 0 .. MaxPause /\ MaxPause \in Nat /\ TICKS \in Nat \ {0}
        /\ ticks \in 0 .. TICKS - 1 /\ ticks0[p] \in 0 .. TICKS - 1
    BY Zenon, <1>TimeFacts DEF PauseInv, TimeTypes
  <2>4. elapsed[p] = MaxPause \/ elapsed[p] = Since(ticks, ticks0[p]) BY Zenon DEF PauseInv
  <2>5. Since(ticks, ticks0[p]) \in Int
    <3>1. Since(ticks, ticks0[p]) =
            IF ticks < ticks0[p] THEN ticks + TICKS - ticks0[p] ELSE ticks - ticks0[p]
      BY Zenon, <2>3, <1>Distance
    <3> QED BY <2>3, <3>1
  <2> QED BY <2>2, <2>3, <2>4, <2>5

<1> QED BY <1>PauseSteps, <1>PauseOver, Zenon

-------------------------------------------------------------------------------
(* The console.  Its indices count in unsigned arithmetic and wrap around; *)
(* the ring holds the characters between them.                             *)

Index == 0 .. UINT - 1

Place == 0 .. INPUT_BUF_SIZE - 1
Char  == C!Stored \cup {C!NUL}
Bufs  == [Place -> Char]

Put(f, z, c) == [f EXCEPT ![z % INPUT_BUF_SIZE] = c]

Cut(f, a, k) == [x \in 1..k |-> f[(a + x - 1) % INPUT_BUF_SIZE]]

ConsTypes ==
  /\ buf \in Bufs /\ r \in Index /\ w \in Index /\ e \in Index
  /\ lock \in Reader \cup {None}
  /\ cpc \in [Reader -> {"out", "acquire", "loop", "sleep", "asleep"}]
  /\ n \in [Reader -> 0..MaxLen] /\ target \in [Reader -> 0..MaxLen]
  /\ killed \in [Reader -> BOOLEAN]

\* cons.lock is held from the look at r and w to sleep(), and nobody sleeps while
\* there is a finished line.
ReadInv ==
  \A p \in Reader : /\ cpc[p] \in {"loop", "sleep"} => lock = p
                    /\ cpc[p] \in {"sleep", "asleep"} => r = w
                    /\ n[p] <= target[p]

\* The finished lines and the line being typed share the ring, and the latter
\* has no character that ends a line.
Fits == C!Minus(w, r) + C!Minus(e, w) <= INPUT_BUF_SIZE
Open == \A k \in 1..Len(C!line) : C!line[k] \notin C!Ends

ConsInv == ConsTypes /\ ReadInv /\ Fits /\ Open

\* A reader changes its own state, and the lock only from or to itself.
ReaderMoves(p, c, a, b) ==
  /\ c \in {"out", "acquire", "loop", "sleep", "asleep"} /\ a \in 0..MaxLen /\ b \in 0..MaxLen /\ a <= b
  /\ cpc' = [cpc EXCEPT ![p] = c] /\ n' = [n EXCEPT ![p] = a] /\ target' = [target EXCEPT ![p] = b]
  /\ (c \in {"loop", "sleep"} => lock' = p) /\ (c \in {"sleep", "asleep"} => r = w)
  /\ lock' \in {lock, p, None} /\ (lock' # lock => lock \in {None, p})

\* The console keeps its invariant, every step is one of module LineInput or none
\* there, and a ^D leaves the ring only when the read() that takes it has nothing
\* else.
LEMMA ConsInduction ==
  /\ C!Init => ConsInv /\ C!LI!Init
  /\ ConsInv /\ C!Next => ConsInv' /\ (C!LI!Next \/ (C!input' = C!input /\ C!line' = C!line))
  /\ ConsInv /\ UNCHANGED consVars => ConsInv' /\ C!input' = C!input /\ C!line' = C!line
  /\ \A p \in Reader : ConsInv /\ C!Next /\ lock = p /\ C!At(r) = C!CtrlD /\ r' # r =>
       cpc'[p] = "out" /\ n[p] = target[p]
  /\ ConsInv => C!NoLostWakeup

\* What the proofs use of the constants of the console.
<1>ConsFacts. /\ INPUT_BUF_SIZE \in Nat \ {0} /\ UINT \in Nat \ {0} /\ INPUT_BUF_SIZE < UINT
              /\ MaxLen \in Nat /\ None \notin Reader
              /\ \E k \in Nat : UINT = k * INPUT_BUF_SIZE
  <2>1. INPUT_BUF_SIZE \in Nat \ {0} /\ MaxLen \in Nat /\ None \notin Reader BY Zenon, DeviceAssumption
  <2>2. PICK k \in 2..UINT : UINT = k * INPUT_BUF_SIZE /\ UINT \in Nat BY Zenon, DeviceAssumption
  <2>3. k \in Nat /\ k >= 2 BY <2>2
  <2>4. UINT = INPUT_BUF_SIZE + (k - 2) * INPUT_BUF_SIZE + INPUT_BUF_SIZE
        /\ (k - 2) * INPUT_BUF_SIZE \in Nat BY <2>1, <2>2, <2>3
  <2>5. INPUT_BUF_SIZE < UINT /\ UINT \in Nat \ {0} BY <2>1, <2>4
  <2> QED BY Zenon, <2>1, <2>2, <2>3, <2>5

\* Remainders of negative multiples too.
<1>UniqueInt. ASSUME NEW m \in Nat \ {0}, NEW q \in Int, NEW k \in 0..(m - 1)
              PROVE (q * m + k) % m = k
  BY <1>UniqueInt

\* Wrapping around at UINT keeps the place in the ring.
<1>PlaceWraps. ASSUME NEW x \in Nat, x >= UINT
               PROVE (x - UINT) % INPUT_BUF_SIZE = x % INPUT_BUF_SIZE
  <2> USE <1>PlaceWraps
  <2> DEFINE m == INPUT_BUF_SIZE
  <2>1. m \in Nat \ {0} BY Zenon, <1>ConsFacts
  <2>2. PICK k \in Nat : UINT = k * m BY Zenon, <1>ConsFacts
  <2> HIDE DEF m
  <2>3. PICK q \in Nat : x = q * m + (x % m) /\ x % m \in 0..(m - 1) BY <2>1, Division, Zenon
  <2>4. PICK t \in 0..(m - 1) : t = x % m /\ x = q * m + t BY Zenon, <2>3
  <2>5. x - UINT = (q - k) * m + t BY <2>1, <2>2, <2>4
  <2>6. ((q - k) * m + t) % m = t BY <2>1, <1>UniqueInt
  <2>7. (x - UINT) % m = x % m BY Zenon, <2>4, <2>5, <2>6
  <2> QED BY Zenon, <2>7 DEF m

\* Two numbers less than a ring apart have different places.
<1>Apart. ASSUME NEW m \in Nat \ {0}, NEW x \in Nat, NEW d \in 1..(m - 1)
          PROVE (x + d) % m # x % m
  <2> USE <1>Apart
  <2>1. PICK q \in Nat : x = q * m + (x % m) /\ x % m \in 0..(m - 1) BY Division, Zenon
  <2>2. PICK t \in 0..(m - 1) : t = x % m /\ x = q * m + t BY Zenon, <2>1
  <2>3. CASE t + d < m
    <3>1. x + d = q * m + (t + d) /\ t + d \in 0..(m - 1) BY <2>2, <2>3
    <3>2. (q * m + (t + d)) % m = t + d BY <3>1, Unique, Zenon
    <3> QED BY <2>2, <3>1, <3>2
  <2>4. CASE t + d >= m
    <3>1. x + d = (q + 1) * m + (t + d - m) /\ t + d - m \in 0..(m - 1) /\ q + 1 \in Nat BY <2>2, <2>4
    <3>2. ((q + 1) * m + (t + d - m)) % m = t + d - m BY <3>1, Unique, Zenon
    <3> QED BY <2>2, <3>1, <3>2
  <2> QED BY <2>2, <2>3, <2>4

\* Unsigned subtraction.
<1>MinusIs. ASSUME NEW a \in Index, NEW b \in Index
            PROVE /\ C!Minus(a, b) = IF a < b THEN a + UINT - b ELSE a - b
                  /\ C!Minus(a, b) \in Index
  <2> USE <1>MinusIs
  <2> DEFINE x == a + UINT - b
             y == C!Minus(a, b)
  <2>1. UINT \in Nat \ {0} BY Zenon, <1>ConsFacts
  <2>2. x \in 0 .. 2 * UINT - 1 BY <2>1 DEF Index
  <2>3. y = x % UINT BY Zenon DEF C!Minus
  <2> HIDE DEF x
  <2>4. x % UINT = IF x < UINT THEN x ELSE x - UINT BY Zenon, <2>1, <2>2, Remainder
  <2> HIDE DEF y
  <2>5. y = IF x < UINT THEN x ELSE x - UINT BY Zenon, <2>3, <2>4
  <2>6. y = (IF a < b THEN a + UINT - b ELSE a - b) /\ y \in Index BY <2>1, <2>5 DEF x, Index
  <2> QED BY Zenon, <2>6 DEF y

\* The next index.
<1>IncIs. ASSUME NEW a \in Index
          PROVE C!Inc(a) = (IF a + 1 < UINT THEN a + 1 ELSE 0) /\ C!Inc(a) \in Index
  <2> USE <1>IncIs
  <2> DEFINE x == a + 1
             y == C!Inc(a)
  <2>1. UINT \in Nat \ {0} BY Zenon, <1>ConsFacts
  <2>2. x \in 0 .. 2 * UINT - 1 BY <2>1 DEF Index
  <2>3. y = x % UINT BY Zenon DEF C!Inc
  <2> HIDE DEF x
  <2>4. x % UINT = IF x < UINT THEN x ELSE x - UINT BY Zenon, <2>1, <2>2, Remainder
  <2> HIDE DEF y
  <2>5. y = IF x < UINT THEN x ELSE x - UINT BY Zenon, <2>3, <2>4
  <2>6. y = (IF a + 1 < UINT THEN a + 1 ELSE 0) /\ y \in Index BY <2>1, <2>5 DEF x, Index
  <2> QED BY Zenon, <2>6 DEF y

\* Distances around the ring add up.
<1>MinusSum. ASSUME NEW a \in Index, NEW b \in Index, NEW c \in Index,
                    C!Minus(b, a) + C!Minus(c, b) < UINT
             PROVE C!Minus(c, a) = C!Minus(b, a) + C!Minus(c, b)
  <2> USE <1>MinusSum
  <2> DEFINE x == C!Minus(b, a)
             y == C!Minus(c, b)
             z == C!Minus(c, a)
  <2>1. UINT \in Nat \ {0} BY Zenon, <1>ConsFacts
  <2>2. /\ x = (IF b < a THEN b + UINT - a ELSE b - a)
        /\ y = (IF c < b THEN c + UINT - b ELSE c - b)
        /\ z = (IF c < a THEN c + UINT - a ELSE c - a)
    BY Zenon, <1>MinusIs
  <2>3. x + y < UINT BY Zenon
  <2> HIDE DEF x, y, z
  <2>4. z = x + y BY <2>1, <2>2, <2>3 DEF Index
  <2> QED BY Zenon, <2>4 DEF x, y, z

\* One step forward at the end, or at the start.
<1>MinusInc. ASSUME NEW a \in Index, NEW b \in Index
             PROVE /\ C!Minus(b, a) < UINT - 1 => C!Minus(C!Inc(b), a) = C!Minus(b, a) + 1
                   /\ a # b => C!Minus(b, C!Inc(a)) = C!Minus(b, a) - 1
                   /\ a = b <=> C!Minus(b, a) = 0
  <2> USE <1>MinusInc
  <2> DEFINE x == C!Minus(b, a)
             ia == C!Inc(a)
             ib == C!Inc(b)
             y == C!Minus(ib, a)
             z == C!Minus(b, ia)
  <2>1. UINT \in Nat \ {0} BY Zenon, <1>ConsFacts
  <2>2. /\ ia = (IF a + 1 < UINT THEN a + 1 ELSE 0) /\ ia \in Index
        /\ ib = (IF b + 1 < UINT THEN b + 1 ELSE 0) /\ ib \in Index
    BY Zenon, <1>IncIs
  <2> HIDE DEF ia, ib
  <2>3. /\ x = (IF b < a THEN b + UINT - a ELSE b - a)
        /\ y = (IF ib < a THEN ib + UINT - a ELSE ib - a)
        /\ z = (IF b < ia THEN b + UINT - ia ELSE b - ia)
    BY Zenon, <2>2, <1>MinusIs
  <2> HIDE DEF x, y, z
  <2>4. (x < UINT - 1 => y = x + 1) /\ (a # b => z = x - 1) /\ (a = b <=> x = 0)
    BY <2>1, <2>2, <2>3 DEF Index
  <2> QED BY Zenon, <2>4 DEF x, y, z, ia, ib

\* k steps back from the end.
<1>MinusBack. ASSUME NEW a \in Index, NEW b \in Index, NEW k \in 0..C!Minus(b, a)
              PROVE /\ C!Minus(b, k) \in Index
                    /\ C!Minus(C!Minus(b, k), a) = C!Minus(b, a) - k
  <2> USE <1>MinusBack
  <2> DEFINE x == C!Minus(b, a)
             bk == C!Minus(b, k)
             y == C!Minus(bk, a)
  <2>1. UINT \in Nat \ {0} BY Zenon, <1>ConsFacts
  <2>2. x = (IF b < a THEN b + UINT - a ELSE b - a) /\ x \in Index BY Zenon, <1>MinusIs
  <2>3. k \in 0..x BY Zenon
  <2> HIDE DEF x
  <2>4. k \in Index BY <2>1, <2>2, <2>3 DEF Index
  <2>5. bk = (IF b < k THEN b + UINT - k ELSE b - k) /\ bk \in Index BY Zenon, <2>4, <1>MinusIs
  <2> HIDE DEF bk
  <2>6. y = (IF bk < a THEN bk + UINT - a ELSE bk - a) BY Zenon, <2>5, <1>MinusIs
  <2> HIDE DEF y
  <2>7. y = x - k BY <2>1, <2>2, <2>3, <2>5, <2>6 DEF Index
  <2> QED BY Zenon, <2>5, <2>7 DEF x, y, bk

\* An index has the place that its distance from another one says.
<1>PlaceOf. ASSUME NEW a \in Index, NEW b \in Index, NEW k \in Nat
            PROVE (b + k) % INPUT_BUF_SIZE = (a + C!Minus(b, a) + k) % INPUT_BUF_SIZE
  <2> USE <1>PlaceOf
  <2> DEFINE x == C!Minus(b, a)
             y == a + x + k
  <2>1. UINT \in Nat \ {0} BY Zenon, <1>ConsFacts
  <2>2. x = (IF b < a THEN b + UINT - a ELSE b - a) BY Zenon, <1>MinusIs
  <2> HIDE DEF x
  <2>3. y \in Nat /\ (y = b + k \/ (y >= UINT /\ y - UINT = b + k)) BY <2>1, <2>2 DEF Index
  <2> HIDE DEF y
  <2>4. CASE y = b + k BY Zenon, <2>4 DEF x, y
  <2>5. CASE y >= UINT /\ y - UINT = b + k
    <3>1. (y - UINT) % INPUT_BUF_SIZE = y % INPUT_BUF_SIZE BY <2>3, <2>5, <1>PlaceWraps, Zenon
    <3> QED BY Zenon, <2>5, <3>1 DEF x, y
  <2> QED BY Zenon, <2>3, <2>4, <2>5

\* The k-th place after the next index.
<1>PlaceInc. ASSUME NEW a \in Index, NEW k \in Nat
             PROVE (C!Inc(a) + k) % INPUT_BUF_SIZE = (a + 1 + k) % INPUT_BUF_SIZE
  <2> USE <1>PlaceInc
  <2> DEFINE ia == C!Inc(a)
  <2>1. UINT \in Nat \ {0} BY Zenon, <1>ConsFacts
  <2>2. ia = (IF a + 1 < UINT THEN a + 1 ELSE 0) BY Zenon, <1>IncIs
  <2> HIDE DEF ia
  <2>3. CASE a + 1 < UINT BY Zenon, <2>2, <2>3 DEF ia
  <2>4. CASE ~(a + 1 < UINT)
    <3>1. a + 1 + k \in Nat /\ a + 1 + k >= UINT /\ (a + 1 + k) - UINT = ia + k
      BY <2>1, <2>2, <2>4 DEF Index
    <3>2. ((a + 1 + k) - UINT) % INPUT_BUF_SIZE = (a + 1 + k) % INPUT_BUF_SIZE BY <3>1, <1>PlaceWraps, Zenon
    <3> QED BY Zenon, <3>1, <3>2 DEF ia
  <2> QED BY Zenon, <2>3, <2>4

\* Sequences with the same elements are the same.
<1>SameSeq. ASSUME NEW P, NEW u \in Seq(P), NEW v \in Seq(P), Len(u) = Len(v),
                   \A j \in 1..Len(u) : u[j] = v[j]
            PROVE u = v
  BY <1>SameSeq

\* One element more.
<1>AppendIs. ASSUME NEW P, NEW s \in Seq(P), NEW t \in Seq(P), NEW c \in P, Len(t) = Len(s) + 1,
                    \A x \in 1..Len(s) : t[x] = s[x], t[Len(s) + 1] = c
             PROVE t = Append(s, c)
  <2> USE <1>AppendIs
  <2>1. Append(s, c) \in Seq(P) /\ Len(Append(s, c)) = Len(s) + 1 OBVIOUS
  <2>2. \A x \in 1..Len(t) : t[x] = Append(s, c)[x] OBVIOUS
  <2> QED BY <2>1, <2>2, <1>SameSeq, Zenon

\* One sequence behind another one.
<1>ConcatIs. ASSUME NEW P, NEW s \in Seq(P), NEW t \in Seq(P), NEW u \in Seq(P),
                    Len(u) = Len(s) + Len(t),
                    \A x \in 1..Len(s) : u[x] = s[x],
                    \A x \in 1..Len(t) : u[Len(s) + x] = t[x]
             PROVE u = s \o t
  <2> USE <1>ConcatIs
  <2>1. s \o t \in Seq(P) /\ Len(s \o t) = Len(s) + Len(t) OBVIOUS
  <2>2. \A j \in 1..(Len(s) + Len(t)) :
                             (s \o t)[j] = IF j <= Len(s) THEN s[j] ELSE t[j - Len(s)]
    OBVIOUS
  <2>3. ASSUME NEW x \in 1..Len(u) PROVE u[x] = (s \o t)[x]
    <3>0. Len(s) \in Nat /\ Len(t) \in Nat OBVIOUS
    <3>1. CASE x <= Len(s) BY <2>2, <3>0, <3>1
    <3>2. CASE ~(x <= Len(s))
      <4>1. x - Len(s) \in 1..Len(t) /\ Len(s) + (x - Len(s)) = x BY <3>0, <3>2
      <4>2. u[Len(s) + (x - Len(s))] = t[x - Len(s)] BY Zenon, <4>1
      <4> QED BY Zenon, <2>2, <3>2, <4>1, <4>2
    <3> QED BY Zenon, <3>1, <3>2
  <2> QED BY <2>1, <2>3, <1>SameSeq, Zenon

\* One element less.
<1>TailIs. ASSUME NEW P, NEW s \in Seq(P), NEW t \in Seq(P), Len(s) = Len(t) + 1,
                  \A x \in 1..Len(t) : t[x] = s[x + 1]
           PROVE t = Tail(s)
  <2> USE <1>TailIs
  <2>1. Tail(s) \in Seq(P) /\ Len(Tail(s)) = Len(t) OBVIOUS
  <2>2. \A x \in 1..Len(t) : Tail(s)[x] = s[x + 1] OBVIOUS
  <2>3. \A x \in 1..Len(t) : t[x] = Tail(s)[x] BY Zenon, <2>2
  <2> QED BY <2>1, <2>3, <1>SameSeq, Zenon

\* A cut is a sequence.
<1>CutSeq. ASSUME NEW f \in Bufs, NEW a \in Nat, NEW k \in Nat
           PROVE /\ Cut(f, a, k) \in Seq(Char) /\ Len(Cut(f, a, k)) = k
                 /\ \A x \in 1..k : /\ Cut(f, a, k)[x] = f[(a + x - 1) % INPUT_BUF_SIZE]
                                    /\ (a + x - 1) % INPUT_BUF_SIZE \in Place
  <2> USE <1>CutSeq
  <2>1. INPUT_BUF_SIZE \in Nat \ {0} BY Zenon, <1>ConsFacts
  <2>2. ASSUME NEW x \in 1..k PROVE (a + x - 1) % INPUT_BUF_SIZE \in Place
    <3> DEFINE y == a + x - 1
    <3>1. y \in Nat OBVIOUS
    <3> HIDE DEF y
    <3>2. y % INPUT_BUF_SIZE \in Place BY <2>1, <3>1 DEF Place
    <3> QED BY Zenon, <3>2 DEF y
  <2>3. \A x \in 1..k : f[(a + x - 1) % INPUT_BUF_SIZE] \in Char BY <2>2, Zenon DEF Bufs
  <2> DEFINE s == Cut(f, a, k)
  <2>4. s \in [1..k -> Char] BY <2>3, Zenon DEF Cut
  <2>5. \A x \in 1..k : s[x] = f[(a + x - 1) % INPUT_BUF_SIZE] BY Zenon DEF Cut
  <2> HIDE DEF s
  <2>6. s \in Seq(Char) /\ Len(s) = k BY <2>4
  <2> QED BY <2>2, <2>5, <2>6, Zenon DEF s

\* A place that is written after the cut leaves it alone.
<1>CutSame. ASSUME NEW f \in Bufs, NEW a \in Nat, NEW k \in Nat, NEW h \in Nat,
                   k <= h, h < INPUT_BUF_SIZE, NEW c
            PROVE Cut(Put(f, a + h, c), a, k) = Cut(f, a, k)
  <2> USE <1>CutSame
  <2> DEFINE g == Put(f, a + h, c)
  <2>1. INPUT_BUF_SIZE \in Nat \ {0} BY Zenon, <1>ConsFacts
  <2>2. ASSUME NEW x \in 1..k PROVE g[(a + x - 1) % INPUT_BUF_SIZE] = f[(a + x - 1) % INPUT_BUF_SIZE]
    <3> DEFINE y == a + x - 1
               d == h - x + 1
               z == a + h
    <3>1. y \in Nat /\ d \in 1..(INPUT_BUF_SIZE - 1) /\ z = y + d BY <2>1
    <3>0. g = [f EXCEPT ![z % INPUT_BUF_SIZE] = c] BY Zenon DEF Put
    <3> HIDE DEF y, d, z, g
    <3>2. (y + d) % INPUT_BUF_SIZE # y % INPUT_BUF_SIZE BY <2>1, <3>1, <1>Apart, Zenon
    <3>3. y % INPUT_BUF_SIZE \in Place BY <2>1, <3>1 DEF Place
    <3>4. g[y % INPUT_BUF_SIZE] = f[y % INPUT_BUF_SIZE] BY <3>0, <3>1, <3>2, <3>3, Zenon DEF Bufs
    <3> QED BY Zenon, <3>4 DEF y
  <2> QED BY <2>2, Zenon DEF Cut

\* A character is put behind the cut.
<1>CutPut. ASSUME NEW f \in Bufs, NEW a \in Nat, NEW k \in Nat,
                  k < INPUT_BUF_SIZE, NEW c \in Char
           PROVE /\ Put(f, a + k, c) \in Bufs
                 /\ Cut(Put(f, a + k, c), a, k + 1) = Append(Cut(f, a, k), c)
  <2> USE <1>CutPut
  <2> DEFINE g == Put(f, a + k, c)
  <2>1. INPUT_BUF_SIZE \in Nat \ {0} BY Zenon, <1>ConsFacts
  <2> DEFINE s == Cut(f, a, k)
             t == Cut(g, a, k + 1)
             z == a + k
  <2>2. z \in Nat /\ k + 1 \in Nat /\ a + (k + 1) - 1 = z /\ k + 1 \in 1..(k + 1) OBVIOUS
  <2>3. g = [f EXCEPT ![z % INPUT_BUF_SIZE] = c] BY Zenon DEF Put
  <2>4. \A x \in 1..k : s[x] = g[(a + x - 1) % INPUT_BUF_SIZE]
    <3>1. k <= k OBVIOUS
    <3>2. Cut(Put(f, a + k, c), a, k) = Cut(f, a, k)
      <4> HIDE DEF s, t, g, z
      <4> QED BY <3>1, <1>CutSame
    <3>3. \A x \in 1..k : Cut(g, a, k)[x] = g[(a + x - 1) % INPUT_BUF_SIZE] BY Zenon DEF Cut
    <3> QED BY <3>2, <3>3, Zenon
  <2> HIDE DEF z, g
  <2>5. z % INPUT_BUF_SIZE \in Place BY <2>1, <2>2 DEF Place
  <2>6. g \in Bufs /\ g[z % INPUT_BUF_SIZE] = c BY <2>3, <2>5, Zenon DEF Bufs
  <2>7. s \in Seq(Char) /\ Len(s) = k BY <1>CutSeq, Zenon
  <2>8. t \in Seq(Char) /\ Len(t) = k + 1 BY <2>2, <2>6, <1>CutSeq, Zenon
  <2>9. \A x \in 1..(k + 1) : t[x] = g[(a + x - 1) % INPUT_BUF_SIZE] BY <2>2, <2>6, <1>CutSeq, Zenon
  <2>10. t[k + 1] = c BY <2>2, <2>6, <2>9, Zenon
  <2>11. \A x \in 1..k : x \in 1..(k + 1) OBVIOUS
  <2>12. \A x \in 1..k : t[x] = s[x] BY <2>4, <2>9, <2>11, Zenon
  <2> HIDE DEF s, t
  <2>13. t = Append(s, c) BY <2>7, <2>8, <2>10, <2>12, <1>AppendIs, Zenon
  <2> QED BY <2>6, <2>13, Zenon DEF s, t, g

\* Two cuts one behind the other.
<1>CutJoin. ASSUME NEW f \in Bufs, NEW a \in Index, NEW b \in Index, NEW k \in Nat
            PROVE Cut(f, a, C!Minus(b, a) + k) = Cut(f, a, C!Minus(b, a)) \o Cut(f, b, k)
  <2> USE <1>CutJoin
  <2> DEFINE h == C!Minus(b, a)
             s == Cut(f, a, h)
             t == Cut(f, b, k)
             u == Cut(f, a, h + k)
  <2>1. a \in Nat /\ b \in Nat /\ h \in Nat BY <1>MinusIs, <1>ConsFacts DEF Index
  <2>2. \A x \in Nat : (b + x) % INPUT_BUF_SIZE = (a + h + x) % INPUT_BUF_SIZE BY <1>PlaceOf, Zenon
  <2> HIDE DEF h
  <2>3. h + k \in Nat BY <2>1
  <2>4. s \in Seq(Char) /\ Len(s) = h BY <2>1, <1>CutSeq, Zenon
  <2>5. t \in Seq(Char) /\ Len(t) = k BY <2>1, <1>CutSeq, Zenon
  <2>6. u \in Seq(Char) /\ Len(u) = h + k BY <2>1, <2>3, <1>CutSeq, Zenon
  <2>7. /\ \A x \in 1..h : s[x] = f[(a + x - 1) % INPUT_BUF_SIZE]
        /\ \A x \in 1..k : t[x] = f[(b + x - 1) % INPUT_BUF_SIZE]
        /\ \A x \in 1..(h + k) : u[x] = f[(a + x - 1) % INPUT_BUF_SIZE]
    BY Zenon DEF Cut
  <2> HIDE DEF s, t, u
  <2>8. \A x \in 1..h : x \in 1..(h + k) BY <2>1
  <2>9. \A x \in 1..h : u[x] = s[x] BY <2>7, <2>8, Zenon
  <2>10. ASSUME NEW x \in 1..k PROVE u[h + x] = t[x]
    <3>1. /\ x - 1 \in Nat /\ b + x - 1 = b + (x - 1) /\ a + (h + x) - 1 = a + h + (x - 1)
          /\ h + x \in 1..(h + k)
      BY <2>1
    <3>2. (b + (x - 1)) % INPUT_BUF_SIZE = (a + h + (x - 1)) % INPUT_BUF_SIZE BY <2>2, <3>1, Zenon
    <3>3. u[h + x] = f[(a + (h + x) - 1) % INPUT_BUF_SIZE] BY <2>7, <3>1, Zenon
    <3>4. t[x] = f[(b + x - 1) % INPUT_BUF_SIZE] BY <2>7, Zenon
    <3> QED BY <3>1, <3>2, <3>3, <3>4, Zenon
  <2>11. u = s \o t BY <2>4, <2>5, <2>6, <2>9, <2>10, <1>ConcatIs, Zenon
  <2> QED BY Zenon, <2>11 DEF s, t, u, h

\* The last character is left out.
<1>CutBack. ASSUME NEW f \in Bufs, NEW a \in Nat, NEW k \in Nat \ {0}
            PROVE Cut(f, a, k - 1) = SubSeq(Cut(f, a, k), 1, Len(Cut(f, a, k)) - 1)
  <2> USE <1>CutBack
  <2> DEFINE s == Cut(f, a, k)
             t == Cut(f, a, k - 1)
             F(x) == f[(a + x - 1) % INPUT_BUF_SIZE]
  <2>1. s \in Seq(Char) /\ Len(s) = k BY <1>CutSeq, Zenon
  <2>2. s = [x \in 1..k |-> F(x)] /\ t = [x \in 1..(k - 1) |-> F(x)] BY Zenon DEF Cut
  <2> HIDE DEF s, t, F
  <2>3. t = [x \in 1..(k - 1) |-> s[x]]
    <3>1. \A x \in 1..(k - 1) : F(x) = s[x] BY <2>2
    <3> QED BY <2>2, <3>1, Zenon
  <2>4. SubSeq(s, 1, Len(s) - 1) = [x \in 1..(k - 1) |-> s[x]] BY <2>1
  <2>5. t = SubSeq(s, 1, Len(s) - 1) BY Zenon, <2>3, <2>4
  <2> QED BY Zenon, <2>5 DEF s, t

\* The first character is left out.
<1>CutTail. ASSUME NEW f \in Bufs, NEW a \in Index, NEW k \in Nat \ {0}
            PROVE Cut(f, C!Inc(a), k - 1) = Tail(Cut(f, a, k))
  <2> USE <1>CutTail
  <2> DEFINE b == C!Inc(a)
             s == Cut(f, a, k)
             t == Cut(f, b, k - 1)
  <2>1. a \in Nat /\ b \in Nat /\ k - 1 \in Nat /\ k \in Nat BY <1>IncIs, <1>ConsFacts DEF Index
  <2>2. \A x \in Nat : (b + x) % INPUT_BUF_SIZE = (a + 1 + x) % INPUT_BUF_SIZE BY <1>PlaceInc, Zenon
  <2> HIDE DEF b
  <2>3. s \in Seq(Char) /\ Len(s) = k BY <2>1, <1>CutSeq, Zenon
  <2>4. t \in Seq(Char) /\ Len(t) = k - 1 BY <2>1, <1>CutSeq, Zenon
  <2>5. /\ \A x \in 1..k : s[x] = f[(a + x - 1) % INPUT_BUF_SIZE]
        /\ \A x \in 1..(k - 1) : t[x] = f[(b + x - 1) % INPUT_BUF_SIZE]
    BY Zenon DEF Cut
  <2> HIDE DEF s, t
  <2>6. ASSUME NEW x \in 1..(k - 1) PROVE t[x] = s[x + 1]
    <3>1. /\ x - 1 \in Nat /\ b + x - 1 = b + (x - 1) /\ a + (x + 1) - 1 = a + 1 + (x - 1)
          /\ x + 1 \in 1..k
      BY <2>1
    <3>2. (b + (x - 1)) % INPUT_BUF_SIZE = (a + 1 + (x - 1)) % INPUT_BUF_SIZE BY <2>2, <3>1, Zenon
    <3>3. s[x + 1] = f[(a + (x + 1) - 1) % INPUT_BUF_SIZE] BY <2>5, <3>1, Zenon
    <3>4. t[x] = f[(b + x - 1) % INPUT_BUF_SIZE] BY <2>5, Zenon
    <3> QED BY <3>1, <3>2, <3>3, <3>4, Zenon
  <2>7. Len(s) = Len(t) + 1 BY <2>1, <2>3, <2>4
  <2>8. t = Tail(s) BY <2>3, <2>4, <2>6, <2>7, <1>TailIs, Zenon
  <2> QED BY Zenon, <2>8 DEF s, t, b

\* input and line are cuts of the ring, before and after a step.
<1>Views. /\ C!input = Cut(buf, r, C!Minus(w, r)) /\ C!line = Cut(buf, w, C!Minus(e, w))
          /\ C!input' = Cut(buf', r', C!Minus(w', r')) /\ C!line' = Cut(buf', w', C!Minus(e', w'))
  BY Zenon DEF C!input, C!line, C!Slice, C!At, C!Minus, Cut

\* Their lengths, and how they fill the ring.
<1>Lengths. ASSUME ConsInv
            PROVE /\ C!Minus(w, r) \in Nat /\ C!Minus(e, w) \in Nat
                  /\ C!input \in Seq(Char) /\ Len(C!input) = C!Minus(w, r)
                  /\ C!line \in Seq(Char) /\ Len(C!line) = C!Minus(e, w)
                  /\ C!Minus(e, r) = C!Minus(w, r) + C!Minus(e, w)
                  /\ C!Minus(e, r) <= INPUT_BUF_SIZE
  <2> USE <1>Lengths
  <2>1. r \in Index /\ w \in Index /\ e \in Index /\ buf \in Bufs BY Zenon DEF ConsInv, ConsTypes
  <2>2. C!Minus(w, r) \in Index /\ C!Minus(e, w) \in Index BY <2>1, <1>MinusIs, Zenon
  <2> DEFINE i == C!Minus(w, r)
             j == C!Minus(e, w)
  <2>3. i + j <= INPUT_BUF_SIZE BY Zenon DEF ConsInv, Fits
  <2> HIDE DEF i, j
  <2>4. i \in Nat /\ j \in Nat /\ r \in Nat /\ w \in Nat BY <2>1, <2>2, <1>ConsFacts DEF Index, i, j
  <2>5. i + j < UINT BY <2>3, <2>4, <1>ConsFacts
  <2>6. C!Minus(e, r) = i + j BY Zenon, <2>1, <2>5, <1>MinusSum DEF i, j
  <2>7. C!input = Cut(buf, r, i) /\ C!line = Cut(buf, w, j) BY Zenon, <1>Views DEF i, j
  <2>8. Cut(buf, r, i) \in Seq(Char) /\ Len(Cut(buf, r, i)) = i BY <2>1, <2>4, <1>CutSeq, Zenon
  <2>9. Cut(buf, w, j) \in Seq(Char) /\ Len(Cut(buf, w, j)) = j BY <2>1, <2>4, <1>CutSeq, Zenon
  <2> QED BY Zenon, <2>3, <2>4, <2>6, <2>7, <2>8, <2>9 DEF i, j

\* Steps that leave the ring alone leave input and line alone.
<1>RingSame. ASSUME Fits, Open, UNCHANGED <<buf, r, w, e>>
             PROVE Fits' /\ Open' /\ C!input' = C!input /\ C!line' = C!line
  <2> USE <1>RingSame
  <2>1. buf' = buf /\ r' = r /\ w' = w /\ e' = e BY Zenon
  <2>2. C!input' = C!input /\ C!line' = C!line BY <2>1, <1>Views, Zenon
  <2>3. Fits' BY Zenon, <2>1 DEF Fits, C!Minus
  <2>4. Open' BY Zenon, <2>2 DEF Open, C!Ends
  <2> QED BY Zenon, <2>2, <2>3, <2>4

\* A character that is typed: the line grows, or it is finished and the readers
\* are woken.
<1>StoreStep. ASSUME ConsInv, NEW c \in C!Stored, C!store(c)
              PROVE ConsInv' /\ C!LI!Type(c)
  <2> USE <1>StoreStep
  <2> DEFINE i == C!Minus(w, r)
             j == C!Minus(e, w)
             s == C!input
             t == C!line
  <2>1. /\ lock = None /\ C!Minus(e, r) < INPUT_BUF_SIZE /\ e' = C!Inc(e) /\ r' = r
        /\ buf' = Put(buf, e, c)
        /\ lock' = lock /\ n' = n /\ target' = target /\ killed' = killed
        /\ IF c \in C!Ends \/ C!Minus(e', r) = INPUT_BUF_SIZE
           THEN w' = e' /\ cpc' = C!Woken ELSE w' = w /\ cpc' = cpc
    BY Zenon DEF C!store, Put
  <2>2. r \in Index /\ w \in Index /\ e \in Index /\ buf \in Bufs BY Zenon DEF ConsInv, ConsTypes
  <2>3. /\ i \in Nat /\ j \in Nat /\ s \in Seq(Char) /\ Len(s) = i /\ t \in Seq(Char) /\ Len(t) = j
        /\ C!Minus(e, r) = i + j /\ s = Cut(buf, r, i) /\ t = Cut(buf, w, j)
    BY <1>Lengths, <1>Views, Zenon
  <2>4. INPUT_BUF_SIZE \in Nat /\ UINT \in Nat /\ INPUT_BUF_SIZE < UINT /\ c \in Char
    BY Zenon, <1>ConsFacts DEF Char
  <2>5. e' \in Index BY Zenon, <2>1, <2>2, <1>IncIs
  <2>6. /\ C!Minus(e, r) < UINT - 1 => C!Minus(C!Inc(e), r) = C!Minus(e, r) + 1
        /\ C!Minus(e, w) < UINT - 1 => C!Minus(C!Inc(e), w) = C!Minus(e, w) + 1
    BY <2>2, <1>MinusInc, Zenon
  <2> HIDE DEF i, j, s, t
  <2>7. i + j < INPUT_BUF_SIZE BY Zenon, <2>1, <2>3
  <2>8. C!Minus(e', r) = i + j + 1 /\ C!Minus(e', w) = j + 1
    <3>1. i + j < UINT - 1 /\ j < UINT - 1 BY <2>3, <2>4, <2>7
    <3>2. C!Minus(e', r) = i + j + 1 BY <2>1, <2>3, <2>6, <3>1, Zenon
    <3>3. C!Minus(e', w) = j + 1 BY <2>1, <2>6, <3>1, Zenon DEF j
    <3> QED BY Zenon, <3>2, <3>3
  <2>9. buf' = Put(buf, w + j, c) /\ buf' = Put(buf, r + (i + j), c)
    <3>1. (e + 0) % INPUT_BUF_SIZE = (w + j + 0) % INPUT_BUF_SIZE BY <2>2, <1>PlaceOf DEF j
    <3>2. (e + 0) % INPUT_BUF_SIZE = (r + (i + j) + 0) % INPUT_BUF_SIZE BY <2>2, <2>3, <1>PlaceOf
    <3>3. e + 0 = e /\ w + j + 0 = w + j /\ r + (i + j) + 0 = r + (i + j) BY <2>2, <2>3, <2>4 DEF Index
    <3>4. e % INPUT_BUF_SIZE = (w + j) % INPUT_BUF_SIZE BY <3>1, <3>3, Zenon
    <3>5. e % INPUT_BUF_SIZE = (r + (i + j)) % INPUT_BUF_SIZE BY <3>2, <3>3, Zenon
    <3> QED BY <2>1, <3>4, <3>5, Zenon DEF Put
  <2>10. r \in Nat /\ w \in Nat /\ i + j \in Nat /\ i <= i + j /\ j < INPUT_BUF_SIZE /\ j + 1 \in Nat
    BY <2>2, <2>3, <2>4, <2>7 DEF Index
  <2>11. Cut(buf', w, j + 1) = Append(t, c) /\ buf' \in Bufs
    <3>1. /\ Put(buf, w + j, c) \in Bufs
          /\ Cut(Put(buf, w + j, c), w, j + 1) = Append(Cut(buf, w, j), c)
      BY <2>2, <2>3, <2>4, <2>10, <1>CutPut
    <3> QED BY <2>3, <2>9, <3>1, Zenon
  <2>12. Cut(buf', r, i) = s
    <3>1. Cut(Put(buf, r + (i + j), c), r, i) = Cut(buf, r, i) BY <2>2, <2>3, <2>7, <2>10, <1>CutSame
    <3> QED BY <2>3, <2>9, <3>1, Zenon
  <2>13. \A p \in Reader : cpc[p] \notin {"loop", "sleep"}
    BY Zenon, <2>1, <1>ConsFacts DEF ConsInv, ReadInv
  <2>14. Append(t, c) \in Seq(Char) /\ Len(Append(t, c)) = j + 1 BY <2>3, <2>4
  <2>15. CASE ~(c \in C!Ends \/ C!Minus(e', r) = INPUT_BUF_SIZE)
    <3>1. w' = w /\ cpc' = cpc BY Zenon, <2>1, <2>15
    <3>2. C!Minus(w', r') = i /\ C!Minus(e', w') = j + 1 BY <2>1, <2>8, <3>1, Zenon DEF i
    <3>3. C!input' = s /\ C!line' = Append(t, c) BY <2>1, <2>11, <2>12, <3>1, <3>2, <1>Views, Zenon
    <3>4. ConsTypes' BY Zenon, <2>1, <2>5, <2>11, <3>1 DEF ConsInv, ConsTypes
    <3>5. ReadInv' BY Zenon, <2>1, <3>1 DEF ConsInv, ReadInv
    <3>6. Fits'
      <4>1. i + (j + 1) <= INPUT_BUF_SIZE BY <2>3, <2>4, <2>7
      <4> QED BY Zenon, <3>2, <4>1 DEF Fits, C!Minus
    <3>7. \A k \in 1..Len(Append(t, c)) : Append(t, c)[k] \notin C!Ends
      <4>1. \A k \in 1..j : Append(t, c)[k] = t[k] BY <2>3, <2>4
      <4>2. Append(t, c)[j + 1] = c BY <2>3, <2>4
      <4>3. \A k \in 1..j : t[k] \notin C!Ends BY Zenon, <2>3 DEF ConsInv, Open, t
      <4>4. \A k \in 1..(j + 1) : k \in 1..j \/ k = j + 1 BY <2>3
      <4> QED BY <2>14, <2>15, <4>1, <4>2, <4>3, <4>4, Zenon
    <3>8. Open' BY Zenon, <3>3, <3>7 DEF Open, C!Ends
    <3>9. i + (j + 1) # INPUT_BUF_SIZE BY <2>3, <2>4, <2>8, <2>15
    <3>10. C!LI!Type(c) BY <2>3, <2>7, <2>14, <2>15, <3>3, <3>9, Zenon DEF C!LI!Type, s, t
    <3> QED BY Zenon, <3>4, <3>5, <3>6, <3>8, <3>10 DEF ConsInv
  <2>16. CASE c \in C!Ends \/ C!Minus(e', r) = INPUT_BUF_SIZE
    <3>1. w' = e' /\ cpc' = C!Woken BY Zenon, <2>1, <2>16
    <3>2. C!Minus(e', e') = 0 BY Zenon, <2>5, <1>MinusInc
    <3>3. C!Minus(w', r') = i + (j + 1) /\ C!Minus(e', w') = 0
      <4>1. i + (j + 1) = i + j + 1 BY <2>3
      <4> QED BY <2>1, <2>8, <3>1, <3>2, <4>1, Zenon
    <3>4. Cut(buf', r, i + (j + 1)) = s \o Append(t, c)
      <4>1. Cut(buf', r, C!Minus(w, r) + (j + 1)) = Cut(buf', r, C!Minus(w, r)) \o Cut(buf', w, j + 1)
        BY <2>2, <2>10, <2>11, <1>CutJoin
      <4> QED BY <2>11, <2>12, <4>1, Zenon DEF i
    <3>5. C!input' = s \o Append(t, c) BY <2>1, <3>3, <3>4, <1>Views, Zenon
    <3>6. C!line' = <<>>
      <4>1. e' \in Nat /\ 0 \in Nat BY <2>4, <2>5 DEF Index
      <4>2. Cut(buf', e', 0) \in Seq(Char) /\ Len(Cut(buf', e', 0)) = 0 BY Zenon, <2>11, <4>1, <1>CutSeq
      <4>3. C!line' = Cut(buf', e', 0) BY <3>1, <3>3, <1>Views, Zenon
      <4> DEFINE v == Cut(buf', e', 0)
      <4> HIDE DEF v
      <4>4. v = <<>> BY <4>2 DEF v
      <4> QED BY Zenon, <4>3, <4>4 DEF v
    <3>7. cpc' = [p \in Reader |-> IF cpc[p] = "asleep" THEN "acquire" ELSE cpc[p]] BY Zenon, <3>1 DEF C!Woken
    <3>8. ConsTypes'
      <4>1. cpc' \in [Reader -> {"out", "acquire", "loop", "sleep", "asleep"}]
        BY Zenon, <3>7 DEF ConsInv, ConsTypes
      <4> QED BY Zenon, <2>1, <2>5, <2>11, <3>1, <4>1 DEF ConsInv, ConsTypes
    <3>9. \A p \in Reader : cpc'[p] \notin {"loop", "sleep", "asleep"} BY Zenon, <2>13, <3>7
    <3>10. ReadInv' BY Zenon, <2>1, <3>9 DEF ConsInv, ReadInv
    <3>11. Fits'
      <4>1. i + (j + 1) + 0 <= INPUT_BUF_SIZE BY <2>3, <2>4, <2>7
      <4> QED BY Zenon, <3>3, <4>1 DEF Fits, C!Minus
    <3>12. Open' BY <3>6 DEF Open
    <3>13. c \in C!Ends \/ i + (j + 1) = INPUT_BUF_SIZE BY <2>3, <2>4, <2>8, <2>16
    <3>14. C!LI!Type(c) BY <2>3, <2>7, <2>14, <3>5, <3>6, <3>13, Zenon DEF C!LI!Type, s, t
    <3> QED BY Zenon, <3>8, <3>10, <3>11, <3>12, <3>14 DEF ConsInv
  <2> QED BY Zenon, <2>15, <2>16

\* Steps of consoleintr() that only move e back leave the readers alone.
<1>EditSame. ASSUME ConsInv, NEW k \in 0..C!Minus(e, w), e' = C!Minus(e, k),
                    UNCHANGED <<buf, r, w, lock, cpc, n, target, killed>>
             PROVE /\ ConsTypes' /\ ReadInv' /\ Fits' /\ C!input' = C!input
                   /\ C!line' = Cut(buf, w, C!Minus(e, w) - k)
  <2> USE <1>EditSame
  <2>1. r \in Index /\ w \in Index /\ e \in Index /\ buf \in Bufs BY Zenon DEF ConsInv, ConsTypes
  <2>2. e' \in Index /\ C!Minus(e', w) = C!Minus(e, w) - k BY <2>1, <1>MinusBack, Zenon
  <2>3. buf' = buf /\ r' = r /\ w' = w BY Zenon
  <2>4. ConsTypes' BY Zenon, <2>2 DEF ConsInv, ConsTypes
  <2>5. ReadInv' BY Zenon DEF ConsInv, ReadInv
  <2>6. Fits'
    <3> DEFINE i == C!Minus(w, r)
               j == C!Minus(e, w)
    <3>1. i \in Nat /\ j \in Nat /\ i + j <= INPUT_BUF_SIZE /\ k \in 0..j BY Zenon, <1>Lengths DEF ConsInv, Fits
    <3>2. C!Minus(w', r') = i /\ C!Minus(e', w') = j - k BY <2>2, <2>3, Zenon
    <3> HIDE DEF i, j
    <3>3. i + (j - k) <= INPUT_BUF_SIZE BY <3>1, <1>ConsFacts
    <3> QED BY Zenon, <3>2, <3>3 DEF Fits, C!Minus
  <2>7. C!input' = C!input BY <2>3, <1>Views, Zenon
  <2>8. C!line' = Cut(buf, w, C!Minus(e, w) - k) BY <2>2, <2>3, <1>Views, Zenon
  <2> QED BY Zenon, <2>4, <2>5, <2>6, <2>7, <2>8

\* Backspace takes back the last character of the line.
<1>BackStep. ASSUME ConsInv, C!backspace
             PROVE ConsInv' /\ C!LI!Erase
  <2> USE <1>BackStep
  <2> DEFINE j == C!Minus(e, w)
             t == C!line
  <2>1. /\ e # w /\ e' = C!Minus(e, 1) /\ UNCHANGED <<buf, r, w, lock, cpc, n, target, killed>>
    BY Zenon DEF C!backspace
  <2>2. r \in Index /\ w \in Index /\ e \in Index /\ buf \in Bufs BY Zenon DEF ConsInv, ConsTypes
  <2>3. j \in Nat /\ t \in Seq(Char) /\ Len(t) = j /\ t = Cut(buf, w, j) BY Zenon, <1>Lengths, <1>Views
  <2>4. j # 0 BY Zenon, <2>1, <2>2, <1>MinusInc
  <2> HIDE DEF t
  <2>5. 1 \in 0..j /\ j \in Nat \ {0} /\ w \in Nat BY <2>2, <2>3, <2>4, <1>ConsFacts DEF Index
  <2>6. ConsTypes' /\ ReadInv' /\ Fits' /\ C!input' = C!input /\ C!line' = Cut(buf, w, j - 1)
    BY Zenon, <2>1, <2>5, <1>EditSame
  <2> HIDE DEF j
  <2>7. Cut(buf, w, j - 1) = SubSeq(t, 1, Len(t) - 1)
    <3>1. Cut(buf, w, j - 1) = SubSeq(Cut(buf, w, j), 1, Len(Cut(buf, w, j)) - 1) BY Zenon, <2>2, <2>5, <1>CutBack
    <3> QED BY <2>3, <3>1, Zenon
  <2>8. t # <<>> BY Zenon, <2>3, <2>5
  <2>9. C!LI!Erase BY <2>6, <2>7, <2>8, Zenon DEF C!LI!Erase, t
  <2>10. Open'
    <3>1. \A k \in 1..j : t[k] \notin C!Ends BY Zenon, <2>3 DEF ConsInv, Open, t
    <3> DEFINE u == SubSeq(t, 1, Len(t) - 1)
    <3>2. Len(u) = j - 1 /\ \A k \in 1..(j - 1) : u[k] = t[k] BY <2>3, <2>5
    <3> HIDE DEF u
    <3>3. \A k \in 1..(j - 1) : k \in 1..j BY <2>3
    <3>4. \A k \in 1..Len(u) : u[k] \notin C!Ends BY <3>1, <3>2, <3>3, Zenon
    <3>5. C!line' = u BY Zenon, <2>6, <2>7 DEF u
    <3> QED BY Zenon, <3>4, <3>5 DEF Open, C!Ends
  <2> QED BY Zenon, <2>6, <2>9, <2>10 DEF ConsInv

\* Control-U takes back the whole line: there is no newline in it to stop at.
<1>KillStep. ASSUME ConsInv, C!kill_line
             PROVE ConsInv' /\ C!LI!KillLine
  <2> USE <1>KillStep
  <2> DEFINE j == C!Minus(e, w)
             t == C!line
  <2>1. PICK k \in 1..j : (k = j \/ C!At(C!Minus(e, k + 1)) = C!NL) /\ e' = C!Minus(e, k)
    BY Zenon DEF C!kill_line
  <2>2. UNCHANGED <<buf, r, w, lock, cpc, n, target, killed>> BY Zenon DEF C!kill_line
  <2>3. r \in Index /\ w \in Index /\ e \in Index /\ buf \in Bufs BY Zenon DEF ConsInv, ConsTypes
  <2>4. j \in Nat /\ t \in Seq(Char) /\ Len(t) = j /\ t = Cut(buf, w, j) BY Zenon, <1>Lengths, <1>Views
  <2>5. \A x \in 1..j : t[x] \notin C!Ends BY Zenon, <2>4 DEF ConsInv, Open
  <2> HIDE DEF t
  <2>6. k = j
    <3> SUFFICES ASSUME k # j PROVE FALSE BY Zenon
    <3> DEFINE b == C!Minus(e, k + 1)
               d == j - (k + 1)
    <3>1. k + 1 \in 0..j /\ d \in Nat /\ d + 1 \in 1..j /\ w \in Nat BY <2>3, <2>4, <1>ConsFacts DEF Index
    <3>2. b \in Index /\ C!Minus(b, w) = d BY <2>3, <3>1, <1>MinusBack, Zenon
    <3>3. (b + 0) % INPUT_BUF_SIZE = (w + d + 0) % INPUT_BUF_SIZE
      <4> HIDE DEF b, d
      <4>1. 0 \in Nat BY Zenon
      <4> QED BY <2>3, <3>2, <4>1, <1>PlaceOf, Zenon
    <3>4. C!At(b) = C!NL BY Zenon, <2>1
    <3> HIDE DEF b, d, j
    <3>5. b + 0 = b /\ w + d + 0 = w + (d + 1) - 1 BY <3>1, <3>2, <1>ConsFacts DEF Index
    <3>6. b % INPUT_BUF_SIZE = (w + (d + 1) - 1) % INPUT_BUF_SIZE BY <3>3, <3>5, Zenon
    <3>7. t[d + 1] = buf[(w + (d + 1) - 1) % INPUT_BUF_SIZE]
      <4>1. \A x \in 1..j : Cut(buf, w, j)[x] = buf[(w + x - 1) % INPUT_BUF_SIZE] BY Zenon DEF Cut
      <4> QED BY <2>4, <3>1, <4>1, Zenon
    <3>8. t[d + 1] = C!NL BY <3>4, <3>6, <3>7, Zenon DEF C!At
    <3> QED BY <2>5, <3>1, <3>8, Zenon DEF C!Ends
  <2>7. k \in 0..j BY <2>4
  <2>8. ConsTypes' /\ ReadInv' /\ Fits' /\ C!input' = C!input /\ C!line' = Cut(buf, w, j - k)
    BY Zenon, <2>1, <2>2, <2>7, <1>EditSame
  <2> HIDE DEF j
  <2>9. C!line' = <<>>
    <3>1. j - k = 0 /\ w \in Nat /\ 0 \in Nat BY <2>3, <2>4, <2>6, <1>ConsFacts DEF Index
    <3> DEFINE u == Cut(buf, w, 0)
    <3>2. u \in Seq(Char) /\ Len(u) = 0 BY <2>3, <3>1, <1>CutSeq, Zenon
    <3> HIDE DEF u
    <3>3. u = <<>> BY <3>2
    <3> QED BY Zenon, <2>8, <3>1, <3>3 DEF u
  <2>10. Open' BY <2>9 DEF Open
  <2>11. C!LI!KillLine BY <2>8, <2>9, Zenon DEF C!LI!KillLine
  <2> QED BY Zenon, <2>8, <2>10, <2>11 DEF ConsInv

\* A character that is taken is the first of the input.
<1>TakeChar. ASSUME ConsInv, r # w, r' = C!Inc(r), UNCHANGED <<buf, w, e>>
             PROVE r' \in Index /\ Fits' /\ Open' /\ C!LI!Read
  <2> USE <1>TakeChar
  <2> DEFINE i == C!Minus(w, r)
             j == C!Minus(e, w)
             s == C!input
  <2>1. r \in Index /\ w \in Index /\ e \in Index /\ buf \in Bufs BY Zenon DEF ConsInv, ConsTypes
  <2>2. /\ i \in Nat /\ j \in Nat /\ i + j <= INPUT_BUF_SIZE /\ s \in Seq(Char) /\ Len(s) = i
        /\ s = Cut(buf, r, i)
    BY Zenon, <1>Lengths, <1>Views DEF ConsInv, Fits
  <2>3. buf' = buf /\ w' = w /\ e' = e BY Zenon
  <2>4. r' \in Index BY Zenon, <2>1, <1>IncIs
  <2>5. i # 0 /\ C!Minus(w, C!Inc(r)) = i - 1 BY Zenon, <2>1, <1>MinusInc
  <2>6. C!Minus(w', r') = i - 1 /\ C!Minus(e', w') = j BY <2>3, <2>5, Zenon
  <2> HIDE DEF i, j, s
  <2>7. Fits'
    <3>1. (i - 1) + j <= INPUT_BUF_SIZE BY <2>2, <1>ConsFacts
    <3> QED BY Zenon, <2>6, <3>1 DEF Fits, C!Minus
  <2>8. C!line' = C!line BY <2>3, <1>Views, Zenon
  <2>9. Open' BY Zenon, <2>8 DEF ConsInv, Open, C!Ends
  <2>10. C!input' = Tail(s)
    <3>1. i \in Nat \ {0} BY Zenon, <2>2, <2>5
    <3>2. Cut(buf, C!Inc(r), i - 1) = Tail(Cut(buf, r, i)) BY Zenon, <2>1, <3>1, <1>CutTail
    <3> QED BY <2>2, <2>3, <2>6, <3>2, <1>Views, Zenon
  <2>11. s # <<>> BY <2>2, <2>5
  <2>12. C!LI!Read BY <2>8, <2>10, <2>11, Zenon DEF C!LI!Read, s
  <2> QED BY Zenon, <2>4, <2>7, <2>9, <2>12

\* What the steps of a reader that take no character do.
<1>ReaderEffect. ASSUME ConsInv, NEW p \in Reader,
                        \/ \E k \in 0..MaxLen : C!read(p, k)
                        \/ C!acquire(p) \/ C!read_done(p) \/ C!read_killed(p) \/ C!read_empty(p) \/ C!sleep(p)
                        \/ C!kill(p)
                 PROVE \E c, a, b : ReaderMoves(p, c, a, b)
  <2> USE <1>ReaderEffect
  <2>t. /\ MaxLen \in Nat /\ cpc \in [Reader -> {"out", "acquire", "loop", "sleep", "asleep"}]
        /\ n \in [Reader -> 0..MaxLen] /\ target \in [Reader -> 0..MaxLen]
    BY Zenon, <1>ConsFacts DEF ConsInv, ConsTypes
  <2>v. /\ cpc[p] \in {"loop", "sleep"} => lock = p
        /\ cpc[p] \in {"sleep", "asleep"} => r = w
        /\ n[p] <= target[p]
    BY Zenon DEF ConsInv, ReadInv
  <2>s. n = [n EXCEPT ![p] = n[p]] /\ target = [target EXCEPT ![p] = target[p]] BY Zenon, <2>t
  <2>1. ASSUME NEW k \in 0..MaxLen, C!read(p, k) PROVE ReaderMoves(p, "acquire", k, k) BY <2>t, <2>1 DEF C!read, ReaderMoves
  <2>2. ASSUME C!acquire(p) PROVE ReaderMoves(p, "loop", n[p], target[p])
    BY Zenon, <2>t, <2>v, <2>s, <2>2 DEF C!acquire, ReaderMoves
  <2>3. ASSUME C!read_done(p) PROVE ReaderMoves(p, "out", 0, 0)
    BY <2>t, <2>v, <2>3 DEF C!read_done, C!Return, ReaderMoves
  <2>4. ASSUME C!read_killed(p) PROVE ReaderMoves(p, "out", 0, 0)
    BY <2>t, <2>v, <2>4 DEF C!read_killed, C!Return, ReaderMoves
  <2>5. ASSUME C!read_empty(p) PROVE ReaderMoves(p, "sleep", n[p], target[p])
    BY Zenon, <2>t, <2>v, <2>s, <2>5 DEF C!read_empty, ReaderMoves
  <2>6. ASSUME C!sleep(p) PROVE ReaderMoves(p, "asleep", n[p], target[p])
    BY Zenon, <2>t, <2>v, <2>s, <2>6 DEF C!sleep, ReaderMoves
  <2>7. ASSUME C!kill(p) PROVE ReaderMoves(p, C!Woken[p], n[p], target[p])
    <3>1. C!Woken[p] = IF cpc[p] = "asleep" THEN "acquire" ELSE cpc[p] BY Zenon DEF C!Woken
    <3> QED BY Zenon, <2>t, <2>v, <2>s, <2>7, <3>1 DEF C!kill, ReaderMoves
  <2> QED BY <2>1, <2>2, <2>3, <2>4, <2>5, <2>6, <2>7, Zenon

\* The other steps of a reader only change its own state and the lock.
<1>ReaderStep. ASSUME ConsInv, NEW p \in Reader,
                      \/ \E k \in 0..MaxLen : C!read(p, k)
                      \/ C!acquire(p) \/ C!read_done(p) \/ C!read_killed(p) \/ C!read_empty(p) \/ C!sleep(p)
                      \/ C!kill(p)
               PROVE ConsInv' /\ C!input' = C!input /\ C!line' = C!line
  <2> USE <1>ReaderStep
  <2>1. UNCHANGED <<buf, r, w, e>>
    BY Zenon DEF C!read, C!acquire, C!read_done, C!read_killed, C!read_empty, C!sleep, C!kill
  <2>2. Fits' /\ Open' /\ C!input' = C!input /\ C!line' = C!line BY Zenon, <2>1, <1>RingSame DEF ConsInv
  <2>t. ConsTypes BY Zenon DEF ConsInv
  <2>3. PICK c, a, b : ReaderMoves(p, c, a, b) BY <1>ReaderEffect, Zenon
  <2>4. ConsTypes'
    <3>1. killed' \in [Reader -> BOOLEAN]
      BY <2>t, Zenon DEF ConsTypes, C!read, C!acquire, C!read_done, C!read_killed, C!read_empty, C!sleep, C!kill
    <3>2. /\ lock' \in Reader \cup {None} /\ cpc' \in [Reader -> {"out", "acquire", "loop", "sleep", "asleep"}]
          /\ n' \in [Reader -> 0..MaxLen] /\ target' \in [Reader -> 0..MaxLen]
      BY Zenon, <2>t, <2>3 DEF ConsTypes, ReaderMoves
    <3> QED BY Zenon, <2>1, <2>t, <3>1, <3>2 DEF ConsTypes
  <2>5. ReadInv'
    <3> SUFFICES ASSUME NEW q \in Reader
                 PROVE /\ cpc'[q] \in {"loop", "sleep"} => lock' = q
                       /\ cpc'[q] \in {"sleep", "asleep"} => r' = w'
                       /\ n'[q] <= target'[q]
      BY Zenon DEF ReadInv
    <3>1. /\ cpc[q] \in {"loop", "sleep"} => lock = q
          /\ cpc[q] \in {"sleep", "asleep"} => r = w
          /\ n[q] <= target[q]
      BY Zenon DEF ConsInv, ReadInv
    <3>2. CASE q = p BY Zenon, <2>1, <2>t, <2>3, <3>2 DEF ConsTypes, ReaderMoves
    <3>3. CASE q # p
      <4>1. cpc'[q] = cpc[q] /\ n'[q] = n[q] /\ target'[q] = target[q] BY Zenon, <2>t, <2>3, <3>3 DEF ConsTypes, ReaderMoves
      <4>2. cpc[q] \in {"loop", "sleep"} => lock' = q BY Zenon, <2>3, <3>1, <3>3, <1>ConsFacts DEF ReaderMoves
      <4> QED BY Zenon, <2>1, <3>1, <4>1, <4>2
    <3> QED BY Zenon, <3>2, <3>3
  <2> QED BY <2>2, <2>4, <2>5, Zenon DEF ConsInv

\* The steps that look at a character of a finished line.
<1>CharStep. ASSUME ConsInv, NEW p \in Reader, C!read_eof(p) \/ C!read_char(p)
             PROVE ConsInv' /\ (C!LI!Read \/ (C!input' = C!input /\ C!line' = C!line))
  <2> USE <1>CharStep
  <2>1. cpc[p] = "loop" /\ n[p] > 0 /\ r # w /\ UNCHANGED <<buf, w, e, killed>> /\ (r' = r \/ r' = C!Inc(r))
    BY Zenon DEF C!read_eof, C!read_char
  <2>2. r' \in Index /\ Fits' /\ Open' /\ (C!LI!Read \/ (C!input' = C!input /\ C!line' = C!line))
    <3>1. CASE r' = r
      <4>1. r' \in Index BY Zenon, <3>1 DEF ConsInv, ConsTypes
      <4> QED BY Zenon, <2>1, <3>1, <4>1, <1>RingSame DEF ConsInv
    <3>2. CASE r' = C!Inc(r) BY Zenon, <2>1, <3>2, <1>TakeChar
    <3> QED BY Zenon, <2>1, <3>1, <3>2
  <2>t. ConsTypes /\ MaxLen \in Nat BY Zenon, <1>ConsFacts DEF ConsInv
  <2>3. /\ \/ lock' = None /\ cpc' = [cpc EXCEPT ![p] = "out"]
              /\ n' = [n EXCEPT ![p] = 0] /\ target' = [target EXCEPT ![p] = 0]
           \/ lock' = lock /\ cpc' = cpc /\ target' = target /\ n' = [n EXCEPT ![p] = n[p] - 1]
    BY Zenon DEF C!read_eof, C!read_char, C!Return
  <2>4. ConsTypes'
    <3>1. lock' \in Reader \cup {None} /\ cpc' \in [Reader -> {"out", "acquire", "loop", "sleep", "asleep"}]
      BY Zenon, <2>t, <2>3 DEF ConsTypes
    <3>2. n' \in [Reader -> 0..MaxLen] /\ target' \in [Reader -> 0..MaxLen]
      <4>1. 0 \in 0..MaxLen /\ n[p] - 1 \in 0..MaxLen BY <2>1, <2>t DEF ConsTypes
      <4> QED BY <2>t, <2>3, <4>1 DEF ConsTypes
    <3> QED BY Zenon, <2>1, <2>2, <2>t, <3>1, <3>2 DEF ConsTypes
  <2>5. ASSUME NEW q \in Reader
        PROVE /\ cpc'[q] \in {"loop", "sleep"} => lock' = q
              /\ cpc'[q] \notin {"sleep", "asleep"}
              /\ n'[q] <= target'[q]
    <3>1. /\ cpc[q] \in {"loop", "sleep"} => lock = q
          /\ cpc[q] \notin {"sleep", "asleep"}
          /\ n[q] <= target[q] /\ lock = p
      BY Zenon, <2>1 DEF ConsInv, ReadInv
    <3>2. n[q] \in 0..MaxLen /\ target[q] \in 0..MaxLen BY Zenon, <2>t DEF ConsTypes
    <3> QED BY <2>t, <2>3, <3>1, <3>2 DEF ConsTypes
  <2> QED BY Zenon, <2>2, <2>4, <2>5 DEF ConsInv, ReadInv

\* The console keeps its invariant, and every step is one of module LineInput or
\* none there.
<1>ConsSteps. /\ C!Init => ConsInv /\ C!LI!Init
              /\ ConsInv /\ C!Next => ConsInv' /\ (C!LI!Next \/ (C!input' = C!input /\ C!line' = C!line))
              /\ ConsInv /\ UNCHANGED consVars => ConsInv' /\ C!input' = C!input /\ C!line' = C!line
  <2>1. ASSUME C!Init PROVE ConsInv /\ C!LI!Init
    <3>1. /\ buf = [k \in Place |-> C!NUL] /\ r = 0 /\ w = 0 /\ e = 0 /\ lock = None
          /\ cpc = [p \in Reader |-> "out"] /\ n = [p \in Reader |-> 0] /\ target = n
          /\ killed = [p \in Reader |-> FALSE]
      BY Zenon, <2>1 DEF C!Init, Place
    <3>2. 0 \in Index /\ INPUT_BUF_SIZE \in Nat /\ MaxLen \in Nat /\ 0 \in 0..MaxLen BY <1>ConsFacts DEF Index
    <3>3. ConsTypes
      <4>1. buf \in Bufs BY Zenon, <3>1 DEF Bufs, Char
      <4>2. cpc \in [Reader -> {"out", "acquire", "loop", "sleep", "asleep"}] BY Zenon, <3>1
      <4>3. n \in [Reader -> 0..MaxLen] BY Zenon, <3>1, <3>2
      <4>4. killed \in [Reader -> BOOLEAN] BY <3>1, Zenon
      <4> QED BY <3>1, <3>2, <4>1, <4>2, <4>3, <4>4, Zenon DEF ConsTypes
    <3>4. ReadInv BY <3>1 DEF ReadInv
    <3>5. C!Minus(0, 0) = 0 BY Zenon, <3>2, <1>MinusInc
    <3>6. Fits BY <3>1, <3>2, <3>5 DEF Fits
    <3>7. C!input = Cut(buf, 0, 0) /\ C!line = Cut(buf, 0, 0) BY <3>1, <3>5, <1>Views, Zenon
    <3> DEFINE u == Cut(buf, 0, 0)
    <3>8. u \in Seq(Char) /\ Len(u) = 0
      <4>1. 0 \in Nat /\ buf \in Bufs BY Zenon, <3>3 DEF ConsTypes
      <4> QED BY <4>1, <1>CutSeq, Zenon
    <3>9. C!input = u /\ C!line = u BY Zenon, <3>7
    <3> HIDE DEF u
    <3>10. u = <<>> BY <3>8
    <3>11. Open BY <3>9, <3>10 DEF Open
    <3> QED BY <3>3, <3>4, <3>6, <3>9, <3>10, <3>11, Zenon DEF ConsInv, C!LI!Init
  <2>2. ASSUME ConsInv, C!Next
        PROVE ConsInv' /\ (C!LI!Next \/ (C!input' = C!input /\ C!line' = C!line))
    <3>1. CASE \E c \in C!Stored : C!store(c)
      BY <2>2, <3>1, <1>StoreStep, Zenon DEF C!LI!Next
    <3>2. CASE C!backspace BY <2>2, <3>2, <1>BackStep, Zenon DEF C!LI!Next
    <3>3. CASE C!kill_line BY <2>2, <3>3, <1>KillStep, Zenon DEF C!LI!Next
    <3>4. ASSUME NEW p \in Reader, (\E k \in 0..MaxLen : C!read(p, k)) \/ C!consoleread(p) \/ C!kill(p)
          PROVE ConsInv' /\ (C!LI!Next \/ (C!input' = C!input /\ C!line' = C!line))
      <4>1. CASE C!read_eof(p) \/ C!read_char(p) BY <2>2, <4>1, <1>CharStep, Zenon DEF C!LI!Next
      <4>2. CASE \/ \E k \in 0..MaxLen : C!read(p, k)
                 \/ C!acquire(p) \/ C!read_done(p) \/ C!read_killed(p) \/ C!read_empty(p) \/ C!sleep(p)
                 \/ C!kill(p)
        BY <2>2, <4>2, <1>ReaderStep, Zenon
      <4> QED BY <3>4, <4>1, <4>2, Zenon DEF C!consoleread
    <3> QED BY <2>2, <3>1, <3>2, <3>3, <3>4, Zenon DEF C!Next, C!consoleintr
  <2>3. ASSUME ConsInv, UNCHANGED consVars PROVE ConsInv' /\ C!input' = C!input /\ C!line' = C!line
    <3>1. /\ UNCHANGED <<buf, r, w, e>> /\ lock' = lock /\ cpc' = cpc /\ n' = n /\ target' = target
          /\ killed' = killed
      BY Zenon, <2>3 DEF consVars
    <3>2. Fits' /\ Open' /\ C!input' = C!input /\ C!line' = C!line BY Zenon, <2>3, <3>1, <1>RingSame DEF ConsInv
    <3>3. ConsTypes' /\ ReadInv' BY Zenon, <2>3, <3>1 DEF ConsInv, ConsTypes, ReadInv
    <3> QED BY Zenon, <3>2, <3>3 DEF ConsInv
  <2> QED BY Zenon, <2>1, <2>2, <2>3

\* A ^D leaves the ring only when the read() that takes it has nothing else.
<1>EofTaken. ASSUME ConsInv, C!Next, NEW p \in Reader, lock = p, C!At(r) = C!CtrlD, r' # r
             PROVE cpc'[p] = "out" /\ n[p] = target[p]
  <2> USE <1>EofTaken
  <2>1. PICK q \in Reader : C!read_eof(q) \/ C!read_char(q)
    BY Zenon DEF C!Next, C!consoleintr, C!store, C!backspace, C!kill_line, C!consoleread, C!read, C!acquire,
           C!read_done, C!read_killed, C!read_empty, C!sleep, C!kill
  <2>2. q = p BY Zenon, <2>1 DEF ConsInv, ReadInv, C!read_eof, C!read_char
  <2>3. C!read_eof(p) BY Zenon, <2>1, <2>2 DEF C!read_char
  <2>4. ~(n[p] < target[p]) /\ cpc' = [cpc EXCEPT ![p] = "out"] BY Zenon, <2>3 DEF C!read_eof, C!Return
  <2>5. n[p] \in Nat /\ target[p] \in Nat /\ n[p] <= target[p] BY <1>ConsFacts DEF ConsInv, ConsTypes, ReadInv
  <2> QED BY <2>4, <2>5 DEF ConsInv, ConsTypes

\* The same for the console.
<1>ConsWakes. ASSUME ConsInv PROVE C!NoLostWakeup
  <2> USE <1>ConsWakes
  <2>1. C!TypeOK BY Zenon DEF ConsInv, ConsTypes, C!TypeOK, Bufs, Place, Char, Index
  <2>2. \A p \in Reader : cpc[p] = "asleep" => r = w BY Zenon DEF ConsInv, ReadInv
  <2> QED BY Zenon, <2>1, <2>2 DEF C!NoLostWakeup

<1> QED BY <1>ConsSteps, <1>EofTaken, <1>ConsWakes, Zenon

-------------------------------------------------------------------------------
(* The drivers and the clock side by side.                                 *)

F == INSTANCE FiniteSetTheorems

\* The library speaks of the same finite sets.
LEMMA LibraryFinite == \A S : F!IsFiniteSet(S) <=> IsFiniteSet(S) BY Zenon DEF F!IsFiniteSet, IsFiniteSet

\* The same cardinalities.
LEMMA LibrarySize == \A S : F!Cardinality(S) = Cardinality(S) BY Zenon DEF F!Cardinality, Cardinality

\* A set of natural numbers has a least element.
LEMMA Least == ASSUME NEW S \in SUBSET Nat, S # {} PROVE \E m \in S : \A k \in S : m <= k
<1> DEFINE R == F!OpToRel(<, Nat)
<1>1. F!IsWellFoundedOn(R, Nat) BY Zenon, F!NatLessThanWellFounded
<1>2. \A x, y \in Nat : y < x => <<y, x>> \in R BY Zenon DEF F!OpToRel
<1> HIDE DEF R
<1>3. PICK m \in S : \A k \in S : ~(<<k, m>> \in R) BY <1>1, F!WFMin, Zenon
<1>4. ASSUME NEW k \in S PROVE m <= k
  <2>1. m \in Nat /\ k \in Nat BY Zenon
  <2>2. ~(k < m) BY <1>2, <1>3, <2>1, Zenon
  <2> QED BY <2>1, <2>2
<1> QED BY Zenon, <1>4

\* What has been assumed of the library.
LEMMA LibraryHolds == Library
<1>1. \A S : IsFiniteSet(S) => Cardinality(S) \in Nat
  BY Zenon, F!FS_CardinalityType, LibraryFinite, LibrarySize
<1>2. /\ IsFiniteSet({}) /\ Cardinality({}) = 0
      /\ \A S : IsFiniteSet(S) => (Cardinality(S) = 0 <=> S = {})
  BY Zenon, F!FS_EmptySet, LibraryFinite, LibrarySize
<1>3. \A S, x : IsFiniteSet(S) =>
        /\ IsFiniteSet(S \cup {x})
        /\ Cardinality(S \cup {x}) = IF x \in S THEN Cardinality(S) ELSE Cardinality(S) + 1
  BY Zenon, F!FS_AddElement, LibraryFinite, LibrarySize
<1>4. \A S, x : IsFiniteSet(S) =>
        /\ IsFiniteSet(S \ {x})
        /\ Cardinality(S \ {x}) = IF x \in S THEN Cardinality(S) - 1 ELSE Cardinality(S)
  BY Zenon, F!FS_RemoveElement, LibraryFinite, LibrarySize
<1>5. \A a, b \in Int : /\ IsFiniteSet(a..b)
                        /\ Cardinality(a..b) = IF a > b THEN 0 ELSE b - a + 1
  BY Zenon, F!FS_Interval, LibraryFinite, LibrarySize
<1>6. \A S : IsFiniteSet(S) => \A W \in SUBSET S : IsFiniteSet(W)
  BY Zenon, F!FS_Subset, LibraryFinite, LibrarySize
<1>7. \A S, W : IsFiniteSet(S) /\ IsFiniteSet(W) /\ Cardinality(W) < Cardinality(S) =>
        \A f \in [S -> W] : \E x, y \in S : x # y /\ f[x] = f[y]
  BY Zenon, F!FS_PigeonHole, LibraryFinite, LibrarySize
<1>8. \A S \in SUBSET Nat : S # {} => \E m \in S : \A k \in S : m <= k
  BY Zenon, Least
<1> QED BY <1>1, <1>2, <1>3, <1>4, <1>5, <1>6, <1>7, <1>8, Zenon DEF Library

DevInv == DiskInv /\ ConsInv /\ UartInv /\ PauseInv

\* The invariants hold together: a step of one driver leaves the state of the
\* others alone.
LEMMA DevInduction ==
  /\ DevInit => DevInv
  /\ DevInv /\ [DevNext]_devVars => DevInv'
<1>1. ASSUME DevInit PROVE DevInv
  BY <1>1, DiskInduction, LibraryHolds, ConsInduction, UartInduction, PauseInduction, Zenon DEF DevInit, DevInv
<1>2. ASSUME DevInv, [DevNext]_devVars PROVE DevInv'
  <2>1. DiskInv /\ ConsInv /\ UartInv /\ PauseInv BY Zenon, <1>2 DEF DevInv
  <2>2. DiskInv' BY <1>2, <2>1, DiskInduction, LibraryHolds, Zenon DEF DevNext, devVars, consVars, uartVars, timeVars
  <2>3. ConsInv' BY <1>2, <2>1, ConsInduction, Zenon DEF DevNext, devVars
  <2>4. UartInv' BY <1>2, <2>1, UartInduction, Zenon DEF DevNext, devVars
  <2>5. PauseInv' BY <1>2, <2>1, PauseInduction, Zenon DEF DevNext, devVars
  <2> QED BY Zenon, <2>2, <2>3, <2>4, <2>5 DEF DevInv
<1> QED BY Zenon, <1>1, <1>2

\* The drivers keep their invariants, for any number of processes, any size of the
\* rings and any width of the indices that is a multiple of it.
THEOREM DeviceInvariant == DevSpec => []DevInv
BY DevInduction, PTL DEF DevSpec

\* virtio_disk_rw() returns after the device has served its own request, once, and
\* free_desc() and alloc3_desc() neither lose nor share a descriptor.
THEOREM RequestsServedOnce == DevSpec => []ServedOnce
<1>1. DevInv => ServedOnce BY DiskInduction, LibraryHolds, Zenon DEF DevInv, ServedOnce
<1> QED BY <1>1, DeviceInvariant, PTL

\* No wakeup() of virtio_disk_intr(), free_desc(), consoleintr(), uartintr() or
\* clockintr() is lost, and no completion of the disk or of the serial line goes
\* unnoticed.
THEOREM DeviceNoLostWakeup == DevSpec => []NoLostWakeup
<1>1. UartInv => U!NoLostWakeup /\ U!BusyIsTemporary
  BY Zenon DEF UartInv, U!NoLostWakeup, U!BusyIsTemporary
<1>2. PauseInv => T!NoLostWakeup BY Zenon DEF PauseInv, T!NoLostWakeup
<1>3. DevInv => NoLostWakeup BY <1>1, <1>2, DiskInduction, LibraryHolds, ConsInduction, Zenon DEF DevInv, NoLostWakeup
<1> QED BY <1>3, DeviceInvariant, PTL

\* pause() returns no earlier than it should, also when ticks wraps around.
THEOREM PauseIsNotEarly == DevSpec => PauseNotEarly
<1>1. DevInv /\ [DevNext]_devVars =>
        [\A p \in Reader : tpc[p] = "loop" /\ tpc'[p] = "user" => elapsed[p] >= tn[p]]_(T!vars)
  <2> SUFFICES ASSUME DevInv, [DevNext]_devVars, ~UNCHANGED T!vars,
                      NEW p \in Reader, tpc[p] = "loop", tpc'[p] = "user"
               PROVE elapsed[p] >= tn[p]
    BY Zenon
  <2>1. T!Next BY Zenon DEF DevNext, devVars, timeVars, T!vars
  <2> QED BY Zenon, <2>1, PauseInduction DEF DevInv
<1> QED BY <1>1, DeviceInvariant, PTL DEF DevSpec, PauseNotEarly, T!PauseNotEarly

\* The ring of the console, whose indices wrap around, is the editable line of
\* module LineInput, and a ^D is taken from it only by a read() of no bytes.
THEOREM ConsoleImplementsLineInput == DevSpec => LineDiscipline
<1>1. DevInit => C!LI!Init BY ConsInduction, Zenon DEF DevInit
<1>2. DevInv /\ [DevNext]_devVars => [C!LI!Next]_(C!LI!vars)
  <2> SUFFICES ASSUME DevInv, [DevNext]_devVars
               PROVE C!LI!Next \/ (C!input' = C!input /\ C!line' = C!line)
    BY Zenon DEF C!LI!vars
  <2> QED BY ConsInduction, Zenon DEF DevInv, DevNext, devVars
<1>3. DevInv /\ [DevNext]_devVars =>
        [\A p \in Reader : lock = p /\ r # w /\ C!At(r) = C!CtrlD /\ r' # r
            => cpc'[p] = "out" /\ n[p] = target[p]]_(C!vars)
  <2> SUFFICES ASSUME DevInv, [DevNext]_devVars, NEW p \in Reader,
                      lock = p, C!At(r) = C!CtrlD, r' # r
               PROVE cpc'[p] = "out" /\ n[p] = target[p]
    BY Zenon
  <2>1. C!Next BY Zenon DEF DevNext, devVars, consVars
  <2> QED BY Zenon, <2>1, ConsInduction DEF DevInv
<1> QED BY <1>1, <1>2, <1>3, DeviceInvariant, PTL
        DEF DevSpec, LineDiscipline, C!LineDiscipline, C!LI!Spec, C!EofIsZeroBytes
===============================================================================
