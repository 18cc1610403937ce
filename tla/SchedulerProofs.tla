--------------------------- MODULE SchedulerProofs ----------------------------
(***************************************************************************)
(* Proof about Scheduler: BoundedBypass, for any number of slots and CPUs  *)
(* and any choice of the process that waits.                               *)
(*                                                                         *)
(* Ahead(c) is the number of visits to other processes that scheduler()    *)
(* on c may still make before it must come to Victim with target 0, where  *)
(* any RUNNABLE process is eligible.  Every process c runs uses up one of  *)
(* these visits, so bypass[c] + Ahead(c) does not grow while Victim waits. *)
(***************************************************************************)
EXTENDS Scheduler, TLAPS

\* Other processes from slot j to the end of the table.
Others(j) == IF j <= Victim THEN NPROC - j ELSE NPROC - j + 1

\* The rounds of a sweep with a positive target, from target t down.
Rounds(t) == IF t = 3 THEN 3 * (NPROC - 1)
             ELSE IF t = 2 THEN 2 * (NPROC - 1)
             ELSE IF t = 1 THEN NPROC - 1 ELSE 0

\* From the start of a sweep to Victim's slot with target 0.
Full == Rounds(3) + (Victim - 1)

\* From the place s in a sweep, the visit of slot s.i included.
Ahead(s) ==
  IF s.phase = "max" THEN Full
  ELSE IF s.target > 0 THEN Others(s.i) + Rounds(s.target - 1) + (Victim - 1)
  ELSE IF s.i <= Victim THEN Victim - s.i
  ELSE Others(s.i) + Full

\* While c runs a process, the visit of its slot is not ahead any more.
Spent(c) == IF cpu[c] = NoProc THEN 0 ELSE 1

BypassInv ==
  \A c \in CPU :
    IF state[Victim] = "RUNNABLE"
    THEN bypass[c] + Ahead(sch[c]) - Spent(c) <= 4 * (NPROC - 1)
    ELSE bypass[c] = 0

\* The process a CPU runs is the one its scan has come to.
ScanInv ==
  \A c \in CPU : cpu[c] # NoProc => sch[c].phase = "run" /\ cpu[c] = sch[c].i

SchedInv == OneCpu /\ ScanInv /\ BypassInv

-------------------------------------------------------------------------------
(* What is ahead of a scan.                                                *)

\* The counts are small numbers.
LEMMA AheadFacts ==
  ASSUME NEW s \in Locals
  PROVE  Ahead(s) \in Nat /\ Ahead(s) <= 4 * (NPROC - 1)
<1>1. /\ NPROC \in Nat /\ NPROC >= 1 /\ Victim \in Nat
      /\ 1 <= Victim /\ Victim <= NPROC
  BY SchedulerAssumption
<1>2. s.i \in Nat /\ 1 <= s.i /\ s.i <= NPROC /\ s.target \in 0..3
  BY <1>1 DEF Locals, Slot
<1> QED
  BY <1>1, <1>2 DEF Ahead, Full, Others, Rounds

\* Advance() goes on within a sweep or starts the next one, and what it leaves
\* behind is ahead no more, unless it has passed by Victim with target 0.
LEMMA AdvanceAhead ==
  ASSUME NEW s \in Locals, s.phase = "run"
  PROVE  /\ Advance(s) \in Locals
         /\ s.i # Victim => Ahead(Advance(s)) <= Ahead(s) - 1
         /\ s.i = Victim /\ s.target > 0 => Ahead(Advance(s)) <= Ahead(s)
<1>1. /\ NPROC \in Nat /\ NPROC >= 1 /\ Victim \in Nat
      /\ 1 <= Victim /\ Victim <= NPROC
  BY SchedulerAssumption
<1>2. s.i \in Nat /\ 1 <= s.i /\ s.i <= NPROC /\ s.target \in 0..3
  BY <1>1 DEF Locals, Slot
<1>3. CASE s.i < NPROC
  <2> DEFINE r == [s EXCEPT !.i = @ + 1]
  <2>1. Advance(s) = r
    BY <1>3 DEF Advance
  <2>2. /\ r \in Locals /\ r.phase = "run" /\ r.i = s.i + 1
        /\ r.target = s.target
    BY <1>1, <1>2, <1>3 DEF Locals, Slot
  <2> HIDE DEF r
  <2> QED
    BY <1>1, <1>2, <1>3, <2>1, <2>2 DEF Ahead, Full, Others, Rounds
<1>4. CASE s.i = NPROC /\ s.target > 0
  <2> DEFINE r == [phase |-> "run", target |-> s.target - 1, i |-> 1]
  <2>1. Advance(s) = r
    BY <1>1, <1>4 DEF Advance
  <2>2. s.target - 1 \in 0..3
    BY <1>2, <1>4
  <2>3. /\ r \in Locals /\ r.phase = "run" /\ r.i = 1
        /\ r.target = s.target - 1
    BY <1>1, <2>2 DEF Locals, Slot
  <2> HIDE DEF r
  <2> QED
    BY <1>1, <1>2, <1>4, <2>1, <2>3 DEF Ahead, Full, Others, Rounds
<1>5. CASE s.i = NPROC /\ s.target = 0
  <2>1. Advance(s) = Sweep
    BY <1>1, <1>5 DEF Advance
  <2>2. Sweep \in Locals /\ Sweep.phase = "max"
    BY <1>1 DEF Sweep, Locals, Slot
  <2> QED
    BY <1>1, <1>2, <1>5, <2>1, <2>2 DEF Ahead, Full, Others, Rounds
<1> QED
  BY <1>1, <1>2, <1>3, <1>4, <1>5

\* When find_max() is done, no more than a full sweep is ahead.
LEMMA StartAhead ==
  ASSUME NEW m \in 0..3
  PROVE  /\ [phase |-> "run", target |-> m, i |-> 1] \in Locals
         /\ Ahead([phase |-> "run", target |-> m, i |-> 1]) <= Full
<1>1. /\ NPROC \in Nat /\ NPROC >= 1 /\ Victim \in Nat
      /\ 1 <= Victim /\ Victim <= NPROC
  BY SchedulerAssumption
<1> QED
  BY <1>1 DEF Ahead, Full, Others, Rounds, Locals, Slot

\* One look of find_max() keeps the type of its locals, and no more is ahead.
LEMMA FindMaxAhead ==
  ASSUME NEW s \in Locals, s.phase = "max", NEW m \in 0..3,
         NEW r, r = IF s.i < NPROC
                    THEN [phase |-> "max", target |-> m, i |-> s.i + 1]
                    ELSE [phase |-> "run", target |-> m, i |-> 1]
  PROVE  r \in Locals /\ Ahead(r) <= Ahead(s)
<1>1. /\ NPROC \in Nat /\ NPROC >= 1
      /\ Full \in Nat /\ Ahead(s) = Full
  BY SchedulerAssumption DEF Full, Rounds, Ahead
<1>2. CASE s.i < NPROC
  <2>1. s.i + 1 \in Slot
    BY <1>1, <1>2 DEF Locals, Slot
  <2> QED
    BY <1>1, <1>2, <2>1 DEF Locals, Ahead
<1>3. CASE ~(s.i < NPROC)
  BY <1>1, <1>3, StartAhead
<1> QED
  BY <1>2, <1>3

-------------------------------------------------------------------------------
(* The invariant.                                                          *)

\* At boot no process has been run and a full sweep is ahead.
LEMMA SchedInitInv == SchedInit => SchedInv
<1> SUFFICES ASSUME SchedInit PROVE SchedInv
  OBVIOUS
<1>1. Sweep \in Locals
  BY SchedulerAssumption DEF Sweep, Locals, Slot
<1>2. OneCpu
  BY <1>1, SchedulerAssumption DEF SchedInit, OneCpu, SchedTypeOK, Slot, NoProc
<1>3. ScanInv
  BY DEF SchedInit, ScanInv
<1>4. BypassInv
  BY <1>1, AheadFacts, SchedulerAssumption DEF SchedInit, BypassInv, Spent
<1> QED
  BY <1>2, <1>3, <1>4 DEF SchedInv

\* The step find_max() in terms of what is ahead.
LEMMA FindMaxStep ==
  ASSUME SchedTypeOK, NEW c \in CPU, find_max(c)
  PROVE  \E r \in Locals : /\ sch' = [sch EXCEPT ![c] = r]
                           /\ Ahead(r) <= Ahead(sch[c])
<1> DEFINE s == sch[c]
           m == IF state[s.i] = "RUNNABLE" /\ priority[s.i] > s.target
                THEN priority[s.i] ELSE s.target
           r == IF s.i < NPROC
                THEN [phase |-> "max", target |-> m, i |-> s.i + 1]
                ELSE [phase |-> "run", target |-> m, i |-> 1]
<1>1. s \in Locals /\ s.phase = "max" /\ m \in 0..3
  BY DEF find_max, SchedTypeOK, Locals
<1>2. sch' = [sch EXCEPT ![c] = r]
  BY DEF find_max
<1> HIDE DEF s, m
<1>3. r \in Locals /\ Ahead(r) <= Ahead(s)
  BY <1>1, FindMaxAhead
<1> HIDE DEF r
<1> QED
  BY <1>2, <1>3, Zenon DEF s

\* Every step keeps a RUNNING process on one CPU.
LEMMA OneCpuStep ==
  ASSUME SchedInv, [SchedNext]_schedVars
  PROVE  OneCpu'
<1>0. OneCpu /\ ScanInv
  BY DEF SchedInv
<1>n. NoProc \notin Slot /\ Victim \in Slot
  BY SchedulerAssumption DEF NoProc, Slot
<1> USE <1>0, <1>n DEF OneCpu, SchedTypeOK
<1>1. ASSUME NEW c \in CPU, find_max(c) PROVE OneCpu'
  <2>1. PICK r \in Locals : sch' = [sch EXCEPT ![c] = r]
    BY <1>1, FindMaxStep
  <2> QED
    BY <1>1, <2>1 DEF find_max
<1>2. ASSUME NEW c \in CPU, skip(c) PROVE OneCpu'
  BY <1>2, AdvanceAhead DEF skip
<1>3. ASSUME NEW c \in CPU, run(c) PROVE OneCpu'
  <2>1. sch[c].i \in Slot /\ state[sch[c].i] = "RUNNABLE"
    BY <1>3 DEF run, Eligible, Locals
  <2>2. bypass' \in [CPU -> Nat]
    BY <1>3 DEF run, Count
  <2> QED
    BY <1>3, <2>1, <2>2 DEF run
<1>4. ASSUME NEW c \in CPU, NEW st \in {"RUNNABLE", "SLEEPING", "UNUSED"},
             leave(c, st)
      PROVE  OneCpu'
  BY <1>4, AdvanceAhead DEF leave, ScanInv
<1>5. ASSUME NEW c \in CPU, fork(c) PROVE OneCpu'
  BY <1>5 DEF fork
<1>6. ASSUME NEW c \in CPU, fork_full(c) PROVE OneCpu'
  BY <1>6 DEF fork_full
<1>7. ASSUME NEW c \in CPU, NEW k \in NiceArg, setnice(c, k) PROVE OneCpu'
  <2>1. 3 - (IF k > 3 THEN 3 ELSE k) \in 0..3
    BY <1>7, SchedulerAssumption DEF setnice
  <2> QED
    BY <1>7, <2>1 DEF setnice
<1>8. ASSUME NEW p \in Slot, wakeup(p) PROVE OneCpu'
  BY <1>8 DEF wakeup
<1>9. CASE UNCHANGED schedVars
  BY <1>9 DEF schedVars
<1> QED
  BY <1>1, <1>2, <1>3, <1>4, <1>5, <1>6, <1>7, <1>8, <1>9
     DEF SchedNext, scheduler, yield, sleep, exit

\* Every step keeps the scan at the process that its CPU runs.
LEMMA ScanStep ==
  ASSUME SchedInv, [SchedNext]_schedVars
  PROVE  ScanInv'
<1>0. ScanInv /\ cpu \in [CPU -> Slot \cup {NoProc}] /\ sch \in [CPU -> Locals]
  BY DEF SchedInv, OneCpu, SchedTypeOK
<1> USE <1>0 DEF ScanInv
<1>1. ASSUME NEW c \in CPU, find_max(c) PROVE ScanInv'
  BY <1>1 DEF find_max
<1>2. ASSUME NEW c \in CPU, skip(c) PROVE ScanInv'
  BY <1>2 DEF skip
<1>3. ASSUME NEW c \in CPU, run(c) PROVE ScanInv'
  BY <1>3 DEF run
<1>4. ASSUME NEW c \in CPU, NEW st, leave(c, st) PROVE ScanInv'
  BY <1>4 DEF leave
<1>5. CASE UNCHANGED <<cpu, sch>>
  BY <1>5
<1> QED
  BY <1>1, <1>2, <1>3, <1>4, <1>5
     DEF SchedNext, scheduler, yield, sleep, exit, fork, fork_full, setnice, wakeup,
         schedVars

\* Every step keeps the sum of what Victim has waited and what is ahead of it.
LEMMA BypassStep ==
  ASSUME SchedInv, [SchedNext]_schedVars
  PROVE  BypassInv'
<1>0. OneCpu /\ SchedTypeOK /\ ScanInv /\ BypassInv
  BY DEF SchedInv, OneCpu
<1>n. /\ NoProc \notin Slot /\ Victim \in Slot
      /\ NPROC \in Nat /\ NPROC >= 1 /\ Full \in Nat
  BY SchedulerAssumption DEF NoProc, Slot, Full, Rounds
<1>t. /\ bypass \in [CPU -> Nat] /\ cpu \in [CPU -> Slot \cup {NoProc}]
      /\ sch \in [CPU -> Locals] /\ Victim \in DOMAIN state
      /\ \A d \in CPU : /\ sch[d].i \in Slot /\ sch[d].target \in 0..3
                        /\ Ahead(sch[d]) \in Nat
                        /\ Ahead(sch[d]) <= 4 * (NPROC - 1)
  BY <1>0, <1>n, AheadFacts DEF SchedTypeOK, Locals
<1> USE <1>n, <1>t
<1>1. ASSUME NEW c \in CPU, find_max(c) PROVE BypassInv'
  <2>1. PICK r \in Locals : /\ sch' = [sch EXCEPT ![c] = r]
                            /\ Ahead(r) <= Ahead(sch[c])
    BY <1>0, <1>1, FindMaxStep
  <2>2. Ahead(r) \in Nat
    BY AheadFacts
  <2> QED
    BY <1>0, <1>1, <2>1, <2>2 DEF find_max, BypassInv, Spent
<1>2. ASSUME NEW c \in CPU, skip(c) PROVE BypassInv'
  <2> DEFINE r == Advance(sch[c])
  <2>1. r \in Locals
    BY <1>2, AdvanceAhead DEF skip
  <2>2. Ahead(r) \in Nat
    BY <2>1, AheadFacts
  <2>3. state[Victim] = "RUNNABLE" => Ahead(r) <= Ahead(sch[c])
    <3>1. priority[Victim] \in 0..3
      BY <1>0 DEF SchedTypeOK
    <3>2. state[Victim] = "RUNNABLE" => ~(sch[c].i = Victim /\ sch[c].target = 0)
      BY <1>2, <3>1 DEF skip, Eligible
    <3> QED
      BY <1>2, <2>2, <3>2, AdvanceAhead DEF skip
  <2>4. sch' = [sch EXCEPT ![c] = r] /\ UNCHANGED <<state, cpu, bypass>>
    BY <1>2 DEF skip
  <2> HIDE DEF r
  <2> QED
    BY <1>0, <2>1, <2>2, <2>3, <2>4 DEF BypassInv, Spent
<1>3. ASSUME NEW c \in CPU, run(c) PROVE BypassInv'
  <2>1. /\ cpu[c] = NoProc /\ cpu' = [cpu EXCEPT ![c] = sch[c].i]
        /\ state' = [state EXCEPT ![sch[c].i] = "RUNNING"] /\ sch' = sch
        /\ bypass' = Count(bypass, c, sch[c].i)
    BY <1>3 DEF run
  <2>2. CASE sch[c].i = Victim
    BY <2>1, <2>2 DEF Count, BypassInv
  <2>3. CASE sch[c].i # Victim
    BY <1>0, <2>1, <2>3 DEF Count, BypassInv, Spent
  <2> QED
    BY <2>2, <2>3
<1>4. ASSUME NEW c \in CPU, NEW st \in {"RUNNABLE", "SLEEPING", "UNUSED"},
             leave(c, st)
      PROVE  BypassInv'
  <2> DEFINE r == Advance(sch[c])
  <2>1. /\ cpu[c] = sch[c].i /\ cpu[c] \in Slot /\ sch[c].phase = "run"
        /\ state' = [state EXCEPT ![cpu[c]] = st]
        /\ cpu' = [cpu EXCEPT ![c] = NoProc]
        /\ sch' = [sch EXCEPT ![c] = r] /\ bypass' = bypass
    BY <1>0, <1>4 DEF leave, ScanInv
  <2>2. r \in Locals
    BY <2>1, AdvanceAhead
  <2>3. Ahead(r) \in Nat /\ Ahead(r) <= 4 * (NPROC - 1)
    BY <2>2, AheadFacts
  <2>4. CASE cpu[c] = Victim
    <3>1. \A d \in CPU : bypass[d] = 0
      BY <1>0, <2>1, <2>4 DEF BypassInv, OneCpu
    <3> HIDE DEF r
    <3> QED
      BY <2>1, <2>2, <2>3, <3>1 DEF BypassInv, Spent
  <2>5. CASE cpu[c] # Victim
    <3>1. Ahead(r) <= Ahead(sch[c]) - 1
      BY <2>1, <2>5, AdvanceAhead
    <3> HIDE DEF r
    <3> QED
      BY <1>0, <2>1, <2>2, <2>3, <2>5, <3>1 DEF BypassInv, Spent
  <2> QED
    BY <2>4, <2>5
<1>5. ASSUME NEW q \in Slot, state[q] # "RUNNABLE",
             state' = [state EXCEPT ![q] = "RUNNABLE"],
             UNCHANGED <<cpu, sch, bypass>>
      PROVE  BypassInv'
  BY <1>0, <1>5 DEF BypassInv, Spent
<1>6. CASE UNCHANGED <<state, cpu, sch, bypass>>
  BY <1>0, <1>6 DEF BypassInv, Spent
<1>7. ASSUME NEW c \in CPU, fork(c) PROVE BypassInv'
  BY <1>5, <1>7, Zenon DEF fork
<1>8. ASSUME NEW p \in Slot, wakeup(p) PROVE BypassInv'
  BY <1>5, <1>8, Zenon DEF wakeup
<1> QED
  BY <1>1, <1>2, <1>3, <1>4, <1>6, <1>7, <1>8
     DEF SchedNext, scheduler, yield, sleep, exit, fork_full, setnice, schedVars

\* The inductive invariant holds in every reachable state.
THEOREM SchedulerInvariant == SchedSpec => []SchedInv
<1>1. SchedInv /\ [SchedNext]_schedVars => SchedInv'
  BY OneCpuStep, ScanStep, BypassStep DEF SchedInv
<1> QED
  BY SchedInitInv, <1>1, PTL DEF SchedSpec

\* While a process waits to be run, no CPU runs more than 4 * (NPROC - 1)
\* others, and no process runs on two CPUs (scheduler() of kernel/proc.c).
THEOREM BypassIsBounded == SchedSpec => []BoundedBypass
<1>1. SchedInv => BoundedBypass
  <2> SUFFICES ASSUME SchedInv, NEW c \in CPU PROVE bypass[c] <= 4 * (NPROC - 1)
    BY DEF SchedInv, BoundedBypass
  <2>1. /\ bypass[c] \in Nat /\ sch[c] \in Locals
        /\ NPROC \in Nat /\ NPROC >= 1
    BY SchedulerAssumption DEF SchedInv, OneCpu, SchedTypeOK
  <2>2. Ahead(sch[c]) \in Nat
    BY <2>1, AheadFacts
  <2>3. CASE state[Victim] = "RUNNABLE" /\ cpu[c] # NoProc
    <3>1. sch[c].phase = "run" /\ sch[c].i = cpu[c]
      BY <2>3 DEF SchedInv, ScanInv
    <3>2. sch[c].i # Victim
      BY <2>3, <3>1, SchedulerAssumption DEF SchedInv, OneCpu, Slot
    <3>3. Advance(sch[c]) \in Locals /\ Ahead(Advance(sch[c])) <= Ahead(sch[c]) - 1
      BY <2>1, <3>1, <3>2, AdvanceAhead
    <3>4. Ahead(Advance(sch[c])) \in Nat
      BY <3>3, AheadFacts
    <3> QED
      BY <2>1, <2>2, <2>3, <3>3, <3>4 DEF SchedInv, BypassInv, Spent
  <2>4. CASE ~(state[Victim] = "RUNNABLE" /\ cpu[c] # NoProc)
    BY <2>1, <2>2, <2>4 DEF SchedInv, BypassInv, Spent
  <2> QED
    BY <2>3, <2>4
<1> QED
  BY SchedulerInvariant, <1>1, PTL
===============================================================================
