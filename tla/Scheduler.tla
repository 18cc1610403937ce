------------------------------- MODULE Scheduler ------------------------------
(***************************************************************************)
(* The priority scheduler: scheduler() of kernel/proc.c, one per CPU, with *)
(* setnice() (kernel/sysproc.c) and what allocproc() and freeproc() do to  *)
(* the priority.  p->nice is only what getnice() reports, and is left out. *)
(* A look at a process under p->lock is one step; the two halves of        *)
(* swtch() are in Proc.tla.                                                *)
(***************************************************************************)
EXTENDS Integers

CONSTANTS NPROC,    \* slots of the process table
          CPU,      \* processors
          NiceArg,  \* arguments of setnice()
          Victim    \* the slot whose waiting is measured

ASSUME SchedulerAssumption ==
  /\ NPROC \in Nat \ {0}
  /\ NiceArg \subseteq Int
  /\ Victim \in 1..NPROC

Slot == 1..NPROC
NoProc == 0
Beyond == NPROC + 1    \* &proc[NPROC], the memory after the table

VARIABLES
  state,     \* p->state
  priority,  \* p->priority
  cpu,       \* c->proc
  sch,       \* the locals of scheduler() on each CPU
  bypass     \* history: processes a CPU ran since Victim became RUNNABLE

schedVars == <<state, priority, cpu, sch, bypass>>

\* In phase "max", target is maxprio so far.
Locals == [phase : {"max", "run"}, target : 0..3, i : Slot]
Sweep  == [phase |-> "max", target |-> 0, i |-> 1]

SchedTypeOK ==
  /\ state \in [Slot -> {"UNUSED", "RUNNABLE", "RUNNING", "SLEEPING"}]
  /\ priority \in [Slot \cup {Beyond} -> 0..3]
  /\ cpu \in [CPU -> Slot \cup {NoProc}]
  /\ sch \in [CPU -> Locals]
  /\ bypass \in [CPU -> Nat]

\* The process table is zero at boot, but for the first process.
SchedInit ==
  /\ state = [p \in Slot |-> IF p = 1 THEN "RUNNABLE" ELSE "UNUSED"]
  /\ priority = [p \in Slot \cup {Beyond} |-> 0]
  /\ cpu = [c \in CPU |-> NoProc]
  /\ sch = [c \in CPU |-> Sweep]
  /\ bypass = [c \in CPU |-> 0]

-------------------------------------------------------------------------------
(* scheduler().                                                            *)

\* One look in the loop that finds the maximal priority of RUNNABLE processes.
find_max(c) ==
  LET s == sch[c]
      m == IF state[s.i] = "RUNNABLE" /\ priority[s.i] > s.target
           THEN priority[s.i] ELSE s.target
  IN  /\ cpu[c] = NoProc /\ s.phase = "max"
      /\ sch' = [sch EXCEPT ![c] =
           IF s.i < NPROC THEN [phase |-> "max", target |-> m, i |-> s.i + 1]
           ELSE [phase |-> "run", target |-> m, i |-> 1]]
      /\ UNCHANGED <<state, priority, cpu, bypass>>

\* A definition whose name ends in _bug is a deliberate error in the one that
\* follows it; each property is shown to fail when such an error is made.

\* Error: no lower target is tried.
Advance_bug(s) == IF s.i < NPROC THEN [s EXCEPT !.i = @ + 1] ELSE Sweep

\* The next process, the next lower target, or the next sweep.
Advance(s) ==
  IF s.i < NPROC THEN [s EXCEPT !.i = @ + 1]
  ELSE IF s.target > 0 THEN [phase |-> "run", target |-> s.target - 1, i |-> 1]
  ELSE Sweep

Eligible(s) == state[s.i] = "RUNNABLE" /\ priority[s.i] >= s.target

skip(c) ==
  /\ cpu[c] = NoProc /\ sch[c].phase = "run" /\ ~Eligible(sch[c])
  /\ sch' = [sch EXCEPT ![c] = Advance(@)]
  /\ UNCHANGED <<state, priority, cpu, bypass>>

Count(b, c, p) ==
  IF p = Victim THEN [d \in CPU |-> 0]
  ELSE IF state[Victim] = "RUNNABLE" THEN [b EXCEPT ![c] = @ + 1] ELSE b

\* Switch to the process; the scheduler goes on when it is switched back to.
run(c) ==
  LET p == sch[c].i
  IN  /\ cpu[c] = NoProc /\ sch[c].phase = "run" /\ Eligible(sch[c])
      /\ state' = [state EXCEPT ![p] = "RUNNING"]
      /\ cpu' = [cpu EXCEPT ![c] = p]
      /\ bypass' = Count(bypass, c, p)
      /\ UNCHANGED <<priority, sch>>

\* The process on c gives up the CPU: yield(), sleep(), exit().
leave(c, st) ==
  /\ cpu[c] # NoProc
  /\ state' = [state EXCEPT ![cpu[c]] = st]
  /\ cpu' = [cpu EXCEPT ![c] = NoProc]
  /\ sch' = [sch EXCEPT ![c] = Advance(@)]
  /\ UNCHANGED <<priority, bypass>>

yield(c) == leave(c, "RUNNABLE")
sleep(c) == leave(c, "SLEEPING")

\* exit(), and freeproc() by the parent, which leaves the priority.
exit(c) == cpu[c] # 1 /\ leave(c, "UNUSED")

-------------------------------------------------------------------------------
(* What the running process does.                                          *)

wakeup(p) ==
  /\ state[p] = "SLEEPING"
  /\ state' = [state EXCEPT ![p] = "RUNNABLE"]
  /\ UNCHANGED <<priority, cpu, sch, bypass>>

\* kfork(): allocproc() takes the first free slot and leaves its priority
\* as it is.
fork(c) ==
  /\ cpu[c] # NoProc
  /\ \E q \in Slot :
       /\ state[q] = "UNUSED" /\ \A r \in 1..(q - 1) : state[r] # "UNUSED"
       /\ state' = [state EXCEPT ![q] = "RUNNABLE"]
  /\ UNCHANGED <<priority, cpu, sch, bypass>>

\* allocproc() finds no free slot: it writes through p == &proc[NPROC].
fork_full(c) ==
  /\ cpu[c] # NoProc
  /\ \A q \in Slot : state[q] # "UNUSED"
  /\ priority' = [priority EXCEPT ![Beyond] = 3]
  /\ UNCHANGED <<state, cpu, sch, bypass>>

\* sys_setnice().
setnice(c, n) ==
  /\ cpu[c] # NoProc
  /\ n >= 0 /\ n <= 40
  /\ priority' = [priority EXCEPT ![cpu[c]] = 3 - (IF n > 3 THEN 3 ELSE n)]
  /\ UNCHANGED <<state, cpu, sch, bypass>>

scheduler(c) == find_max(c) \/ skip(c) \/ run(c)

SchedNext ==
  \/ \E c \in CPU : \/ scheduler(c) \/ yield(c) \/ sleep(c) \/ exit(c)
                    \/ fork(c) \/ fork_full(c)
                    \/ \E n \in NiceArg : setnice(c, n)
  \/ \E p \in Slot : wakeup(p)

SchedSpec == SchedInit /\ [][SchedNext]_schedVars

(***************************************************************************)
(* scheduler() never stops, and the timer takes the CPU from every running *)
(* process.  No process is obliged to sleep, to exit or to be woken.       *)
(***************************************************************************)
SchedFairness == \A c \in CPU : WF_schedVars(scheduler(c)) /\ WF_schedVars(yield(c))

SchedFairSpec == SchedSpec /\ SchedFairness

-------------------------------------------------------------------------------
(* Properties.                                                             *)

(***************************************************************************)
(* A process runs on at most one CPU, and is RUNNING exactly while it does.*)
(***************************************************************************)
OneCpu ==
  /\ SchedTypeOK
  /\ \A c, d \in CPU : cpu[c] = cpu[d] /\ cpu[c] # NoProc => c = d
  /\ \A p \in Slot : state[p] = "RUNNING" <=> \E c \in CPU : cpu[c] = p

(***************************************************************************)
(* The wait of a RUNNABLE process is bounded, whatever its priority: no    *)
(* CPU runs more than 4 * (NPROC - 1) others before it, because a sweep    *)
(* goes down to target 0 and visits each process once per target; and the  *)
(* sweeps of the CPUs never give one process to two of them.               *)
(***************************************************************************)
BoundedBypass == OneCpu /\ \A c \in CPU : bypass[c] <= 4 * (NPROC - 1)

(***************************************************************************)
(* Every RUNNABLE process runs in the end.                                 *)
(***************************************************************************)
NoStarvation == \A p \in Slot : state[p] = "RUNNABLE" ~> state[p] = "RUNNING"
===============================================================================
