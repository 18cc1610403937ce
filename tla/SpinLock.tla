------------------------------- MODULE SpinLock -------------------------------
(***************************************************************************)
(* Spinlocks, nested interrupt disabling and their interplay with          *)
(* interrupts and context switches: kernel/spinlock.c, sched() and yield() *)
(* of kernel/proc.c and the interrupt path of kernel/trap.c.               *)
(*                                                                         *)
(* A kernel thread is the sequence of instructions it has still to         *)
(* execute, each one a piece of code that no interrupt can split.  An      *)
(* interrupt puts the instructions of its handler in front.  Every CPU has *)
(* a thread of its own, its scheduler(); a process runs on the CPU whose   *)
(* scheduler has switched to it, and may come back on another one.         *)
(***************************************************************************)
EXTENDS Naturals, Sequences, FiniteSets

CONSTANTS CPU,       \* processors; also the thread of their scheduler()
          Proc,      \* processes; also the p->lock of each
          Lock,      \* the other spinlocks
          tickslock, \* the one that clockintr() takes
          NoCPU      \* a null lk->cpu

\* A CPU, a process and a lock of another kind are different things.
ASSUME SpinLockAssumption ==
  CPU \cap Proc = {} /\ Lock \cap Proc = {} /\ tickslock \in Lock /\ NoCPU \notin CPU

Thread == CPU \cup Proc
AnyLock == Lock \cup Proc

VARIABLES
  sie,     \* sstatus.SIE: interrupts are enabled on a CPU
  noff,    \* c->noff, depth of push_off() nesting
  intena,  \* c->intena, were interrupts enabled before push_off()?
  locked,  \* lk->locked
  owner,   \* lk->cpu
  on,      \* the thread a CPU executes
  code,    \* the instructions a thread has still to execute
  held,    \* history: the locks a thread has
  state    \* p->state of a process

cpuVars  == <<sie, noff, intena>>
lockVars == <<locked, owner, held>>
vars == <<cpuVars, lockVars, on, code, state>>

-------------------------------------------------------------------------------
(* Instructions.                                                           *)

I(op, l, v) == [op |-> op, lk |-> l, val |-> v]

acquire(l) == <<I("acquire", l, FALSE)>>
release(l) == <<I("release", l, FALSE)>>
Do(op, p)  == <<I(op, p, FALSE)>>

\* yield(), called by process p.
yield(p) == acquire(p) \o Do("runnable", p) \o Do("sched", p) \o release(p)

\* sleep(chan, lk), called by process p.
sleep(p, l) == acquire(p) \o release(l) \o Do("sleeping", p)
               \o Do("sched", p) \o release(p) \o acquire(l)

\* forkret() and prepare_return(), where a new process starts.
forkret(p) == release(p) \o Do("intr_off", p) \o Do("sret", p)

Ops == {"acquire", "push_off", "swap", "setcpu", "release", "unlock", "pop_off",
        "sched", "resume", "runnable", "sleeping", "intr_off", "sret", "pick"}

TypeOK ==
  /\ sie \in [CPU -> BOOLEAN] /\ intena \in [CPU -> BOOLEAN]
  /\ noff \in [CPU -> Nat]
  /\ locked \in [AnyLock -> BOOLEAN]
  /\ owner \in [AnyLock -> CPU \cup {NoCPU}]
  /\ on \in [CPU -> Thread]
  /\ code \in [Thread -> Seq([op : Ops, lk : AnyLock, val : BOOLEAN])]
  /\ held \in [Thread -> SUBSET AnyLock]
  /\ state \in [Proc -> {"RUNNABLE", "RUNNING", "SLEEPING"}]

Init ==
  /\ sie = [c \in CPU |-> FALSE] /\ intena = [c \in CPU |-> FALSE]
  /\ noff = [c \in CPU |-> 0]
  /\ locked = [l \in AnyLock |-> FALSE]
  /\ owner = [l \in AnyLock |-> NoCPU]
  /\ on = [c \in CPU |-> c]
  /\ code = [t \in Thread |-> IF t \in Proc THEN forkret(t) ELSE <<>>]
  /\ held = [t \in Thread |-> {}]
  /\ state = [p \in Proc |-> "RUNNABLE"]

-------------------------------------------------------------------------------
(* Execution of the next instruction of the thread on CPU c.               *)

\* The next instruction on c is an op on lock l.
At(c, op, l) == /\ code[on[c]] # <<>>
                /\ Head(code[on[c]]).op = op /\ Head(code[on[c]]).lk = l

Val(c) == Head(code[on[c]]).val

\* The thread on c executes its next instruction, and now has first to do s.
Then(c, s) == code' = [code EXCEPT ![on[c]] = s \o Tail(@)]

\* A definition whose name ends in _bug is a deliberate error in the one that
\* follows it; each property is shown to fail when such an error is made.

holding(c, l) == locked[l] /\ owner[l] = c

\* push_off(): old = intr_get().  An interrupt, and with it a move to another
\* CPU, may come before the next step.
acquire_begin(c, l) ==
  /\ At(c, "acquire", l)
  /\ Then(c, <<I("push_off", l, sie[c])>>)
  /\ UNCHANGED <<cpuVars, lockVars, on, state>>

\* The rest of push_off(), and the check for a lock this CPU already has.
push_off(c, l) ==
  /\ At(c, "push_off", l) /\ ~holding(c, l)
  /\ sie' = [sie EXCEPT ![c] = FALSE]
  /\ intena' = [intena EXCEPT ![c] = IF noff[c] = 0 THEN Val(c) ELSE @]
  /\ noff' = [noff EXCEPT ![c] = @ + 1]
  /\ Then(c, Do("swap", l))
  /\ UNCHANGED <<lockVars, on, state>>

\* Error: the old value of lk->locked is not looked at.
swap_bug(c, l) ==
  /\ At(c, "swap", l)
  /\ locked' = [locked EXCEPT ![l] = TRUE]
  /\ held' = [held EXCEPT ![on[c]] = @ \cup {l}]
  /\ Then(c, Do("setcpu", l))
  /\ UNCHANGED <<cpuVars, owner, on, state>>

\* The atomic swap that finds the lock free.
swap(c, l) ==
  /\ At(c, "swap", l) /\ ~locked[l]
  /\ locked' = [locked EXCEPT ![l] = TRUE]
  /\ held' = [held EXCEPT ![on[c]] = @ \cup {l}]
  /\ Then(c, Do("setcpu", l))
  /\ UNCHANGED <<cpuVars, owner, on, state>>

setcpu(c, l) ==
  /\ At(c, "setcpu", l)
  /\ owner' = [owner EXCEPT ![l] = c]
  /\ Then(c, <<>>)
  /\ UNCHANGED <<cpuVars, locked, held, on, state>>

\* release(): the check and lk->cpu = 0.
release_begin(c, l) ==
  /\ At(c, "release", l) /\ holding(c, l)
  /\ owner' = [owner EXCEPT ![l] = NoCPU]
  /\ Then(c, Do("unlock", l))
  /\ UNCHANGED <<cpuVars, locked, held, on, state>>

unlock(c, l) ==
  /\ At(c, "unlock", l)
  /\ locked' = [locked EXCEPT ![l] = FALSE]
  /\ held' = [held EXCEPT ![on[c]] = @ \ {l}]
  /\ Then(c, Do("pop_off", l))
  /\ UNCHANGED <<cpuVars, owner, on, state>>

pop_off(c, l) ==
  /\ At(c, "pop_off", l) /\ ~sie[c] /\ noff[c] >= 1
  /\ noff' = [noff EXCEPT ![c] = @ - 1]
  /\ sie' = [sie EXCEPT ![c] = noff[c] = 1 /\ intena[c]]
  /\ Then(c, <<>>)
  /\ UNCHANGED <<intena, lockVars, on, state>>

\* p->state = RUNNABLE or SLEEPING, under p->lock.
setstate(c, p) ==
  /\ \/ At(c, "runnable", p) /\ state' = [state EXCEPT ![p] = "RUNNABLE"]
     \/ At(c, "sleeping", p) /\ state' = [state EXCEPT ![p] = "SLEEPING"]
  /\ Then(c, <<>>)
  /\ UNCHANGED <<cpuVars, lockVars, on>>

\* p->lock passes from one side of swtch() to the other, on the same CPU.
HandOver(s, t, p) ==
  held' = [held EXCEPT ![s] = @ \ {p}, ![t] = @ \cup {p}]

\* The conditions under which sched() does not panic.
SchedOK(c, p) ==
  holding(c, p) /\ noff[c] = 1 /\ state[p] # "RUNNING" /\ ~sie[c]

\* sched(): save intena and switch to the scheduler of this CPU.
sched(c, p) ==
  /\ At(c, "sched", p) /\ on[c] = p /\ SchedOK(c, p)
  /\ Then(c, <<I("resume", p, intena[c])>>)
  /\ HandOver(p, c, p)
  /\ on' = [on EXCEPT ![c] = c]
  /\ UNCHANGED <<cpuVars, locked, owner, state>>

\* Error: intena stays what another process has left on this CPU.
resume_bug(c, p) ==
  /\ At(c, "resume", p)
  /\ Then(c, <<>>)
  /\ UNCHANGED <<cpuVars, lockVars, on, state>>

\* The end of sched(), on whatever CPU the process is now.
resume(c, p) ==
  /\ At(c, "resume", p)
  /\ intena' = [intena EXCEPT ![c] = Val(c)]
  /\ Then(c, <<>>)
  /\ UNCHANGED <<sie, noff, lockVars, on, state>>

\* Interrupts off before, and on with, the return to user space; the latter
\* is also how a trap returns to the code it interrupted.
return(c, p) ==
  /\ \/ At(c, "intr_off", p) /\ sie' = [sie EXCEPT ![c] = FALSE]
     \/ At(c, "sret", p) /\ sie' = [sie EXCEPT ![c] = TRUE]
  /\ Then(c, <<>>)
  /\ UNCHANGED <<noff, intena, lockVars, on, state>>

-------------------------------------------------------------------------------
(* scheduler() of CPU c.                                                   *)

\* The top of its loop: intr_on().
loop(c) ==
  /\ on[c] = c /\ code[c] = <<>>
  /\ sie' = [sie EXCEPT ![c] = TRUE]
  /\ UNCHANGED <<noff, intena, lockVars, on, code, state>>

\* It looks at process p,
look(c, p) ==
  /\ on[c] = c /\ code[c] = <<>>
  /\ code' = [code EXCEPT ![c] = acquire(p) \o Do("pick", p) \o release(p)]
  /\ UNCHANGED <<cpuVars, lockVars, on, state>>

\* and switches to it if it is RUNNABLE.
pick(c, p) ==
  /\ At(c, "pick", p)
  /\ Then(c, <<>>)
  /\ IF state[p] = "RUNNABLE"
     THEN /\ state' = [state EXCEPT ![p] = "RUNNING"]
          /\ on' = [on EXCEPT ![c] = p]
          /\ HandOver(c, p, p)
     ELSE UNCHANGED <<state, on, held>>
  /\ UNCHANGED <<cpuVars, locked, owner>>

-------------------------------------------------------------------------------
(* What a process does, and interrupts.                                    *)

\* A process that has nothing left to execute is in user space or in a system
\* call.  It takes one lock at a time, gives it back, or sleeps.
call(c, p, s) ==
  /\ on[c] = p /\ code[p] = <<>>
  /\ code' = [code EXCEPT ![p] = s]
  /\ UNCHANGED <<cpuVars, lockVars, on, state>>

Calls(p) == {acquire(l) : l \in IF held[p] = {} THEN Lock ELSE {}}
            \cup {release(l) : l \in held[p]}
            \cup {sleep(p, l) : l \in held[p]}

\* wakeup(), by some other process.
wakeup(p) ==
  /\ state[p] = "SLEEPING" /\ ~locked[p]
  /\ state' = [state EXCEPT ![p] = "RUNNABLE"]
  /\ UNCHANGED <<cpuVars, lockVars, on, code>>

\* kerneltrap() or usertrap() for an interrupt: devintr(), yield() if it is
\* the timer's and a process was interrupted, return.
trap(c, timer) ==
  /\ sie[c]
  /\ sie' = [sie EXCEPT ![c] = FALSE]
  /\ LET t == on[c]
     IN  code' = [code EXCEPT ![t] =
           acquire(tickslock) \o release(tickslock)
           \o (IF timer /\ t \in Proc THEN yield(t) ELSE <<>>)
           \o Do("sret", tickslock) \o @]
  /\ UNCHANGED <<noff, intena, lockVars, on, state>>

Step(c) ==
  \/ \E l \in AnyLock : \/ acquire_begin(c, l) \/ push_off(c, l) \/ swap(c, l)
                        \/ setcpu(c, l) \/ release_begin(c, l) \/ unlock(c, l)
                        \/ pop_off(c, l) \/ return(c, l)
  \/ \E p \in Proc : setstate(c, p) \/ sched(c, p) \/ resume(c, p) \/ pick(c, p)

Next ==
  \/ \E c \in CPU : \/ Step(c) \/ loop(c)
                    \/ \E timer \in BOOLEAN : trap(c, timer)
                    \/ \E p \in Proc : look(c, p) \/ \E s \in Calls(p) : call(c, p, s)
  \/ \E p \in Proc : wakeup(p)

Spec == Init /\ [][Next]_vars

-------------------------------------------------------------------------------
(* Properties.                                                             *)

(***************************************************************************)
(* At most one thread has a spinlock, across preemption, the move of a     *)
(* process between CPUs and the hand-over of p->lock at a context switch,  *)
(* and a CPU that holds a lock takes no interrupt, so no handler spins on  *)
(* a lock that the code it interrupted holds.                              *)
(***************************************************************************)
MutualExclusion ==
  /\ TypeOK
  /\ \A s, t \in Thread : held[s] \cap held[t] # {} => s = t
  /\ \A c \in CPU : sie[c] => noff[c] = 0 /\ held[on[c]] = {}

(***************************************************************************)
(* The interrupt state belongs to the thread: a process that holds no lock *)
(* runs with interrupts enabled again, however it was preempted, put to    *)
(* sleep and moved between CPUs in the middle of acquire().                *)
(***************************************************************************)
InterruptsRestored ==
  \A c \in CPU : on[c] \in Proc /\ code[on[c]] = <<>> =>
    /\ noff[c] = Cardinality(held[on[c]])
    /\ sie[c] <=> held[on[c]] = {}

(***************************************************************************)
(* No panic of acquire(), release(), pop_off() or sched() is reached.      *)
(***************************************************************************)
NoPanic ==
  /\ \A c \in CPU, l \in AnyLock :
       /\ At(c, "push_off", l) => ~holding(c, l)
       /\ At(c, "release", l) => holding(c, l)
       /\ At(c, "pop_off", l) => ~sie[c] /\ noff[c] >= 1
       /\ At(c, "sched", l) => SchedOK(c, l)
  /\ InterruptsRestored
===============================================================================
