--------------------------------- MODULE Proc ---------------------------------
(***************************************************************************)
(* The life of a process (kernel/proc.c): fork, exit, wait, kill, the      *)
(* switch to and from the scheduler, and the locks they take: wait_lock    *)
(* and one p->lock per slot of the process table.                          *)
(*                                                                         *)
(* A section of code that takes one p->lock and releases it is one step.   *)
(* A p->lock that is held across steps (a child being made, a process on   *)
(* its way through swtch()) and wait_lock are variables.  allocproc() and  *)
(* kkill() scan the table; only the slot they stop at matters.  The loop   *)
(* of wakeup(chan) is the step on the one process that sleeps on chan: in  *)
(* this module chan is a process and only that process sleeps on it.       *)
(* scheduler() may choose any RUNNABLE process here; Scheduler.tla has its *)
(* loop.  File descriptors and memory are left to other modules.           *)
(***************************************************************************)
EXTENDS Integers, FiniteSets

CONSTANTS NPROC,   \* slots of the process table
          CPU,     \* processors
          MaxPid,  \* bound: the largest pid handed out
          Status,  \* arguments of exit()
          KillPid  \* arguments of kill()

ASSUME ProcAssumption ==
  /\ NPROC \in Nat \ {0} /\ MaxPid \in Nat \ {0}
  /\ Status \subseteq Int /\ KillPid \subseteq Int

Slot == 1..NPROC
NoProc == 0          \* a null struct proc pointer, and a free lock
initproc == 1

VARIABLES
  state, pid, parent, chan, killed, xstate,  \* the fields of struct proc
  nextpid,
  plock,      \* p->lock: the process that holds it, or NoProc
  wait_lock,  \* wait_lock: the process that holds it, or NoProc
  cpu,        \* c->proc
  pc,         \* where the kernel thread of each process is
  spin,       \* whether a process is in acquire(&wait_lock), interrupts off
  np,         \* kfork(): the child being made
  status,     \* kexit(): its argument
  ret,        \* the pid and the status that wait() returned last
  exited      \* history: the pids that exited, with their status

fields == <<pid, parent, chan, killed, xstate>>
locals == <<np, status, ret>>
vars == <<state, fields, nextpid, plock, wait_lock, cpu, pc, spin, locals,
          exited>>

States == {"UNUSED", "USED", "SLEEPING", "RUNNABLE", "RUNNING", "ZOMBIE"}
Lines == {"user", "fork_copy", "fork_parent", "fork_run",
          "exit", "exit_wakeinit", "exit_wakeup", "exit_zombie",
          "wait", "wait_scan", "wait_killed", "wait_sleep"}
Exits == Status \cup {-1}

TypeOK ==
  /\ state \in [Slot -> States]
  /\ pid \in [Slot -> 0..MaxPid] /\ nextpid \in 1..(MaxPid + 1)
  /\ parent \in [Slot -> Slot \cup {NoProc}]
  /\ chan \in [Slot -> Slot \cup {NoProc}]
  /\ killed \in [Slot -> BOOLEAN]
  /\ xstate \in [Slot -> Exits \cup {0}]
  /\ plock \in [Slot -> Slot \cup {NoProc}]
  /\ wait_lock \in Slot \cup {NoProc}
  /\ cpu \in [CPU -> Slot \cup {NoProc}]
  /\ pc \in [Slot -> Lines]
  /\ spin \in [Slot -> BOOLEAN]
  /\ np \in [Slot -> Slot \cup {NoProc}]
  /\ status \in [Slot -> Exits \cup {0}]
  /\ ret \in [Slot -> (0..MaxPid) \X (Exits \cup {0})]
  /\ exited \in SUBSET ((1..MaxPid) \X Exits)

\* userinit() has made the first process; the schedulers start.
Init ==
  /\ state = [p \in Slot |-> IF p = initproc THEN "RUNNABLE" ELSE "UNUSED"]
  /\ pid = [p \in Slot |-> IF p = initproc THEN 1 ELSE 0]
  /\ nextpid = 2
  /\ parent = [p \in Slot |-> NoProc] /\ chan = [p \in Slot |-> NoProc]
  /\ killed = [p \in Slot |-> FALSE] /\ xstate = [p \in Slot |-> 0]
  /\ plock = [p \in Slot |-> NoProc] /\ wait_lock = NoProc
  /\ cpu = [c \in CPU |-> NoProc]
  /\ pc = [p \in Slot |-> "user"] /\ spin = [p \in Slot |-> FALSE]
  /\ np = [p \in Slot |-> NoProc]
  /\ status = [p \in Slot |-> 0]
  /\ ret = [p \in Slot |-> <<0, 0>>]
  /\ exited = {}

-------------------------------------------------------------------------------
(* The CPU.                                                                *)

\* A definition whose name ends in _bug is a deliberate error in the one that
\* follows it; each property is shown to fail when such an error is made.

OnCpu(p) == \E c \in CPU : cpu[c] = p

\* Process p runs and is at line l of the kernel.
At(p, l) == state[p] = "RUNNING" /\ OnCpu(p) /\ pc[p] = l

Free(lk) == lk = NoProc

Goto(p, l) == pc' = [pc EXCEPT ![p] = l]

\* scheduler(): take p->lock, run p, and p's side of swtch(): the end of
\* sleep(), of yield() or of forkret(), each of which releases p->lock.
dispatch(c, p) ==
  /\ cpu[c] = NoProc /\ Free(plock[p]) /\ state[p] = "RUNNABLE"
  /\ state' = [state EXCEPT ![p] = "RUNNING"]
  /\ cpu' = [cpu EXCEPT ![c] = p]
  /\ chan' = [chan EXCEPT ![p] = NoProc]
  /\ UNCHANGED <<pid, parent, killed, xstate, nextpid, plock, wait_lock, pc,
                 locals, spin, exited>>

\* scheduler() after swtch(): c->proc = 0 and release(&p->lock).
switched(c) ==
  /\ cpu[c] # NoProc /\ state[cpu[c]] # "RUNNING"
  /\ cpu' = [cpu EXCEPT ![c] = NoProc]
  /\ plock' = [plock EXCEPT ![cpu[c]] = NoProc]
  /\ UNCHANGED <<state, fields, nextpid, wait_lock, pc, locals, spin, exited>>

\* push_off() in acquire(&wait_lock): from here to the release of the lock
\* no interrupt comes.
spin_wait_lock(p) ==
  /\ state[p] = "RUNNING" /\ OnCpu(p) /\ ~spin[p]
  /\ pc[p] \in {"fork_parent", "exit", "wait"}
  /\ spin' = [spin EXCEPT ![p] = TRUE]
  /\ UNCHANGED <<state, fields, nextpid, plock, wait_lock, cpu, pc, locals,
                 exited>>

\* acquire(&wait_lock) succeeds; the caller says what it does with the lock.
Acquired(p) == /\ spin[p] /\ Free(wait_lock)
               /\ spin' = [spin EXCEPT ![p] = FALSE]

\* The first half of yield(), from the timer interrupt, which comes only
\* while the process neither holds a spinlock nor spins for one.
yield(p) ==
  /\ state[p] = "RUNNING" /\ OnCpu(p) /\ ~spin[p]
  /\ wait_lock # p /\ \A q \in Slot : plock[q] # p
  /\ Free(plock[p])
  /\ plock' = [plock EXCEPT ![p] = p]
  /\ state' = [state EXCEPT ![p] = "RUNNABLE"]
  /\ UNCHANGED <<fields, nextpid, wait_lock, cpu, pc, locals, spin, exited>>

\* usertrap() lets a process begin a system call only while it is not killed.
Syscall(p) == At(p, "user") /\ ~killed[p]

-------------------------------------------------------------------------------
(* kfork().                                                                *)

\* Error: the slot is not made free.
freeproc_bug(q) ==
  /\ pid' = [pid EXCEPT ![q] = 0]
  /\ parent' = [parent EXCEPT ![q] = NoProc]
  /\ chan' = [chan EXCEPT ![q] = NoProc]
  /\ killed' = [killed EXCEPT ![q] = FALSE]
  /\ UNCHANGED <<state, xstate>>

\* freeproc(q), with q->lock held.
freeproc(q) ==
  /\ state' = [state EXCEPT ![q] = "UNUSED"]
  /\ pid' = [pid EXCEPT ![q] = 0]
  /\ parent' = [parent EXCEPT ![q] = NoProc]
  /\ chan' = [chan EXCEPT ![q] = NoProc]
  /\ killed' = [killed EXCEPT ![q] = FALSE]
  /\ xstate' = [xstate EXCEPT ![q] = 0]

\* allocpid(), for slot q.
allocpid(q) ==
  pid' = [pid EXCEPT ![q] = nextpid] /\ nextpid' = nextpid + 1

\* allocproc() finds the slot q and returns with its lock held.  When it
\* finds none fork() returns -1 and nothing has changed.
allocproc(p, q) ==
  /\ Syscall(p) /\ nextpid <= MaxPid
  /\ state[q] = "UNUSED" /\ Free(plock[q])
  /\ plock' = [plock EXCEPT ![q] = p]
  /\ allocpid(q)
  /\ state' = [state EXCEPT ![q] = "USED"]
  /\ np' = [np EXCEPT ![p] = q]
  /\ pc' = [pc EXCEPT ![p] = "fork_copy", ![q] = "user"]
  /\ UNCHANGED <<parent, chan, killed, xstate, wait_lock, cpu, status, ret,
                 spin, exited>>

\* No memory for the trapframe, the page table or the copy: undo.
fork_fail(p) ==
  /\ At(p, "fork_copy")
  /\ freeproc(np[p])
  /\ plock' = [plock EXCEPT ![np[p]] = NoProc]
  /\ np' = [np EXCEPT ![p] = NoProc]
  /\ Goto(p, "user")
  /\ UNCHANGED <<nextpid, wait_lock, cpu, status, ret, spin, exited>>

\* The copy is made; release(&np->lock).
fork_copy(p) ==
  /\ At(p, "fork_copy")
  /\ plock' = [plock EXCEPT ![np[p]] = NoProc]
  /\ Goto(p, "fork_parent")
  /\ UNCHANGED <<state, fields, nextpid, wait_lock, cpu, locals, spin, exited>>

\* np->parent = p, under wait_lock.
fork_parent(p) ==
  /\ At(p, "fork_parent") /\ Acquired(p)
  /\ parent' = [parent EXCEPT ![np[p]] = p]
  /\ Goto(p, "fork_run")
  /\ UNCHANGED <<state, pid, chan, killed, xstate, nextpid, plock, wait_lock,
                 cpu, locals, exited>>

\* np->state = RUNNABLE, under np->lock; fork() returns.
fork_run(p) ==
  /\ At(p, "fork_run") /\ Free(plock[np[p]])
  /\ state' = [state EXCEPT ![np[p]] = "RUNNABLE"]
  /\ np' = [np EXCEPT ![p] = NoProc]
  /\ Goto(p, "user")
  /\ UNCHANGED <<fields, nextpid, plock, wait_lock, cpu, status, ret, spin, exited>>

-------------------------------------------------------------------------------
(* kexit().                                                                *)

\* exit(s), or usertrap() finds the process killed and calls kexit(-1).
exit(p, s) ==
  /\ p # initproc
  /\ At(p, "user") /\ (killed[p] => s = -1)
  /\ status' = [status EXCEPT ![p] = s]
  /\ Goto(p, "exit")
  /\ UNCHANGED <<state, fields, nextpid, plock, wait_lock, cpu, np, ret, spin, exited>>

Children(p) == {q \in Slot : parent[q] = p}

\* Error: the children of p are kept.
Adopted_bug(p) == parent

\* The loop of reparent(): init becomes the parent of the children of p.
Adopted(p) == [q \in Slot |-> IF parent[q] = p THEN initproc ELSE parent[q]]

\* acquire(&wait_lock) and reparent(p), up to its first wakeup(initproc).
reparent(p) ==
  /\ At(p, "exit") /\ Acquired(p)
  /\ wait_lock' = p
  /\ parent' = Adopted(p)
  /\ Goto(p, IF Children(p) = {} THEN "exit_wakeup" ELSE "exit_wakeinit")
  /\ UNCHANGED <<state, pid, chan, killed, xstate, nextpid, plock, cpu, locals,
                 exited>>

\* wakeup(q): q is made RUNNABLE if it sleeps on itself.
wakeup(q) ==
  /\ Free(plock[q])
  /\ state' = IF state[q] = "SLEEPING" /\ chan[q] = q
              THEN [state EXCEPT ![q] = "RUNNABLE"] ELSE state

\* wakeup(initproc) in reparent().
exit_wakeinit(p) ==
  /\ At(p, "exit_wakeinit")
  /\ wakeup(initproc)
  /\ Goto(p, "exit_wakeup")
  /\ UNCHANGED <<fields, nextpid, plock, wait_lock, cpu, locals, spin, exited>>

\* wakeup(p->parent).
exit_wakeup(p) ==
  /\ At(p, "exit_wakeup")
  /\ wakeup(parent[p])
  /\ Goto(p, "exit_zombie")
  /\ UNCHANGED <<fields, nextpid, plock, wait_lock, cpu, locals, spin, exited>>

\* The rest of kexit(): p->lock is held until the scheduler has switched.
exit_zombie(p) ==
  /\ At(p, "exit_zombie") /\ Free(plock[p])
  /\ plock' = [plock EXCEPT ![p] = p]
  /\ xstate' = [xstate EXCEPT ![p] = status[p]]
  /\ state' = [state EXCEPT ![p] = "ZOMBIE"]
  /\ wait_lock' = NoProc
  /\ exited' = exited \cup {<<pid[p], status[p]>>}
  /\ UNCHANGED <<pid, parent, chan, killed, nextpid, cpu, pc, locals, spin>>

-------------------------------------------------------------------------------
(* kwait() and wait2(), which differs in what it copies out.               *)

wait(p) ==
  /\ Syscall(p)
  /\ Goto(p, "wait")
  /\ UNCHANGED <<state, fields, nextpid, plock, wait_lock, cpu, locals, spin, exited>>

\* acquire(&wait_lock), at the start and at the end of sleep().
wait_acquire(p) ==
  /\ At(p, "wait") /\ Acquired(p)
  /\ wait_lock' = p
  /\ Goto(p, "wait_scan")
  /\ UNCHANGED <<state, fields, nextpid, plock, cpu, locals, exited>>

\* Error: the state of a child is not looked at.
Zombies_bug(p) == Children(p)

Zombies(p) == {q \in Children(p) : state[q] = "ZOMBIE"}

\* Error: the lock of the child is not taken.
FirstZombie_bug(p, q) == q \in Zombies(p) /\ \A r \in Zombies(p) : q <= r

\* The scan stops at the first zombie child, whose lock it must get.
FirstZombie(p, q) ==
  /\ q \in Zombies(p) /\ \A r \in Zombies(p) : q <= r
  /\ Free(plock[q])

\* Found one: freeproc(q), return its pid and status.
wait_reap(p, q) ==
  /\ At(p, "wait_scan") /\ FirstZombie(p, q)
  /\ ret' = [ret EXCEPT ![p] = <<pid[q], xstate[q]>>]
  /\ freeproc(q)
  /\ wait_lock' = NoProc
  /\ Goto(p, "user")
  /\ UNCHANGED <<nextpid, plock, cpu, np, status, spin, exited>>

\* Found one, but copyout() fails: return -1, the child stays a zombie.
\* init passes a null pointer, with which copyout() is not called.
wait_fault(p, q) ==
  /\ p # initproc
  /\ At(p, "wait_scan") /\ FirstZombie(p, q)
  /\ wait_lock' = NoProc
  /\ Goto(p, "user")
  /\ UNCHANGED <<state, fields, nextpid, plock, cpu, locals, spin, exited>>

\* No zombie: return -1 if there are no children, else look at p->killed.
wait_none(p) ==
  /\ At(p, "wait_scan") /\ Zombies(p) = {}
  /\ IF Children(p) = {}
     THEN wait_lock' = NoProc /\ Goto(p, "user")
     ELSE UNCHANGED wait_lock /\ Goto(p, "wait_killed")
  /\ UNCHANGED <<state, fields, nextpid, plock, cpu, locals, spin, exited>>

\* Error: wait_lock is released before sleep() has p->lock.
wait_killed_bug(p) ==
  /\ At(p, "wait_killed") /\ Free(plock[p])
  /\ wait_lock' = NoProc
  /\ Goto(p, IF killed[p] THEN "user" ELSE "wait_sleep")
  /\ UNCHANGED <<state, fields, nextpid, plock, cpu, locals, spin, exited>>

\* killed(p): return -1, or go to sleep.
wait_killed(p) ==
  /\ At(p, "wait_killed") /\ Free(plock[p])
  /\ IF killed[p]
     THEN wait_lock' = NoProc /\ Goto(p, "user")
     ELSE UNCHANGED wait_lock /\ Goto(p, "wait_sleep")
  /\ UNCHANGED <<state, fields, nextpid, plock, cpu, locals, spin, exited>>

\* sleep(p, &wait_lock), up to swtch().
wait_sleep(p) ==
  /\ At(p, "wait_sleep") /\ Free(plock[p])
  /\ plock' = [plock EXCEPT ![p] = p]
  /\ wait_lock' = NoProc
  /\ chan' = [chan EXCEPT ![p] = p]
  /\ state' = [state EXCEPT ![p] = "SLEEPING"]
  /\ Goto(p, "wait")
  /\ UNCHANGED <<pid, parent, killed, xstate, nextpid, cpu, locals, spin, exited>>

-------------------------------------------------------------------------------
\* kkill(n), called by p.
kill(p, n) ==
  /\ Syscall(p)
  /\ \E q \in Slot :
       /\ pid[q] = n /\ Free(plock[q])
       /\ killed' = [killed EXCEPT ![q] = TRUE]
       /\ state' = IF state[q] = "SLEEPING"
                   THEN [state EXCEPT ![q] = "RUNNABLE"] ELSE state
  /\ UNCHANGED <<pid, parent, chan, xstate, nextpid, plock, wait_lock, cpu, pc,
                 locals, spin, exited>>

\* The steps the kernel takes for a process without the process asking.
Kernel(p) ==
  \/ spin_wait_lock(p)
  \/ fork_fail(p) \/ fork_copy(p) \/ fork_parent(p) \/ fork_run(p)
  \/ reparent(p) \/ exit_wakeinit(p) \/ exit_wakeup(p) \/ exit_zombie(p)
  \/ wait_acquire(p) \/ wait_none(p) \/ wait_killed(p) \/ wait_sleep(p)
  \/ \E q \in Slot : wait_reap(p, q) \/ wait_fault(p, q)

Next ==
  \/ \E c \in CPU, p \in Slot : dispatch(c, p)
  \/ \E c \in CPU : switched(c)
  \/ \E p \in Slot :
       \/ yield(p) \/ wait(p) \/ Kernel(p)
       \/ \E q \in Slot : allocproc(p, q)
       \/ \E s \in Exits : exit(p, s)
       \/ \E n \in KillPid : kill(p, n)

Spec == Init /\ [][Next]_vars

(***************************************************************************)
(* The timer interrupts every running process, scheduler() comes to every  *)
(* runnable one (Scheduler.tla), a contended spinlock is got in the end,   *)
(* and init calls wait() over and over (user/init.c).                      *)
(***************************************************************************)
Fairness ==
  /\ \A c \in CPU : WF_vars(switched(c))
  /\ \A p \in Slot : /\ SF_vars(\E c \in CPU : dispatch(c, p))
                     /\ WF_vars(yield(p))
                     /\ SF_vars(Kernel(p))
                     /\ WF_vars(killed[p] /\ exit(p, -1))
  /\ SF_vars(wait(initproc))

FairSpec == Spec /\ Fairness

-------------------------------------------------------------------------------
(* Properties.                                                             *)

(***************************************************************************)
(* A process is on at most one CPU, and its slot and kernel stack are not  *)
(* freed, given to a new process or run by a second CPU while a CPU is     *)
(* still on that stack: kwait() takes the child's lock, which the child    *)
(* holds until the scheduler has switched away from it.                    *)
(***************************************************************************)
StackInUse ==
  /\ TypeOK
  /\ \A c \in CPU : cpu[c] # NoProc =>
       /\ \A d \in CPU : cpu[d] = cpu[c] => d = c
       /\ state[cpu[c]] = "RUNNING" \/ plock[cpu[c]] = cpu[c]
       /\ state[cpu[c]] \notin {"UNUSED", "USED"}

(***************************************************************************)
(* A parent is never gone before its child: reparent() gives the children  *)
(* of an exiting process to init, also one whose fork() is not complete.   *)
(***************************************************************************)
ParentAlive ==
  \A p \in Slot : parent[p] # NoProc =>
    /\ state[p] # "UNUSED"
    /\ state[parent[p]] \notin {"UNUSED", "USED", "ZOMBIE"}

(***************************************************************************)
(* No exit is missed: a process asleep in wait() has a child and none of   *)
(* its children is a zombie, unless a child is just exiting and holds      *)
(* wait_lock.                                                              *)
(***************************************************************************)
NoMissedExit ==
  \A p \in Slot : (Free(wait_lock) /\ state[p] = "SLEEPING" /\ chan[p] = p) =>
    Children(p) # {} /\ Zombies(p) = {}

(***************************************************************************)
(* wait() returns the pid and the status of a process that did exit with   *)
(* that status, and each exit is returned to one wait() at most once.      *)
(***************************************************************************)
WaitReturnsExit ==
  [][\A p \in Slot : ret'[p] # ret[p] =>
       /\ ret'[p] \in exited
       /\ \E q \in Slot : /\ parent[q] = p /\ pid[q] = ret'[p][1]
                          /\ \A r \in Slot : pid'[r] # pid[q]]_vars

(***************************************************************************)
(* Every zombie whose parent is init is reaped in the end: neither the     *)
(* wakeup in reparent() nor the one in kexit() is lost.                    *)
(***************************************************************************)
OrphansReaped ==
  \A p \in Slot :
    state[p] = "ZOMBIE" /\ parent[p] = initproc ~> state[p] = "UNUSED"
===============================================================================
