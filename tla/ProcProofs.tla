------------------------------ MODULE ProcProofs ------------------------------
(***************************************************************************)
(* Proofs about Proc: the process table, wait_lock and the p->locks keep   *)
(* the properties StackInUse, ParentAlive, NoMissedExit and                *)
(* WaitReturnsExit, for any number of slots, CPUs, pids and statuses.      *)
(*                                                                         *)
(* None of the properties is inductive.  Inv adds what the code relies on  *)
(* without saying so: who may be at which line with wait_lock held, that a *)
(* child under construction belongs to one fork(), that pids are not       *)
(* reused, and what reparent() has done by the time a process is a zombie. *)
(***************************************************************************)
EXTENDS Proc, TLAPS

Alive == {"SLEEPING", "RUNNABLE", "RUNNING"}

InFork == {"fork_copy", "fork_parent", "fork_run"}

\* The lines of kexit() after reparent(): p has no children any more.
Exiting == {"exit_wakeinit", "exit_wakeup", "exit_zombie"}

\* The lines at which wait_lock is held.
Locked == Exiting \cup {"wait_scan", "wait_killed", "wait_sleep"}

-------------------------------------------------------------------------------
(* The inductive invariant.                                                *)

\* c->proc and the p->lock that is held through swtch().
CpuInv ==
  /\ \A c, d \in CPU : cpu[c] # NoProc /\ cpu[d] = cpu[c] => d = c
  /\ \A c \in CPU : cpu[c] # NoProc =>
       /\ state[cpu[c]] = "RUNNING" \/ plock[cpu[c]] = cpu[c]
       /\ state[cpu[c]] \in Alive \cup {"ZOMBIE"}

\* A child under construction is USED, and only one kfork() makes it.
ForkInv ==
  \A p \in Slot : pc[p] \in InFork =>
    /\ np[p] \in Slot /\ state[p] \in {"RUNNING", "RUNNABLE"}
    /\ state[np[p]] = "USED"
    /\ parent[np[p]] = (IF pc[p] = "fork_run" THEN p ELSE NoProc)
    /\ \A q \in Slot : pc[q] \in InFork /\ np[q] = np[p] => q = p

\* wait_lock is held at the lines of Locked, by a process that runs; only a
\* zombie, or the slot of one, stays at the last line of kexit().
LockInv ==
  \A p \in Slot :
    /\ pc[p] \in Locked /\ state[p] = "RUNNING" => wait_lock = p
    /\ pc[p] \in Locked /\ state[p] # "RUNNING" =>
         pc[p] = "exit_zombie" /\ state[p] \in {"ZOMBIE", "UNUSED"}
    /\ state[p] = "ZOMBIE" => pc[p] = "exit_zombie"

\* The tree of processes.
ParentInv ==
  /\ state[initproc] \in Alive /\ pc[initproc] \notin Exiting \cup {"exit"}
  /\ \A p \in Slot :
       /\ state[p] = "UNUSED" => parent[p] = NoProc
       /\ p # initproc /\ state[p] \in Alive \cup {"ZOMBIE"} =>
            parent[p] # NoProc
       /\ parent[p] # NoProc =>
            state[parent[p]] \in Alive /\ pc[parent[p]] \notin Exiting

\* Pids are handed out once, and a zombie's status is the one it exited with.
PidInv ==
  /\ \A p \in Slot :
       /\ pid[p] < nextpid
       /\ state[p] # "UNUSED" => pid[p] # 0
       /\ \A q \in Slot : pid[p] # 0 /\ pid[q] = pid[p] => q = p
  /\ \A p \in Slot :
       /\ pc[p] \in Exiting \cup {"exit"} => status[p] \in Exits
       /\ state[p] = "ZOMBIE" => <<pid[p], xstate[p]>> \in exited

HasChild(p) == \E q \in Slot : parent[q] = p
NoZombie(p) == \A q \in Slot : parent[q] = p => state[q] # "ZOMBIE"

\* Who sleeps in kwait() has a child to wait for and has missed no exit; init
\* may have been given zombies by a reparent() that has yet to wake it.
SleepInv ==
  /\ \A p \in Slot : pc[p] \in {"wait_killed", "wait_sleep"} =>
       HasChild(p) /\ NoZombie(p)
  /\ \A p \in Slot : state[p] = "SLEEPING" =>
       /\ chan[p] = p /\ HasChild(p)
       /\ \/ NoZombie(p)
          \/ p = initproc /\ \E q \in Slot : pc[q] = "exit_wakeinit"
  /\ \A p \in Slot : pc[p] = "exit_zombie" /\ state[p] = "RUNNING" =>
       parent[p] # NoProc /\ state[parent[p]] # "SLEEPING"

Inv == TypeOK /\ CpuInv /\ ForkInv /\ LockInv /\ ParentInv /\ PidInv /\ SleepInv

-------------------------------------------------------------------------------
(* The proof.  Each conjunct has a lemma, with one step for each action or *)
(* for a few that leave it alone.                                          *)

\* Slot 1 exists, and the null pointer is not a slot.
LEMMA SlotFacts == initproc \in Slot /\ NoProc \notin Slot
  BY ProcAssumption DEF initproc, NoProc, Slot

\* A slot in use has a pid, a process at the end of kexit() a status, and a
\* kfork() under way a child.
LEMMA PidFacts ==
  ASSUME TypeOK, PidInv, NEW p \in Slot, state[p] # "UNUSED"
  PROVE  pid[p] \in 1..MaxPid
<1>1. pid[p] \in 0..MaxPid /\ pid[p] # 0
  BY Zenon DEF TypeOK, PidInv
<1> QED
  BY <1>1, ProcAssumption

\* A jump keeps the type of pc.
LEMMA GotoType ==
  ASSUME pc \in [Slot -> Lines], NEW p \in Slot, NEW l \in Lines, Goto(p, l)
  PROVE  pc' \in [Slot -> Lines]
  BY Zenon DEF Goto

\* The state after userinit() satisfies the invariant.
LEMMA InitInv == Init => Inv
<1> SUFFICES ASSUME Init PROVE Inv
  BY Zenon
<1> USE SlotFacts, ProcAssumption
<1>1. TypeOK
  BY DEF Init, TypeOK, States, Lines
<1>2. CpuInv /\ ForkInv /\ LockInv /\ ParentInv
  BY Zenon, <1>1 DEF Init, CpuInv, ForkInv, LockInv, ParentInv, InFork, Locked,
     Exiting, Alive
<1>3. PidInv
  BY <1>1 DEF Init, PidInv, Exiting
<1>4. SleepInv
  BY Zenon DEF Init, SleepInv
<1> QED
  BY Zenon, <1>1, <1>2, <1>3, <1>4 DEF Inv

\* A step that keeps the tree, that puts nobody to sleep, makes no zombie and
\* moves nobody to or from a line SleepInv speaks of.
LEMMA WaitQuiet ==
  ASSUME SleepInv, parent \in [Slot -> Slot \cup {NoProc}], parent' = parent,
         \A q \in Slot : state'[q] \in {"SLEEPING", "ZOMBIE"} =>
                           state'[q] = state[q] /\ chan'[q] = chan[q],
         \A q \in Slot : state'[q] = "RUNNING" /\ pc'[q] = "exit_zombie" =>
                           state[q] = "RUNNING",
         \A q \in Slot : pc'[q] = pc[q] \/
                           /\ pc[q] # "exit_wakeinit"
                           /\ pc'[q] \notin {"wait_killed", "wait_sleep", "exit_zombie"}
  PROVE  SleepInv'
<1>1. \A p \in Slot : (HasChild(p) => HasChild(p)') /\ (NoZombie(p) => NoZombie(p)')
  BY Zenon DEF HasChild, NoZombie
<1>2. \A q \in Slot : pc[q] = "exit_wakeinit" => pc'[q] = "exit_wakeinit"
  BY Zenon
<1>3. \A p \in Slot : pc'[p] \in {"wait_killed", "wait_sleep"} =>
                         HasChild(p)' /\ NoZombie(p)'
  BY <1>1 DEF SleepInv
<1>4. \A p \in Slot : state'[p] = "SLEEPING" =>
        /\ chan'[p] = p /\ HasChild(p)'
        /\ \/ NoZombie(p)'
           \/ p = initproc /\ \E q \in Slot : pc'[q] = "exit_wakeinit"
  BY <1>1, <1>2 DEF SleepInv
<1>5. \A p \in Slot : pc'[p] = "exit_zombie" /\ state'[p] = "RUNNING" =>
        parent'[p] # NoProc /\ state'[parent'[p]] # "SLEEPING"
  BY DEF SleepInv
<1> QED
  BY Zenon, <1>3, <1>4, <1>5 DEF SleepInv

\* Every step keeps the sleepers of kwait() from missing an exit.
LEMMA SleepStep ==
  ASSUME Inv, [Next]_vars
  PROVE  SleepInv'
<1>t. /\ state \in [Slot -> States]
      /\ parent \in [Slot -> Slot \cup {NoProc}]
      /\ chan \in [Slot -> Slot \cup {NoProc}]
      /\ pc \in [Slot -> Lines]
      /\ np \in [Slot -> Slot \cup {NoProc}]
  BY Zenon DEF Inv, TypeOK
<1>f. ForkInv
  BY Zenon DEF Inv
<1>l. LockInv
  BY Zenon DEF Inv
<1>s. SleepInv
  BY Zenon DEF Inv
<1>1. ASSUME NEW c \in CPU, NEW p \in Slot, dispatch(c, p) PROVE SleepInv'
  BY Zenon, <1>1, <1>t, <1>l, <1>s, WaitQuiet DEF dispatch, LockInv, Locked, Exiting
<1>2. ASSUME NEW c \in CPU, switched(c) PROVE SleepInv'
  BY Zenon, <1>2, <1>t, <1>s, WaitQuiet DEF switched, fields
<1>3. ASSUME NEW p \in Slot,
             yield(p) \/ spin_wait_lock(p) \/ (\E k \in KillPid : kill(p, k))
      PROVE  SleepInv'
  BY Zenon, <1>3, <1>t, <1>s, WaitQuiet DEF yield, spin_wait_lock, kill, fields
<1>4. ASSUME NEW p \in Slot, NEW q \in Slot, allocproc(p, q) PROVE SleepInv'
  BY Zenon, <1>4, <1>t, <1>l, <1>s, WaitQuiet
     DEF allocproc, Syscall, At, LockInv, Locked, Exiting
<1>5. ASSUME NEW p \in Slot,
             \/ fork_copy(p) \/ wait(p) \/ wait_acquire(p)
             \/ \E s \in Exits : exit(p, s)
             \/ \E q \in Slot : wait_fault(p, q)
      PROVE  SleepInv'
  BY Zenon, <1>5, <1>t, <1>s, WaitQuiet
     DEF fork_copy, exit, wait, wait_acquire, wait_fault, Syscall, At, Goto, fields
<1>6. ASSUME NEW p \in Slot, fork_run(p) PROVE SleepInv'
  <2>1. pc[p] = "fork_run" /\ np[p] \in Slot /\ state[np[p]] = "USED"
    BY Zenon, <1>6, <1>f DEF fork_run, At, ForkInv, InFork
  <2>2. pc[np[p]] # "exit_zombie"
    BY Zenon, <2>1, <1>t, <1>l DEF LockInv, Locked, Exiting
  <2> QED
    BY Zenon, <1>6, <2>1, <2>2, <1>t, <1>s, WaitQuiet DEF fork_run, Goto, fields
<1>7. ASSUME NEW p \in Slot, fork_fail(p) PROVE SleepInv'
  <2>1. /\ pc[p] = "fork_copy" /\ np[p] \in Slot /\ state[np[p]] = "USED"
        /\ parent[np[p]] = NoProc
    BY Zenon, <1>7, <1>f DEF fork_fail, At, ForkInv, InFork
  <2>2. parent' = parent
    BY Zenon, <1>7, <2>1, <1>t DEF fork_fail, freeproc
  <2> QED
    BY Zenon, <1>7, <2>1, <2>2, <1>t, <1>s, WaitQuiet DEF fork_fail, freeproc, Goto
<1>8. ASSUME NEW p \in Slot, fork_parent(p) PROVE SleepInv'
  <2>1. /\ pc[p] = "fork_parent" /\ np[p] \in Slot /\ state[np[p]] = "USED"
        /\ parent[np[p]] = NoProc
    BY Zenon, <1>8, <1>f DEF fork_parent, At, ForkInv, InFork
  <2>2. /\ state' = state /\ chan' = chan /\ pc' = [pc EXCEPT ![p] = "fork_run"]
        /\ parent' = [parent EXCEPT ![np[p]] = p]
    BY Zenon, <1>8 DEF fork_parent, Goto
  <2>3. \A q \in Slot : (HasChild(q) => HasChild(q)') /\ (NoZombie(q) => NoZombie(q)')
    BY Zenon, <2>1, <2>2, <1>t, SlotFacts DEF HasChild, NoZombie
  <2>4. \A q \in Slot : state[q] = "RUNNING" => parent'[q] = parent[q]
    BY Zenon, <2>1, <2>2, <1>t
  <2> QED
    BY <2>1, <2>2, <2>3, <2>4, <1>t, <1>s DEF SleepInv
<1>9. ASSUME NEW p \in Slot, reparent(p) PROVE SleepInv'
  <2>1. /\ state' = state /\ chan' = chan /\ parent' = Adopted(p)
        /\ pc' = [pc EXCEPT ![p] = IF Children(p) = {} THEN "exit_wakeup" ELSE "exit_wakeinit"]
        /\ wait_lock = NoProc /\ state[p] = "RUNNING"
    BY Zenon, <1>9 DEF reparent, Goto, At, Acquired, Free
  <2>2. \A q \in Slot : pc[q] \in Locked => pc[q] = "exit_zombie" /\ state[q] # "RUNNING"
    BY Zenon, <2>1, <1>l, SlotFacts DEF LockInv
  <2>3. \A q \in Slot : pc'[q] \notin {"wait_killed", "wait_sleep"}
    BY Zenon, <2>1, <2>2, <1>t DEF Locked, Exiting
  <2>4. \A q \in Slot : ~(pc'[q] = "exit_zombie" /\ state'[q] = "RUNNING")
    BY Zenon, <2>1, <2>2, <1>t DEF Locked, Exiting
  <2>5. ASSUME NEW q \in Slot, q # p, HasChild(q) PROVE HasChild(q)'
    BY Zenon, <2>1, <2>5 DEF HasChild, Adopted
  <2>6. ASSUME NEW q \in Slot, q # initproc, NoZombie(q) PROVE NoZombie(q)'
    BY Zenon, <2>1, <2>6, SlotFacts DEF NoZombie, Adopted
  <2>7. NoZombie(initproc)' \/ NoZombie(initproc) =>
          NoZombie(initproc)' \/ pc'[p] = "exit_wakeinit"
    BY Zenon, <2>1, <1>t, SlotFacts DEF NoZombie, Adopted, Children
  <2>8. \A q \in Slot : pc[q] # "exit_wakeinit"
    BY Zenon, <2>2 DEF Locked, Exiting
  <2>9. ASSUME NEW q \in Slot, state[q] = "SLEEPING"
        PROVE  q # p /\ chan[q] = q /\ HasChild(q) /\ NoZombie(q)
    BY Zenon, <2>9, <2>1, <2>8, <1>s DEF SleepInv
  <2>10. ASSUME NEW q \in Slot, state[q] = "SLEEPING"
         PROVE  /\ chan'[q] = q /\ HasChild(q)'
                /\ NoZombie(q)' \/ (q = initproc /\ pc'[p] = "exit_wakeinit")
    BY Zenon, <2>1, <2>5, <2>6, <2>7, <2>9, <2>10
  <2> QED
    BY Zenon, <2>1, <2>3, <2>4, <2>10 DEF SleepInv
<1>a. ASSUME NEW p \in Slot, pc[p] \in Locked, state[p] = "RUNNING", NEW q \in Slot, q # p
      PROVE  ~(pc[q] \in Locked /\ (pc[q] # "exit_zombie" \/ state[q] = "RUNNING"))
  BY Zenon, <1>a, <1>l DEF LockInv
<1>10. ASSUME NEW p \in Slot, exit_wakeinit(p) PROVE SleepInv'
  <2>1. /\ pc[p] = "exit_wakeinit" /\ state[p] = "RUNNING" /\ wakeup(initproc)
        /\ pc' = [pc EXCEPT ![p] = "exit_wakeup"] /\ parent' = parent /\ chan' = chan
    BY Zenon, <1>10 DEF exit_wakeinit, At, Goto, fields
  <2>2. /\ \A q \in Slot : state'[q] = state[q] \/ (q = initproc /\ state'[q] = "RUNNABLE")
        /\ state'[initproc] # "SLEEPING"
    BY Zenon, <2>1, <1>t, <1>s, SlotFacts DEF wakeup, SleepInv
  <2>3. \A q \in Slot : pc'[q] \notin {"wait_killed", "wait_sleep"}
                        /\ ~(pc'[q] = "exit_zombie" /\ state'[q] = "RUNNING")
    BY Zenon, <2>1, <2>2, <1>t, <1>a DEF Locked, Exiting
  <2>4. ASSUME NEW q \in Slot, state'[q] = "SLEEPING"
        PROVE  chan[q] = q /\ HasChild(q) /\ NoZombie(q)
    BY Zenon, <2>2, <2>4, <1>s DEF SleepInv
  <2>5. \A q \in Slot : (HasChild(q) => HasChild(q)') /\ (NoZombie(q) => NoZombie(q)')
    BY Zenon, <2>1, <2>2 DEF HasChild, NoZombie
  <2> QED
    BY Zenon, <2>1, <2>3, <2>4, <2>5 DEF SleepInv
<1>11. ASSUME NEW p \in Slot, exit_wakeup(p) PROVE SleepInv'
  <2>1. /\ pc[p] = "exit_wakeup" /\ state[p] = "RUNNING" /\ wakeup(parent[p])
        /\ pc' = [pc EXCEPT ![p] = "exit_zombie"] /\ parent' = parent /\ chan' = chan
    BY Zenon, <1>11 DEF exit_wakeup, At, Goto, fields
  <2>2. parent[p] \in Slot
    BY <2>1, <1>t DEF Inv, ParentInv, Alive, Exiting
  <2>3. /\ \A q \in Slot : state'[q] = state[q] \/ (q = parent[p] /\ state'[q] = "RUNNABLE")
        /\ state'[parent[p]] # "SLEEPING"
    BY Zenon, <2>1, <2>2, <1>t, <1>s DEF wakeup, SleepInv
  <2>4. \A q \in Slot : /\ pc'[q] \notin {"wait_killed", "wait_sleep"}
                        /\ pc'[q] = "exit_zombie" /\ state'[q] = "RUNNING" => q = p
                        /\ pc[q] # "exit_wakeinit"
    BY Zenon, <2>1, <2>3, <1>t, <1>a DEF Locked, Exiting
  <2>5. ASSUME NEW q \in Slot, state'[q] = "SLEEPING"
        PROVE  chan[q] = q /\ HasChild(q) /\ NoZombie(q)
    BY Zenon, <2>3, <2>4, <2>5, <1>s DEF SleepInv
  <2>6. \A q \in Slot : (HasChild(q) => HasChild(q)') /\ (NoZombie(q) => NoZombie(q)')
    BY Zenon, <2>1, <2>3 DEF HasChild, NoZombie
  <2> QED
    BY Zenon, <2>1, <2>2, <2>3, <2>4, <2>5, <2>6, SlotFacts DEF SleepInv
<1>12. ASSUME NEW p \in Slot, exit_zombie(p) PROVE SleepInv'
  <2>1. /\ pc[p] = "exit_zombie" /\ state[p] = "RUNNING" /\ pc' = pc
        /\ parent' = parent /\ chan' = chan /\ state' = [state EXCEPT ![p] = "ZOMBIE"]
    BY Zenon, <1>12 DEF exit_zombie, At
  <2>2. parent[p] # NoProc /\ state[parent[p]] # "SLEEPING"
    BY Zenon, <2>1, <1>s DEF SleepInv
  <2>3. \A q \in Slot : /\ pc[q] \notin {"wait_killed", "wait_sleep", "exit_wakeinit"}
                        /\ ~(pc[q] = "exit_zombie" /\ state'[q] = "RUNNING")
    BY Zenon, <2>1, <1>t, <1>a DEF Locked, Exiting
  <2>4. ASSUME NEW q \in Slot, state'[q] = "SLEEPING"
        PROVE  q # parent[p] /\ chan[q] = q /\ HasChild(q) /\ NoZombie(q)
    BY Zenon, <2>1, <2>2, <2>3, <2>4, <1>t, <1>s DEF SleepInv
  <2>5. \A q \in Slot : /\ HasChild(q) => HasChild(q)'
                        /\ q # parent[p] /\ NoZombie(q) => NoZombie(q)'
    BY Zenon, <2>1, <1>t DEF HasChild, NoZombie
  <2> QED
    BY Zenon, <2>1, <2>3, <2>4, <2>5 DEF SleepInv
<1>13. ASSUME NEW p \in Slot, NEW q \in Slot, wait_reap(p, q) PROVE SleepInv'
  <2>1. /\ pc[p] = "wait_scan" /\ state[p] = "RUNNING" /\ parent[q] = p /\ state[q] = "ZOMBIE"
        /\ pc' = [pc EXCEPT ![p] = "user"] /\ parent' = [parent EXCEPT ![q] = NoProc]
        /\ chan' = [chan EXCEPT ![q] = NoProc] /\ state' = [state EXCEPT ![q] = "UNUSED"]
    BY Zenon, <1>13 DEF wait_reap, FirstZombie, Zombies, Children, freeproc, At, Goto
  <2>2. \A r \in Slot : /\ pc'[r] \notin {"wait_killed", "wait_sleep"}
                        /\ pc[r] # "exit_wakeinit"
                        /\ ~(pc'[r] = "exit_zombie" /\ state'[r] = "RUNNING")
    BY Zenon, <2>1, <1>t, <1>a DEF Locked, Exiting
  <2>3. ASSUME NEW r \in Slot, state'[r] = "SLEEPING"
        PROVE  r # p /\ r # q /\ chan[r] = r /\ HasChild(r) /\ NoZombie(r)
    BY Zenon, <2>1, <2>2, <2>3, <1>t, <1>s DEF SleepInv
  <2>4. \A r \in Slot : r # p => /\ HasChild(r) => HasChild(r)'
                                 /\ NoZombie(r) => NoZombie(r)'
    BY Zenon, <2>1, <1>t, SlotFacts DEF HasChild, NoZombie
  <2> QED
    BY <2>1, <2>2, <2>3, <2>4, <1>t DEF SleepInv
<1>14. ASSUME NEW p \in Slot, wait_none(p) \/ wait_killed(p) PROVE SleepInv'
  <2>1. /\ state[p] = "RUNNING" /\ pc[p] \in {"wait_scan", "wait_killed"}
        /\ UNCHANGED <<state, parent, chan>>
    BY Zenon, <1>14 DEF wait_none, wait_killed, At, fields
  <2>2. PICK l \in {"user", "wait_killed", "wait_sleep"} : pc' = [pc EXCEPT ![p] = l]
    BY Zenon, <1>14 DEF wait_none, wait_killed, Goto
  <2>3. CASE l = "user"
    BY Zenon, <2>1, <2>2, <2>3, <1>t, <1>s, WaitQuiet
  <2>4. CASE l # "user"
    <3>1. HasChild(p) /\ NoZombie(p)
      BY <1>14, <2>1, <2>2, <2>4, <1>t, <1>s
         DEF wait_none, wait_killed, At, Goto, Zombies, Children, HasChild, NoZombie, SleepInv
    <3>2. \A q \in Slot : /\ pc'[q] \in {"wait_killed", "wait_sleep"} => q = p
                          /\ pc[q] # "exit_wakeinit"
                          /\ ~(pc'[q] = "exit_zombie" /\ state[q] = "RUNNING")
      BY Zenon, <2>1, <2>2, <1>t, <1>a DEF Locked, Exiting
    <3>3. \A q \in Slot : (HasChild(q) => HasChild(q)') /\ (NoZombie(q) => NoZombie(q)')
      BY Zenon, <2>1 DEF HasChild, NoZombie
    <3> QED
      BY Zenon, <2>1, <3>1, <3>2, <3>3, <1>s DEF SleepInv
  <2> QED
    BY Zenon, <2>3, <2>4
<1>15. ASSUME NEW p \in Slot, wait_sleep(p) PROVE SleepInv'
  <2>1. /\ pc[p] = "wait_sleep" /\ state[p] = "RUNNING"
        /\ pc' = [pc EXCEPT ![p] = "wait"] /\ parent' = parent
        /\ chan' = [chan EXCEPT ![p] = p] /\ state' = [state EXCEPT ![p] = "SLEEPING"]
    BY Zenon, <1>15 DEF wait_sleep, At, Goto
  <2>2. \A q \in Slot : /\ pc'[q] \notin {"wait_killed", "wait_sleep"}
                        /\ pc[q] # "exit_wakeinit"
                        /\ ~(pc'[q] = "exit_zombie" /\ state'[q] = "RUNNING")
    BY Zenon, <2>1, <1>t, <1>a DEF Locked, Exiting
  <2>3. ASSUME NEW q \in Slot, state'[q] = "SLEEPING"
        PROVE  chan'[q] = q /\ HasChild(q) /\ NoZombie(q)
    BY Zenon, <2>1, <2>2, <2>3, <1>t, <1>s DEF SleepInv
  <2>4. \A q \in Slot : (HasChild(q) => HasChild(q)') /\ (NoZombie(q) => NoZombie(q)')
    BY Zenon, <2>1, <1>t DEF HasChild, NoZombie
  <2> QED
    BY Zenon, <2>2, <2>3, <2>4 DEF SleepInv
<1>16. CASE UNCHANGED vars
  BY Zenon, <1>16, <1>t, <1>s, WaitQuiet DEF vars, fields
<1> QED
  BY Zenon, <1>1, <1>2, <1>3, <1>4, <1>5, <1>6, <1>7, <1>8, <1>9, <1>10, <1>11, <1>12,
     <1>13, <1>14, <1>15, <1>16 DEF Next, Kernel

\* A step that hands out and takes back no pid, makes no slot used and no
\* process a zombie, and leads nobody into kexit().
LEMMA PidQuiet ==
  ASSUME PidInv, UNCHANGED <<pid, nextpid, status, xstate, exited>>,
         \A q \in Slot : state'[q] = state[q] \/ (state[q] # "UNUSED" /\ state'[q] # "ZOMBIE"),
         \A q \in Slot : pc'[q] = pc[q] \/ pc'[q] \notin Exiting \cup {"exit"}
                                        \/ pc[q] \in Exiting \cup {"exit"}
  PROVE  PidInv'
<1>1. \A q \in Slot : /\ state'[q] # "UNUSED" => state[q] # "UNUSED"
                      /\ state'[q] = "ZOMBIE" => state[q] = "ZOMBIE"
                      /\ pc'[q] \in Exiting \cup {"exit"} => pc[q] \in Exiting \cup {"exit"}
  BY Zenon
<1> QED
  BY Zenon, <1>1 DEF PidInv

\* Every step keeps the pids apart and the statuses of the zombies recorded.
LEMMA PidStep ==
  ASSUME Inv, [Next]_vars
  PROVE  PidInv'
<1>t. /\ state \in [Slot -> States]
      /\ pid \in [Slot -> 0..MaxPid] /\ nextpid \in 1..(MaxPid + 1)
      /\ pc \in [Slot -> Lines]
      /\ status \in [Slot -> Exits \cup {0}]
      /\ xstate \in [Slot -> Exits \cup {0}]
  BY Zenon DEF Inv, TypeOK
<1>f. ForkInv
  BY Zenon DEF Inv
<1>l. LockInv
  BY Zenon DEF Inv
<1>p. PidInv
  BY Zenon DEF Inv
<1>1. ASSUME NEW c \in CPU, (\E p \in Slot : dispatch(c, p)) \/ switched(c) PROVE PidInv'
  BY Zenon, <1>1, <1>t, <1>p, PidQuiet DEF dispatch, switched, fields, locals
<1>2. ASSUME NEW p \in Slot,
             yield(p) \/ spin_wait_lock(p) \/ (\E k \in KillPid : kill(p, k))
      PROVE  PidInv'
  BY Zenon, <1>2, <1>t, <1>p, PidQuiet DEF yield, spin_wait_lock, kill, fields, locals
<1>3. ASSUME NEW p \in Slot, fork_copy(p) \/ fork_parent(p) \/ reparent(p) PROVE PidInv'
  BY Zenon, <1>3, <1>t, <1>p, PidQuiet
     DEF fork_copy, fork_parent, reparent, At, Goto, fields, locals, Exiting
<1>4. ASSUME NEW p \in Slot, fork_run(p) PROVE PidInv'
  <2>1. np[p] \in Slot /\ state[np[p]] = "USED"
    BY Zenon, <1>4, <1>f DEF fork_run, At, ForkInv, InFork
  <2> QED
    BY Zenon, <1>4, <2>1, <1>t, <1>p, PidQuiet DEF fork_run, Goto, fields, Exiting
<1>5. ASSUME NEW p \in Slot, exit_wakeinit(p) \/ exit_wakeup(p) PROVE PidInv'
  <2>1. PICK r : \/ state' = state
                 \/ state' = [state EXCEPT ![r] = "RUNNABLE"] /\ state[r] = "SLEEPING"
    BY Zenon, <1>5 DEF exit_wakeinit, exit_wakeup, wakeup
  <2>2. pc[p] \in Exiting /\ \E l \in Lines : pc' = [pc EXCEPT ![p] = l]
    BY Zenon, <1>5 DEF exit_wakeinit, exit_wakeup, At, Goto, Exiting, Lines
  <2> QED
    BY Zenon, <1>5, <2>1, <2>2, <1>t, <1>p, PidQuiet
       DEF exit_wakeinit, exit_wakeup, fields, locals
<1>6. ASSUME NEW p \in Slot, wait(p) \/ wait_acquire(p) \/ wait_sleep(p) PROVE PidInv'
  BY Zenon, <1>6, <1>t, <1>p, PidQuiet
     DEF wait, wait_acquire, wait_sleep, At, Goto, fields, locals, Exiting
<1>7. ASSUME NEW p \in Slot,
             wait_none(p) \/ wait_killed(p) \/ (\E q \in Slot : wait_fault(p, q))
      PROVE  PidInv'
  BY Zenon, <1>7, <1>t, <1>p, PidQuiet
     DEF wait_none, wait_killed, wait_fault, Goto, fields, locals, Exiting
<1>8. ASSUME NEW p \in Slot, NEW q \in Slot, allocproc(p, q) PROVE PidInv'
  <2>1. /\ pid' = [pid EXCEPT ![q] = nextpid] /\ nextpid' = nextpid + 1
        /\ state' = [state EXCEPT ![q] = "USED"] /\ UNCHANGED <<status, xstate, exited>>
        /\ pc' = [pc EXCEPT ![p] = "fork_copy", ![q] = "user"]
    BY Zenon, <1>8 DEF allocproc, allocpid
  <2>2. \A r \in Slot : pid[r] < nextpid
    BY Zenon, <1>p DEF PidInv
  <2>3. \A r \in Slot :
          /\ pid'[r] < nextpid'
          /\ state'[r] # "UNUSED" => pid'[r] # 0
          /\ \A u \in Slot : pid'[r] # 0 /\ pid'[u] = pid'[r] => u = r
    BY <2>1, <2>2, <1>t, <1>p DEF PidInv
  <2>4. \A r \in Slot :
          /\ pc'[r] \in Exiting \cup {"exit"} => status'[r] \in Exits
          /\ state'[r] = "ZOMBIE" => <<pid'[r], xstate'[r]>> \in exited'
    BY Zenon, <2>1, <1>t, <1>p DEF PidInv, Exiting
  <2> QED
    BY Zenon, <2>3, <2>4 DEF PidInv
<1>9. ASSUME NEW q \in Slot, freeproc(q), NEW p \in Slot, Goto(p, "user"),
             UNCHANGED <<nextpid, status, exited>>
      PROVE  PidInv'
  BY <1>9, <1>t, <1>p DEF freeproc, Goto, PidInv, Exiting
<1>10. ASSUME NEW p \in Slot, fork_fail(p) PROVE PidInv'
  <2>1. np[p] \in Slot
    BY Zenon, <1>10, <1>f DEF fork_fail, At, ForkInv, InFork
  <2> QED
    BY Zenon, <1>10, <2>1, <1>9 DEF fork_fail
<1>11. ASSUME NEW p \in Slot, NEW q \in Slot, wait_reap(p, q) PROVE PidInv'
  BY Zenon, <1>11, <1>9 DEF wait_reap
<1>12. ASSUME NEW p \in Slot, NEW s \in Exits, exit(p, s) PROVE PidInv'
  BY Zenon, <1>12, <1>t, <1>p DEF exit, Goto, fields, PidInv
<1>13. ASSUME NEW p \in Slot, exit_zombie(p) PROVE PidInv'
  <2>1. /\ pc[p] = "exit_zombie" /\ state[p] = "RUNNING"
        /\ UNCHANGED <<pid, nextpid, status, pc>>
        /\ state' = [state EXCEPT ![p] = "ZOMBIE"]
        /\ xstate' = [xstate EXCEPT ![p] = status[p]]
        /\ exited' = exited \cup {<<pid[p], status[p]>>}
    BY Zenon, <1>13 DEF exit_zombie, At, locals
  <2>2. \A q \in Slot : /\ state'[q] # "UNUSED" => state[q] # "UNUSED"
                        /\ state'[q] = "ZOMBIE" /\ q # p => state[q] = "ZOMBIE"
    BY <2>1, <1>t
  <2>3. \A q \in Slot : state'[q] = "ZOMBIE" => <<pid[q], xstate'[q]>> \in exited'
    BY <2>1, <2>2, <1>t, <1>p DEF PidInv
  <2> QED
    BY <2>1, <2>2, <2>3, <1>p DEF PidInv
<1>14. CASE UNCHANGED vars
  BY Zenon, <1>14, <1>p, PidQuiet DEF vars, fields, locals
<1> QED
  BY Zenon, <1>1, <1>2, <1>3, <1>4, <1>5, <1>6, <1>7, <1>8, <1>10, <1>11, <1>12, <1>13, <1>14
     DEF Next, Kernel

\* Every step keeps the parents alive and out of the last lines of kexit().
LEMMA ParentStep ==
  ASSUME Inv, [Next]_vars
  PROVE  ParentInv'
<1>t. /\ state \in [Slot -> States]
      /\ parent \in [Slot -> Slot \cup {NoProc}]
      /\ pc \in [Slot -> Lines]
      /\ np \in [Slot -> Slot \cup {NoProc}]
  BY Zenon DEF Inv, TypeOK
<1>i. ForkInv /\ LockInv /\ ParentInv
  BY Zenon DEF Inv
<1> USE SlotFacts, <1>t, <1>i DEF ForkInv, LockInv, ParentInv, Alive, Free,
    fields, locals, InFork, Locked, Exiting
<1>1. ASSUME NEW c \in CPU, NEW p \in Slot, dispatch(c, p) PROVE ParentInv'
  BY <1>1 DEF dispatch, At
<1>2. ASSUME NEW c \in CPU, switched(c) PROVE ParentInv'
  BY Zenon, <1>2 DEF switched
<1>3. ASSUME NEW p \in Slot, yield(p) PROVE ParentInv'
  BY <1>3 DEF yield
<1>4. ASSUME NEW p \in Slot, spin_wait_lock(p) PROVE ParentInv'
  BY Zenon, <1>4 DEF spin_wait_lock
<1>5. ASSUME NEW p \in Slot, NEW q \in Slot, allocproc(p, q) PROVE ParentInv'
  BY <1>5 DEF allocproc, allocpid, Syscall, At
<1>6. ASSUME NEW p \in Slot, fork_fail(p) PROVE ParentInv'
  BY <1>6 DEF fork_fail, freeproc, At, Goto
<1>7. ASSUME NEW p \in Slot, fork_copy(p) PROVE ParentInv'
  BY <1>7 DEF fork_copy, At, Goto
<1>8. ASSUME NEW p \in Slot, fork_parent(p) PROVE ParentInv'
  BY <1>8 DEF fork_parent, At, Goto, Acquired
<1>9. ASSUME NEW p \in Slot, fork_run(p) PROVE ParentInv'
  BY <1>9 DEF fork_run, At, Goto
<1>10. ASSUME NEW p \in Slot, NEW s \in Exits, exit(p, s) PROVE ParentInv'
  BY <1>10 DEF exit, At, Goto
<1>11. ASSUME NEW p \in Slot, reparent(p) PROVE ParentInv'
  BY <1>11 DEF reparent, At, Goto, Acquired, Adopted, Children
<1>12. ASSUME NEW p \in Slot, exit_wakeinit(p) PROVE ParentInv'
  BY <1>12 DEF exit_wakeinit, At, Goto, wakeup
<1>13. ASSUME NEW p \in Slot, exit_wakeup(p) PROVE ParentInv'
  BY <1>13 DEF exit_wakeup, At, Goto, wakeup
<1>14. ASSUME NEW p \in Slot, exit_zombie(p) PROVE ParentInv'
  BY <1>14 DEF exit_zombie, At
<1>15. ASSUME NEW p \in Slot, wait(p) PROVE ParentInv'
  BY <1>15 DEF wait, Syscall, At, Goto
<1>16. ASSUME NEW p \in Slot, wait_acquire(p) PROVE ParentInv'
  BY <1>16 DEF wait_acquire, At, Goto, Acquired
<1>17. ASSUME NEW p \in Slot, NEW q \in Slot, wait_reap(p, q) PROVE ParentInv'
  BY <1>17 DEF wait_reap, At, Goto, freeproc, FirstZombie, Zombies, Children
<1>18. ASSUME NEW p \in Slot, NEW q \in Slot, wait_fault(p, q) PROVE ParentInv'
  BY <1>18 DEF wait_fault, At, Goto, FirstZombie, Zombies, Children
<1>19. ASSUME NEW p \in Slot, wait_none(p) PROVE ParentInv'
  BY <1>19 DEF wait_none, At, Goto, Zombies, Children
<1>20. ASSUME NEW p \in Slot, wait_killed(p) PROVE ParentInv'
  BY <1>20 DEF wait_killed, At, Goto
<1>21. ASSUME NEW p \in Slot, wait_sleep(p) PROVE ParentInv'
  BY <1>21 DEF wait_sleep, At, Goto
<1>22. ASSUME NEW p \in Slot, NEW k \in KillPid, kill(p, k) PROVE ParentInv'
  BY <1>22 DEF kill, Syscall, At
<1>23. CASE UNCHANGED vars
  BY Zenon, <1>23 DEF vars
<1> HIDE DEF ForkInv, LockInv, ParentInv, Alive, Free, fields, locals, InFork,
    Locked, Exiting
<1> QED
  BY Zenon, <1>1, <1>2, <1>3, <1>4, <1>5, <1>6, <1>7, <1>8, <1>9, <1>10, <1>11, <1>12,
      <1>13, <1>14, <1>15, <1>16, <1>17, <1>18, <1>19, <1>20, <1>21, <1>22,
      <1>23 DEF Next, Kernel

\* Every step keeps wait_lock with the one process at a line that holds it.
LEMMA LockStep ==
  ASSUME Inv, [Next]_vars
  PROVE  LockInv'
<1>t. /\ state \in [Slot -> States]
      /\ pc \in [Slot -> Lines]
  BY Zenon DEF Inv, TypeOK
<1>i. ForkInv /\ LockInv
  BY Zenon DEF Inv
<1> USE SlotFacts, <1>t, <1>i DEF ForkInv, LockInv, Free, fields, locals,
    InFork, Locked, Exiting
<1>1. ASSUME NEW c \in CPU, NEW p \in Slot, dispatch(c, p) PROVE LockInv'
  BY Zenon, <1>1 DEF dispatch, At
<1>2. ASSUME NEW c \in CPU, switched(c) PROVE LockInv'
  BY Zenon, <1>2 DEF switched
<1>3. ASSUME NEW p \in Slot, yield(p) PROVE LockInv'
  BY <1>3 DEF yield
<1>4. ASSUME NEW p \in Slot, spin_wait_lock(p) PROVE LockInv'
  BY Zenon, <1>4 DEF spin_wait_lock
<1>5. ASSUME NEW p \in Slot, NEW q \in Slot, allocproc(p, q) PROVE LockInv'
  BY <1>5 DEF allocproc, allocpid, Syscall, At
<1>6. ASSUME NEW p \in Slot, fork_fail(p) PROVE LockInv'
  BY <1>6 DEF fork_fail, freeproc, At, Goto
<1>7. ASSUME NEW p \in Slot, fork_copy(p) PROVE LockInv'
  BY <1>7 DEF fork_copy, At, Goto
<1>8. ASSUME NEW p \in Slot, fork_parent(p) PROVE LockInv'
  BY <1>8 DEF fork_parent, At, Goto, Acquired
<1>9. ASSUME NEW p \in Slot, fork_run(p) PROVE LockInv'
  BY <1>9 DEF fork_run, At, Goto
<1>10. ASSUME NEW p \in Slot, NEW s \in Exits, exit(p, s) PROVE LockInv'
  BY <1>10 DEF exit, At, Goto
<1>11. ASSUME NEW p \in Slot, reparent(p) PROVE LockInv'
  BY <1>11 DEF reparent, At, Goto, Acquired, Adopted, Children
<1>12. ASSUME NEW p \in Slot, exit_wakeinit(p) PROVE LockInv'
  BY <1>12 DEF exit_wakeinit, At, Goto, wakeup
<1>13. ASSUME NEW p \in Slot, exit_wakeup(p) PROVE LockInv'
  BY <1>13 DEF exit_wakeup, At, Goto, wakeup
<1>14. ASSUME NEW p \in Slot, exit_zombie(p) PROVE LockInv'
  BY <1>14 DEF exit_zombie, At
<1>15. ASSUME NEW p \in Slot, wait(p) PROVE LockInv'
  BY <1>15 DEF wait, Syscall, At, Goto
<1>16. ASSUME NEW p \in Slot, wait_acquire(p) PROVE LockInv'
  BY <1>16 DEF wait_acquire, At, Goto, Acquired
<1>17. ASSUME NEW p \in Slot, NEW q \in Slot, wait_reap(p, q) PROVE LockInv'
  BY <1>17 DEF wait_reap, At, Goto, freeproc, FirstZombie, Zombies, Children
<1>18. ASSUME NEW p \in Slot, NEW q \in Slot, wait_fault(p, q) PROVE LockInv'
  BY <1>18 DEF wait_fault, At, Goto, FirstZombie, Zombies, Children
<1>19. ASSUME NEW p \in Slot, wait_none(p) PROVE LockInv'
  BY <1>19 DEF wait_none, At, Goto, Zombies, Children
<1>20. ASSUME NEW p \in Slot, wait_killed(p) PROVE LockInv'
  BY <1>20 DEF wait_killed, At, Goto
<1>21. ASSUME NEW p \in Slot, wait_sleep(p) PROVE LockInv'
  BY <1>21 DEF wait_sleep, At, Goto
<1>22. ASSUME NEW p \in Slot, NEW k \in KillPid, kill(p, k) PROVE LockInv'
  BY <1>22 DEF kill, Syscall, At
<1>23. CASE UNCHANGED vars
  BY Zenon, <1>23 DEF vars
<1> HIDE DEF ForkInv, LockInv, Free, fields, locals, InFork, Locked, Exiting
<1> QED
  BY Zenon, <1>1, <1>2, <1>3, <1>4, <1>5, <1>6, <1>7, <1>8, <1>9, <1>10, <1>11, <1>12,
      <1>13, <1>14, <1>15, <1>16, <1>17, <1>18, <1>19, <1>20, <1>21, <1>22,
      <1>23 DEF Next, Kernel

\* Every step leaves a child under construction to the kfork() that makes it.
LEMMA ForkStep ==
  ASSUME Inv, [Next]_vars
  PROVE  ForkInv'
<1>t. /\ state \in [Slot -> States]
      /\ parent \in [Slot -> Slot \cup {NoProc}]
      /\ pc \in [Slot -> Lines]
      /\ np \in [Slot -> Slot \cup {NoProc}]
  BY Zenon DEF Inv, TypeOK
<1>i. ForkInv /\ ParentInv
  BY Zenon DEF Inv
<1> USE SlotFacts, <1>t, <1>i DEF ForkInv, ParentInv, Free, fields, locals,
    InFork
<1>1. ASSUME NEW c \in CPU, NEW p \in Slot, dispatch(c, p) PROVE ForkInv'
  BY <1>1 DEF dispatch, At
<1>2. ASSUME NEW c \in CPU, switched(c) PROVE ForkInv'
  BY <1>2 DEF switched
<1>3. ASSUME NEW p \in Slot, yield(p) PROVE ForkInv'
  BY <1>3 DEF yield
<1>4. ASSUME NEW p \in Slot, spin_wait_lock(p) PROVE ForkInv'
  BY <1>4 DEF spin_wait_lock
<1>5. ASSUME NEW p \in Slot, NEW q \in Slot, allocproc(p, q) PROVE ForkInv'
  BY <1>5 DEF allocproc, allocpid, Syscall, At
<1>6. ASSUME NEW p \in Slot, fork_fail(p) PROVE ForkInv'
  BY <1>6 DEF fork_fail, freeproc, At, Goto
<1>7. ASSUME NEW p \in Slot, fork_copy(p) PROVE ForkInv'
  BY <1>7 DEF fork_copy, At, Goto
<1>8. ASSUME NEW p \in Slot, fork_parent(p) PROVE ForkInv'
  BY <1>8 DEF fork_parent, At, Goto, Acquired
<1>9. ASSUME NEW p \in Slot, fork_run(p) PROVE ForkInv'
  BY <1>9 DEF fork_run, At, Goto
<1>10. ASSUME NEW p \in Slot, NEW s \in Exits, exit(p, s) PROVE ForkInv'
  BY <1>10 DEF exit, At, Goto
<1>11. ASSUME NEW p \in Slot, reparent(p) PROVE ForkInv'
  BY <1>11 DEF reparent, At, Goto, Acquired, Adopted, Children
<1>12. ASSUME NEW p \in Slot, exit_wakeinit(p) PROVE ForkInv'
  BY <1>12 DEF exit_wakeinit, At, Goto, wakeup
<1>13. ASSUME NEW p \in Slot, exit_wakeup(p) PROVE ForkInv'
  BY <1>13 DEF exit_wakeup, At, Goto, wakeup
<1>14. ASSUME NEW p \in Slot, exit_zombie(p) PROVE ForkInv'
  BY <1>14 DEF exit_zombie, At
<1>15. ASSUME NEW p \in Slot, wait(p) PROVE ForkInv'
  BY <1>15 DEF wait, Syscall, At, Goto
<1>16. ASSUME NEW p \in Slot, wait_acquire(p) PROVE ForkInv'
  BY <1>16 DEF wait_acquire, At, Goto, Acquired
<1>17. ASSUME NEW p \in Slot, NEW q \in Slot, wait_reap(p, q) PROVE ForkInv'
  BY <1>17 DEF wait_reap, At, Goto, freeproc, FirstZombie, Zombies, Children
<1>18. ASSUME NEW p \in Slot, NEW q \in Slot, wait_fault(p, q) PROVE ForkInv'
  BY <1>18 DEF wait_fault, At, Goto, FirstZombie, Zombies, Children
<1>19. ASSUME NEW p \in Slot, wait_none(p) PROVE ForkInv'
  BY <1>19 DEF wait_none, At, Goto, Zombies, Children
<1>20. ASSUME NEW p \in Slot, wait_killed(p) PROVE ForkInv'
  BY <1>20 DEF wait_killed, At, Goto
<1>21. ASSUME NEW p \in Slot, wait_sleep(p) PROVE ForkInv'
  BY <1>21 DEF wait_sleep, At, Goto
<1>22. ASSUME NEW p \in Slot, NEW k \in KillPid, kill(p, k) PROVE ForkInv'
  BY <1>22 DEF kill, Syscall, At
<1>23. CASE UNCHANGED vars
  BY <1>23 DEF vars
<1> HIDE DEF ForkInv, ParentInv, Free, fields, locals, InFork
<1> QED
  BY Zenon, <1>1, <1>2, <1>3, <1>4, <1>5, <1>6, <1>7, <1>8, <1>9, <1>10, <1>11, <1>12,
      <1>13, <1>14, <1>15, <1>16, <1>17, <1>18, <1>19, <1>20, <1>21, <1>22,
      <1>23 DEF Next, Kernel

\* Every step keeps a process on one CPU, with its lock held while it leaves.
LEMMA CpuStep ==
  ASSUME Inv, [Next]_vars
  PROVE  CpuInv'
<1>t. /\ state \in [Slot -> States]
      /\ plock \in [Slot -> Slot \cup {NoProc}]
      /\ cpu \in [CPU -> Slot \cup {NoProc}]
  BY Zenon DEF Inv, TypeOK
<1>i. CpuInv /\ ForkInv
  BY Zenon DEF Inv
<1> USE SlotFacts, <1>t, <1>i DEF CpuInv, ForkInv, Alive, Free, fields, locals,
    InFork
<1>1. ASSUME NEW c \in CPU, NEW p \in Slot, dispatch(c, p) PROVE CpuInv'
  BY <1>1 DEF dispatch, At
<1>2. ASSUME NEW c \in CPU, switched(c) PROVE CpuInv'
  BY <1>2 DEF switched
<1>3. ASSUME NEW p \in Slot, yield(p) PROVE CpuInv'
  BY <1>3 DEF yield
<1>4. ASSUME NEW p \in Slot, spin_wait_lock(p) PROVE CpuInv'
  BY <1>4 DEF spin_wait_lock
<1>5. ASSUME NEW p \in Slot, NEW q \in Slot, allocproc(p, q) PROVE CpuInv'
  BY <1>5 DEF allocproc, allocpid, Syscall, At
<1>6. ASSUME NEW p \in Slot, fork_fail(p) PROVE CpuInv'
  BY <1>6 DEF fork_fail, freeproc, At, Goto
<1>7. ASSUME NEW p \in Slot, fork_copy(p) PROVE CpuInv'
  BY <1>7 DEF fork_copy, At, Goto
<1>8. ASSUME NEW p \in Slot, fork_parent(p) PROVE CpuInv'
  BY <1>8 DEF fork_parent, At, Goto, Acquired
<1>9. ASSUME NEW p \in Slot, fork_run(p) PROVE CpuInv'
  BY <1>9 DEF fork_run, At, Goto
<1>10. ASSUME NEW p \in Slot, NEW s \in Exits, exit(p, s) PROVE CpuInv'
  BY <1>10 DEF exit, At, Goto
<1>11. ASSUME NEW p \in Slot, reparent(p) PROVE CpuInv'
  BY <1>11 DEF reparent, At, Goto, Acquired, Adopted, Children
<1>12. ASSUME NEW p \in Slot, exit_wakeinit(p) PROVE CpuInv'
  BY <1>12 DEF exit_wakeinit, At, Goto, wakeup
<1>13. ASSUME NEW p \in Slot, exit_wakeup(p) PROVE CpuInv'
  BY <1>13 DEF exit_wakeup, At, Goto, wakeup
<1>14. ASSUME NEW p \in Slot, exit_zombie(p) PROVE CpuInv'
  BY <1>14 DEF exit_zombie, At
<1>15. ASSUME NEW p \in Slot, wait(p) PROVE CpuInv'
  BY <1>15 DEF wait, Syscall, At, Goto
<1>16. ASSUME NEW p \in Slot, wait_acquire(p) PROVE CpuInv'
  BY <1>16 DEF wait_acquire, At, Goto, Acquired
<1>17. ASSUME NEW p \in Slot, NEW q \in Slot, wait_reap(p, q) PROVE CpuInv'
  BY <1>17 DEF wait_reap, At, Goto, freeproc, FirstZombie, Zombies, Children
<1>18. ASSUME NEW p \in Slot, NEW q \in Slot, wait_fault(p, q) PROVE CpuInv'
  BY <1>18 DEF wait_fault, At, Goto, FirstZombie, Zombies, Children
<1>19. ASSUME NEW p \in Slot, wait_none(p) PROVE CpuInv'
  BY <1>19 DEF wait_none, At, Goto, Zombies, Children
<1>20. ASSUME NEW p \in Slot, wait_killed(p) PROVE CpuInv'
  BY <1>20 DEF wait_killed, At, Goto
<1>21. ASSUME NEW p \in Slot, wait_sleep(p) PROVE CpuInv'
  BY <1>21 DEF wait_sleep, At, Goto
<1>22. ASSUME NEW p \in Slot, NEW k \in KillPid, kill(p, k) PROVE CpuInv'
  BY <1>22 DEF kill, Syscall, At
<1>23. CASE UNCHANGED vars
  BY <1>23 DEF vars
<1> HIDE DEF CpuInv, ForkInv, Alive, Free, fields, locals, InFork
<1> QED
  BY Zenon, <1>1, <1>2, <1>3, <1>4, <1>5, <1>6, <1>7, <1>8, <1>9, <1>10, <1>11, <1>12,
      <1>13, <1>14, <1>15, <1>16, <1>17, <1>18, <1>19, <1>20, <1>21, <1>22,
      <1>23 DEF Next, Kernel

\* Every step keeps the type: the pids stay below the bound and what kexit()
\* records is a pid in use with its status.
LEMMA TypeStep ==
  ASSUME Inv, [Next]_vars
  PROVE  TypeOK'
<1>i. TypeOK /\ ForkInv /\ PidInv
  BY Zenon DEF Inv
<1> USE SlotFacts, <1>i DEF TypeOK, ForkInv, InFork, Free, fields, locals,
    States, Lines
<1>1. ASSUME NEW c \in CPU, NEW p \in Slot, dispatch(c, p) PROVE TypeOK'
  BY Zenon, <1>1 DEF dispatch, At
<1>2. ASSUME NEW c \in CPU, switched(c) PROVE TypeOK'
  BY Zenon, <1>2 DEF switched
<1>3. ASSUME NEW p \in Slot, yield(p) PROVE TypeOK'
  BY Zenon, <1>3 DEF yield
<1>4. ASSUME NEW p \in Slot, spin_wait_lock(p) PROVE TypeOK'
  BY Zenon, <1>4 DEF spin_wait_lock
<1>5. ASSUME NEW p \in Slot, NEW q \in Slot, allocproc(p, q) PROVE TypeOK'
  <2>1. pid' \in [Slot -> 0..MaxPid] /\ nextpid' \in 1..(MaxPid + 1)
    BY <1>5, ProcAssumption DEF allocproc, allocpid
  <2> QED
    BY <1>5, <2>1, Zenon DEF allocproc, Syscall, At
<1>6. ASSUME NEW p \in Slot, fork_fail(p) PROVE TypeOK'
  BY <1>6, ProcAssumption DEF fork_fail, freeproc, At, Goto
<1>7. ASSUME NEW p \in Slot, fork_copy(p) PROVE TypeOK'
  BY Zenon, <1>7 DEF fork_copy, At, Goto
<1>8. ASSUME NEW p \in Slot, fork_parent(p) PROVE TypeOK'
  BY Zenon, <1>8 DEF fork_parent, At, Goto, Acquired
<1>9. ASSUME NEW p \in Slot, fork_run(p) PROVE TypeOK'
  BY Zenon, <1>9 DEF fork_run, At, Goto
<1>10. ASSUME NEW p \in Slot, NEW s \in Exits, exit(p, s) PROVE TypeOK'
  BY Zenon, <1>10 DEF exit, At, Goto
<1>11. ASSUME NEW p \in Slot, reparent(p) PROVE TypeOK'
  BY <1>11 DEF reparent, At, Goto, Acquired, Adopted, Children
<1>12. ASSUME NEW p \in Slot, exit_wakeinit(p) PROVE TypeOK'
  BY Zenon, <1>12 DEF exit_wakeinit, At, Goto, wakeup
<1>13. ASSUME NEW p \in Slot, exit_wakeup(p) PROVE TypeOK'
  <2>1. state' \in [Slot -> States]
    BY <1>13, Zenon DEF exit_wakeup, wakeup
  <2>2. pc' \in [Slot -> Lines]
    BY Zenon, <1>13 DEF exit_wakeup, Goto
  <2> QED
    BY Zenon, <1>13, <2>1, <2>2 DEF exit_wakeup
<1>14. ASSUME NEW p \in Slot, exit_zombie(p) PROVE TypeOK'
  <2>1. pid[p] \in 1..MaxPid /\ status[p] \in Exits
    BY <1>14, PidFacts, Zenon DEF exit_zombie, At, PidInv, Exiting
  <2>2. <<pid[p], status[p]>> \in (1..MaxPid) \X Exits
    BY Zenon, <2>1
  <2>3. exited' \in SUBSET ((1..MaxPid) \X Exits)
    BY Zenon, <1>14, <2>2 DEF exit_zombie
  <2> QED
    BY Zenon, <1>14, <2>1, <2>3 DEF exit_zombie, At
<1>15. ASSUME NEW p \in Slot, wait(p) PROVE TypeOK'
  BY Zenon, <1>15 DEF wait, Syscall, At, Goto
<1>16. ASSUME NEW p \in Slot, wait_acquire(p) PROVE TypeOK'
  BY Zenon, <1>16 DEF wait_acquire, At, Goto, Acquired
<1>17. ASSUME NEW p \in Slot, NEW q \in Slot, wait_reap(p, q) PROVE TypeOK'
  BY <1>17, ProcAssumption DEF wait_reap, At, Goto, freeproc, FirstZombie,
      Zombies,
     Children
<1>18. ASSUME NEW p \in Slot, NEW q \in Slot, wait_fault(p, q) PROVE TypeOK'
  BY Zenon, <1>18 DEF wait_fault, At, Goto, FirstZombie, Zombies, Children
<1>19. ASSUME NEW p \in Slot, wait_none(p) PROVE TypeOK'
  <2>1. wait_lock' \in Slot \cup {NoProc}
    BY <1>19 DEF wait_none
  <2>2. Goto(p, "user") \/ Goto(p, "wait_killed") \/ Goto(p, "wait_sleep")
    BY Zenon, <1>19 DEF wait_none
  <2>3. pc' \in [Slot -> Lines]
    BY Zenon, <2>2, GotoType
  <2> QED
    BY Zenon, <1>19, <2>1, <2>3 DEF wait_none
<1>20. ASSUME NEW p \in Slot, wait_killed(p) PROVE TypeOK'
  <2>1. wait_lock' \in Slot \cup {NoProc}
    BY <1>20 DEF wait_killed
  <2>2. Goto(p, "user") \/ Goto(p, "wait_killed") \/ Goto(p, "wait_sleep")
    BY Zenon, <1>20 DEF wait_killed
  <2>3. pc' \in [Slot -> Lines]
    BY Zenon, <2>2, GotoType
  <2> QED
    BY Zenon, <1>20, <2>1, <2>3 DEF wait_killed
<1>21. ASSUME NEW p \in Slot, wait_sleep(p) PROVE TypeOK'
  BY Zenon, <1>21 DEF wait_sleep, At, Goto
<1>22. ASSUME NEW p \in Slot, NEW k \in KillPid, kill(p, k) PROVE TypeOK'
  <2>1. PICK q \in Slot :
          /\ killed' = [killed EXCEPT ![q] = TRUE]
          /\ state' = IF state[q] = "SLEEPING"
                      THEN [state EXCEPT ![q] = "RUNNABLE"] ELSE state
    BY <1>22, Zenon DEF kill
  <2>2. state' \in [Slot -> States] /\ killed' \in [Slot -> BOOLEAN]
    BY Zenon, <2>1
  <2> QED
    BY Zenon, <1>22, <2>2 DEF kill
<1>23. CASE UNCHANGED vars
  BY Zenon, <1>23 DEF vars
<1> HIDE DEF TypeOK, ForkInv, InFork, Free, fields, locals, States, Lines
<1> QED
  BY Zenon, <1>1, <1>2, <1>3, <1>4, <1>5, <1>6, <1>7, <1>8, <1>9, <1>10, <1>11, <1>12,
      <1>13, <1>14, <1>15, <1>16, <1>17, <1>18, <1>19, <1>20, <1>21, <1>22,
      <1>23 DEF Next, Kernel

\* The inductive invariant holds in every reachable state.
THEOREM ProcInvariant == Spec => []Inv
<1>1. Inv /\ [Next]_vars => Inv'
  BY Zenon, TypeStep, CpuStep, ForkStep, LockStep, ParentStep, PidStep, SleepStep
     DEF Inv
<1> QED
  BY InitInv, <1>1, PTL DEF Spec

\* A slot and its kernel stack are not freed, reused or run twice while a CPU
\* is on the stack (kwait(), scheduler(), sleep(), kexit()).
THEOREM StackNotReused == Spec => []StackInUse
<1>1. Inv => StackInUse
  BY Zenon DEF Inv, CpuInv, StackInUse, Alive
<1> QED
  BY ProcInvariant, <1>1, PTL

\* reparent() leaves no process with a parent that is gone.
THEOREM ParentsAlive == Spec => []ParentAlive
<1>1. ParentInv => ParentAlive
  BY Zenon DEF ParentInv, ParentAlive, Alive
<1> QED
  BY ProcInvariant, <1>1, PTL DEF Inv

\* A process that sleeps in kwait() while wait_lock is free has a child, and
\* none of its children is a zombie: the wakeups of kexit() and reparent() are
\* not lost.
THEOREM ExitsNotMissed == Spec => []NoMissedExit
<1>1. LockInv /\ SleepInv => NoMissedExit
  <2> SUFFICES ASSUME LockInv, SleepInv, Free(wait_lock), NEW p \in Slot,
                      state[p] = "SLEEPING"
               PROVE  Children(p) # {} /\ Zombies(p) = {}
    BY Zenon DEF NoMissedExit
  <2>1. \A q \in Slot : pc[q] # "exit_wakeinit"
    BY Zenon, SlotFacts DEF LockInv, Locked, Exiting, Free
  <2>2. HasChild(p) /\ NoZombie(p)
    BY Zenon, <2>1 DEF SleepInv
  <2> QED
    BY Zenon, <2>2 DEF HasChild, NoZombie, Children, Zombies
<1> QED
  BY ProcInvariant, <1>1, PTL DEF Inv

\* wait() returns the pid and the status of a child that exited with them, and
\* that pid is in the table no more, so no later wait() returns it again.
THEOREM WaitReturns == Spec => WaitReturnsExit
<1> DEFINE A == \A p \in Slot : ret'[p] # ret[p] =>
                  /\ ret'[p] \in exited
                  /\ \E q \in Slot : /\ parent[q] = p /\ pid[q] = ret'[p][1]
                                     /\ \A r \in Slot : pid'[r] # pid[q]
<1>1. Inv /\ [Next]_vars => [A]_vars
  <2> SUFFICES ASSUME Inv, Next, NEW p \in Slot, ret'[p] # ret[p]
               PROVE  /\ ret'[p] \in exited
                      /\ \E q \in Slot :
                           /\ parent[q] = p /\ pid[q] = ret'[p][1]
                           /\ \A r \in Slot : pid'[r] # pid[q]
    BY Zenon
  <2>t. /\ ret \in [Slot -> (0..MaxPid) \X (Exits \cup {0})]
        /\ pid \in [Slot -> 0..MaxPid]
    BY Zenon DEF Inv, TypeOK
  <2>p. PidInv
    BY Zenon DEF Inv
  <2>1. PICK q \in Slot : wait_reap(p, q)
    <3>1. \A u \in Slot, q \in Slot : wait_reap(u, q) => u = p
      BY <2>t, SMTT(30) DEF wait_reap
    <3>2. \E u \in Slot, q \in Slot : wait_reap(u, q)
      BY ZenonT(30) DEF Next, Kernel, dispatch, switched, yield, wait, spin_wait_lock,
         fork_fail, fork_copy, fork_parent, fork_run, reparent,
         exit_wakeinit, exit_wakeup, exit_zombie, wait_acquire, wait_none,
         wait_killed, wait_sleep, wait_fault, allocproc, exit, kill, locals
    <3> QED
      BY Zenon, <3>1, <3>2
  <2>2. /\ parent[q] = p /\ state[q] = "ZOMBIE"
        /\ ret'[p] = <<pid[q], xstate[q]>>
        /\ pid' = [pid EXCEPT ![q] = 0]
    BY Zenon, <2>1, <2>t DEF wait_reap, FirstZombie, Zombies, Children, freeproc
  <2>3. pid[q] # 0 /\ <<pid[q], xstate[q]>> \in exited
    BY <2>2, <2>p, Zenon DEF PidInv
  <2>4. \A r \in Slot : pid'[r] # pid[q]
    BY Zenon, <2>2, <2>3, <2>t, <2>p DEF PidInv
  <2> QED
    BY <2>2, <2>3, <2>4
<1> QED
  BY ProcInvariant, <1>1, PTL DEF Spec, WaitReturnsExit

===============================================================================
