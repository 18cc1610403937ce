------------------------------- MODULE Timer --------------------------------
(***************************************************************************)
(* The clock of kernel/trap.c and pause() of kernel/sysproc.c.  ticks is   *)
(* an unsigned integer that wraps.  Sections under tickslock are one step, *)
(* but for the one of sys_pause(), in which kill() can come between the    *)
(* look at p->killed and sleep().                                          *)
(***************************************************************************)
EXTENDS Naturals

CONSTANTS Proc, None,
          TICKS,      \* 2^32 in the code
          MaxPause    \* bound: longest pause

VARIABLES ticks, tickslock, pc, ticks0, n, killed,
          elapsed     \* history: ticks since pause() was called, MaxPause standing for more

vars == <<ticks, tickslock, pc, ticks0, n, killed, elapsed>>

Init ==
  /\ ticks = 0 /\ tickslock = None
  /\ pc = [p \in Proc |-> "user"]
  /\ ticks0 = [p \in Proc |-> 0] /\ n = [p \in Proc |-> 0]
  /\ killed = [p \in Proc |-> FALSE]
  /\ elapsed = [p \in Proc |-> 0]

\* A timer interrupt on CPU 0; wakeup(&ticks) wakes every process that pauses.
clockintr ==
  /\ tickslock = None
  /\ ticks' = (ticks + 1) % TICKS
  /\ pc' = [p \in Proc |-> IF pc[p] = "asleep" THEN "woken" ELSE pc[p]]
  /\ elapsed' = [p \in Proc |-> IF pc[p] # "user" /\ elapsed[p] < MaxPause THEN elapsed[p] + 1 ELSE elapsed[p]]
  /\ UNCHANGED <<tickslock, ticks0, n, killed>>

pause(p, k) ==
  /\ pc[p] = "user" /\ tickslock = None
  /\ tickslock' = p
  /\ pc' = [pc EXCEPT ![p] = "loop"]
  /\ ticks0' = [ticks0 EXCEPT ![p] = ticks]
  /\ n' = [n EXCEPT ![p] = k]
  /\ elapsed' = [elapsed EXCEPT ![p] = 0]
  /\ UNCHANGED <<ticks, killed>>

\* Error: the time at which to go on is compared, and may have wrapped.
Paused_bug(p) == ticks < (ticks0[p] + n[p]) % TICKS

Paused(p) == (ticks + TICKS - ticks0[p]) % TICKS < n[p]

Return(p, to) == /\ pc' = [pc EXCEPT ![p] = to]
                 /\ tickslock' = None
                 /\ n' = [n EXCEPT ![p] = 0]
                 /\ ticks0' = [ticks0 EXCEPT ![p] = 0]

\* The time is over.
pause_done(p) ==
  /\ pc[p] = "loop" /\ ~Paused(p)
  /\ Return(p, "user")
  /\ UNCHANGED <<ticks, killed, elapsed>>

\* killed() returns true: pause() fails, and usertrap() ends the process.
pause_killed(p) ==
  /\ pc[p] = "loop" /\ Paused(p) /\ killed[p]
  /\ Return(p, "dead")
  /\ UNCHANGED <<ticks, killed, elapsed>>

pause_look(p) ==
  /\ pc[p] = "loop" /\ Paused(p) /\ ~killed[p]
  /\ pc' = [pc EXCEPT ![p] = "sleep"]
  /\ UNCHANGED <<ticks, tickslock, ticks0, n, killed, elapsed>>

\* sleep() takes p->lock before it lets go of tickslock.
sleep(p) ==
  /\ pc[p] = "sleep"
  /\ pc' = [pc EXCEPT ![p] = "asleep"]
  /\ tickslock' = None
  /\ UNCHANGED <<ticks, ticks0, n, killed, elapsed>>

\* sleep() returns with tickslock, and the loop looks again.
woken(p) ==
  /\ pc[p] = "woken" /\ tickslock = None
  /\ pc' = [pc EXCEPT ![p] = "loop"]
  /\ tickslock' = p
  /\ UNCHANGED <<ticks, ticks0, n, killed, elapsed>>

kill(p) ==
  /\ ~killed[p] /\ pc[p] # "dead"
  /\ killed' = [killed EXCEPT ![p] = TRUE]
  /\ pc' = [pc EXCEPT ![p] = IF @ = "asleep" THEN "woken" ELSE @]
  /\ UNCHANGED <<ticks, tickslock, ticks0, n, elapsed>>

\* A new process in the slot.
renew(p) ==
  /\ pc[p] = "dead"
  /\ pc' = [pc EXCEPT ![p] = "user"]
  /\ killed' = [killed EXCEPT ![p] = FALSE]
  /\ UNCHANGED <<ticks, tickslock, ticks0, n, elapsed>>

Next ==
  \/ clockintr
  \/ \E p \in Proc :
       \/ \E k \in 0..MaxPause : pause(p, k)
       \/ pause_done(p) \/ pause_killed(p) \/ pause_look(p) \/ sleep(p) \/ woken(p) \/ kill(p) \/ renew(p)

Spec == Init /\ [][Next]_vars

-----------------------------------------------------------------------------

\* pause(n) returns no earlier than after n ticks, also when ticks wraps, and whatever
\* wakes the process in between.
PauseNotEarly ==
  [][\A p \in Proc : pc[p] = "loop" /\ pc'[p] = "user" => elapsed[p] >= n[p]]_vars

\* No process sleeps in pause() while the condition of its loop is false.
NoLostWakeup == \A p \in Proc : pc[p] = "asleep" => Paused(p)
=============================================================================
