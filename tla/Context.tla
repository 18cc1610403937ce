------------------------------ MODULE Context -------------------------------
(***************************************************************************)
(* How the registers of a program and of the kernel survive traps, context *)
(* switches and moves between CPUs: trampoline.S, kernelvec.S, swtch.S,    *)
(* kernel/trap.c and the switching parts of kernel/proc.c.                 *)
(*                                                                         *)
(* A register value is <<what, whose, version>>.  "s" stands for the       *)
(* registers a callee saves, "t" for the others that a caller saves.  What *)
(* runs with interrupts off and touches one CPU is one step.  The control  *)
(* state of a CPU is the first part of its pc.  What the kernel knows of   *)
(* the running thread it finds through sp and tp, as the code does.  What  *)
(* nothing reads before it is written again is junk.                       *)
(***************************************************************************)
EXTENDS Naturals, Sequences, SequencesExt

CONSTANTS CPU, Proc, initproc, None

Thread == CPU \cup Proc     \* the scheduler of a CPU, or a process in the kernel
Reg == {"pc", "ra", "sp", "tp", "s", "t", "a0"}

VARIABLES reg,         \* registers of a CPU
          csr,         \* its control registers, its mode and its page table
          cproc,       \* c->proc
          state,       \* p->state
          trapframe,   \* p->trapframe
          context,     \* p->context and c->context
          stack,       \* kernel stacks: what was saved on them
          prog,        \* history: the registers that a program takes itself to have
          want         \* history: the registers to which a kernel thread must return

vars == <<reg, csr, cproc, state, trapframe, context, stack, prog, want>>

Val(what, whose) == <<what, whose, 0>>
Regs(f) == [r \in Reg |-> Val(f, None)]

NoFrame == [user |-> Regs("zero"), kernel_sp |-> Val("junk", None), kernel_hartid |-> Val("junk", None)]

pc(c) == reg[c]["pc"][1]
thread(c) == reg[c]["sp"][2]
cpuid(c) == reg[c]["tp"][2]
myproc(c) == cproc[cpuid(c)]

\* The context of a new process: swtch() goes to forkret(), on its own stack.
NewContext(p) == [ra |-> Val("forkret", p), sp |-> Val("stack", p), s |-> Val("zero", p)]

\* initproc runs in user mode on no CPU yet; every CPU is in its scheduler.
Init ==
  /\ reg = [c \in CPU |-> [Regs("junk") EXCEPT !["pc"] = Val("loop", c), !["sp"] = Val("stack", c),
                                               !["tp"] = Val("hart", c)]]
  /\ csr = [c \in CPU |-> [mode |-> "S", satp |-> None, stvec |-> "kernelvec", cause |-> "none",
                           sepc |-> Val("junk", None), spp |-> "S", spie |-> FALSE, sie |-> FALSE]]
  /\ cproc = [c \in CPU |-> None]
  /\ state = [p \in Proc |-> IF p = initproc THEN "RUNNABLE" ELSE "UNUSED"]
  /\ trapframe = [p \in Proc |-> NoFrame]
  /\ context = [t \in Thread |-> NewContext(t)]
  /\ stack = [t \in Thread |-> <<>>]
  /\ prog = [p \in Proc |-> Regs("zero")]
  /\ want = [t \in Thread |-> <<>>]

Goto(c, what) == [reg[c] EXCEPT !["pc"] = Val(what, thread(c))]
\* The kernel's code uses the registers that a caller saves.
Work(c, what) == [r \in Reg |-> CASE r = "pc" -> Val(what, thread(c))
                                  [] r \in {"sp", "tp", "s"} -> reg[c][r]
                                  [] OTHER -> Val("kernel", thread(c))]
Push(f, t, x) == [f EXCEPT ![t] = Append(@, x)]
Pop(f, t) == [f EXCEPT ![t] = Front(@)]

-----------------------------------------------------------------------------
(* The processor                                                           *)

\* Code in user mode changes every register.
user_step(c) ==
  LET r == [x \in Reg |-> Val("user", cproc[c])]
  IN  /\ csr[c].mode = "U"
      /\ reg' = [reg EXCEPT ![c] = r]
      /\ prog' = [prog EXCEPT ![cproc[c]] = r]
      /\ UNCHANGED <<csr, cproc, state, trapframe, context, stack, want>>

After(x) == <<"next", x[2], x[3]>>     \* the instruction after an ecall

\* An interrupt, or a system call: the program expects to go on after it.
trap(c, cause) ==
  LET k == csr[c]
      user == k.mode = "U"
  IN  /\ user \/ (k.sie /\ cause # "ecall")
      /\ csr' = [csr EXCEPT ![c] = [k EXCEPT !.sepc = reg[c]["pc"], !.spp = k.mode, !.spie = k.sie,
                                             !.sie = FALSE, !.mode = "S", !.cause = cause]]
      /\ reg' = [reg EXCEPT ![c]["pc"] = Val(k.stvec, None)]
      /\ prog' = IF cause = "ecall" THEN [prog EXCEPT ![cproc[c]]["pc"] = After(@)] ELSE prog
      /\ want' = IF user THEN want ELSE Push(want, thread(c), reg[c])
      /\ UNCHANGED <<cproc, state, trapframe, context, stack>>

sret(k) == [k EXCEPT !.mode = k.spp, !.sie = k.spie, !.spp = "U", !.spie = TRUE, !.sepc = Val("junk", None)]

-----------------------------------------------------------------------------
(* From user space into the kernel and back                                *)

\* trampoline.S: all user registers go to the trapframe of the process whose page
\* table is installed.  A trap from the kernel that comes here is lost.
uservec(c) ==
  LET p == csr[c].satp
  IN  /\ pc(c) = "uservec"
      /\ IF p = None
         THEN /\ reg' = [reg EXCEPT ![c] = Goto(c, "panic")]
              /\ UNCHANGED <<csr, trapframe>>
         ELSE /\ trapframe' = [trapframe EXCEPT ![p] = [user |-> [reg[c] EXCEPT !["pc"] = Val("junk", None)],
                                                         kernel_sp |-> Val("junk", None),
                                                         kernel_hartid |-> Val("junk", None)]]
              /\ reg' = [reg EXCEPT ![c] = [@ EXCEPT !["sp"] = trapframe[p].kernel_sp,
                                                     !["tp"] = trapframe[p].kernel_hartid,
                                                     !["pc"] = Val("usertrap", p)]]
              /\ csr' = [csr EXCEPT ![c].satp = None]
      /\ UNCHANGED <<cproc, state, context, stack, prog, want>>

\* 2 for the timer, 1 for a device, whose handler is part of the step, else 0.
devintr(cause) == CASE cause = "timer" -> 2 [] cause = "device" -> 1 [] OTHER -> 0

\* A system call is handled with interrupts on, other traps with interrupts off.
usertrap(c) ==
  LET p == myproc(c)
      k == csr[c]
      next == CASE k.cause = "ecall" -> "kernel" [] devintr(k.cause) = 2 -> "uyield" [] OTHER -> "return"
  IN  /\ pc(c) = "usertrap"
      /\ reg' = [reg EXCEPT ![c] = [Work(c, IF k.spp = "S" THEN "panic" ELSE next) EXCEPT !["s"] = Val("kernel", p)]]
      /\ trapframe' = [trapframe EXCEPT ![p].user["pc"] = IF k.cause = "ecall" THEN After(k.sepc) ELSE k.sepc]
      /\ csr' = [csr EXCEPT ![c].stvec = "kernelvec", ![c].sie = k.cause = "ecall",
                             ![c].cause = "none", ![c].sepc = Val("junk", None)]
      /\ UNCHANGED <<cproc, state, context, stack, prog, want>>

\* Error: interrupts stay on while traps already go to uservec.
prepare_return_bug(c) ==
  LET p == myproc(c)
  IN  /\ pc(c) = "return"
      /\ trapframe' = [trapframe EXCEPT ![p].kernel_sp = Val("stack", p), ![p].kernel_hartid = reg[c]["tp"]]
      /\ csr' = [csr EXCEPT ![c] = [@ EXCEPT !.stvec = "uservec", !.spp = "U", !.spie = TRUE,
                                             !.sepc = trapframe[p].user["pc"]]]
      /\ reg' = [reg EXCEPT ![c] = Goto(c, "userret")]
      /\ UNCHANGED <<cproc, state, context, stack, prog, want>>

prepare_return(c) ==
  LET p == myproc(c)
  IN  /\ pc(c) = "return"
      /\ trapframe' = [trapframe EXCEPT ![p].kernel_sp = Val("stack", p), ![p].kernel_hartid = reg[c]["tp"]]
      /\ csr' = [csr EXCEPT ![c] = [@ EXCEPT !.sie = FALSE, !.stvec = "uservec", !.spp = "U", !.spie = TRUE,
                                             !.sepc = trapframe[p].user["pc"]]]
      /\ reg' = [reg EXCEPT ![c] = Goto(c, "userret")]
      /\ UNCHANGED <<cproc, state, context, stack, prog, want>>

\* The page table is that of the process on whose stack the kernel is.
userret(c) ==
  LET p == thread(c)
  IN  /\ pc(c) = "userret"
      /\ reg' = [reg EXCEPT ![c] = [trapframe[p].user EXCEPT !["pc"] = csr[c].sepc]]
      /\ csr' = [csr EXCEPT ![c] = [sret(@) EXCEPT !.satp = p]]
      /\ trapframe' = [trapframe EXCEPT ![p].user = Regs("junk")]
      /\ UNCHANGED <<cproc, state, context, stack, prog, want>>

\* syscall(): the result goes to a0.
syscall(c) ==
  LET p == myproc(c)
  IN  /\ pc(c) = "kernel"
      /\ trapframe' = [trapframe EXCEPT ![p].user["a0"] = Val("result", p)]
      /\ prog' = [prog EXCEPT ![p]["a0"] = Val("result", p)]
      /\ reg' = [reg EXCEPT ![c] = Work(c, "return")]
      /\ UNCHANGED <<csr, cproc, state, context, stack, want>>

\* kfork() and the context that allocproc() makes: the child starts in forkret()
\* and returns 0 to the program.
kfork(c, q) ==
  LET p == myproc(c)
  IN  /\ pc(c) = "kernel" /\ state[q] = "UNUSED"
      /\ trapframe' = [trapframe EXCEPT ![p].user["a0"] = Val("result", p),
                                        ![q] = [trapframe[p] EXCEPT !.user["a0"] = Val("zero", None)]]
      /\ prog' = [prog EXCEPT ![p]["a0"] = Val("result", p),
                              ![q] = [prog[p] EXCEPT !["a0"] = Val("zero", None)]]
      /\ context' = [context EXCEPT ![q] = NewContext(q)]
      /\ state' = [state EXCEPT ![q] = "RUNNABLE"]
      /\ reg' = [reg EXCEPT ![c] = Work(c, "return")]
      /\ UNCHANGED <<csr, cproc, stack, want>>

-----------------------------------------------------------------------------
(* Traps in the kernel                                                     *)

\* Where kerneltrap() goes on: a timer interrupt takes the CPU from a process.
kerneltrap(c) ==
  LET k == csr[c]
  IN  CASE k.spp = "U" \/ k.sie \/ devintr(k.cause) = 0 -> "panic"
        [] devintr(k.cause) = 2 /\ myproc(c) # None -> "kyield"
        [] OTHER -> "kernelret"

\* kernelvec.S saves what a caller saves, kerneltrap() what it uses of the rest and
\* sepc and sstatus.
kernelvec(c) ==
  LET t == thread(c)
      k == csr[c]
  IN  /\ pc(c) = "kernelvec"
      /\ stack' = Push(stack, t, [regs |-> reg[c], sepc |-> k.sepc, spp |-> k.spp, spie |-> k.spie])
      /\ reg' = [reg EXCEPT ![c] = [Goto(c, kerneltrap(c)) EXCEPT !["s"] = Val("handler", t), !["sp"] = <<"stack", t, 1>>]]
      /\ csr' = [csr EXCEPT ![c].cause = "none"]
      /\ UNCHANGED <<cproc, state, trapframe, context, prog, want>>

\* tp is not restored, as the thread may have moved to another CPU.
kernelret(c) ==
  LET t == thread(c)
      f == Last(stack[t])
  IN  /\ pc(c) = "kernelret"
      /\ reg' = [reg EXCEPT ![c] = [f.regs EXCEPT !["tp"] = reg[c]["tp"], !["pc"] = f.sepc]]
      /\ csr' = [csr EXCEPT ![c] = sret([@ EXCEPT !.sepc = f.sepc, !.spp = f.spp, !.spie = f.spie])]
      /\ stack' = Pop(stack, t) /\ want' = Pop(want, t)
      /\ UNCHANGED <<cproc, state, trapframe, context, prog>>

-----------------------------------------------------------------------------
(* Context switches                                                        *)

Spent(t) == [ra |-> Val("junk", t), sp |-> Val("junk", t), s |-> Val("junk", t)]

\* Registers after swtch(): t and a0 are whatever they were.
swtch(c, new) == [reg[c] EXCEPT !["pc"] = context[new].ra, !["sp"] = context[new].sp, !["s"] = context[new].s]

\* sched(): p->lock is held, so interrupts are off; it keeps intena on its stack.
sched(c, next, st) ==
  LET p == myproc(c)
  IN  /\ context' = [context EXCEPT ![p] = [ra |-> Val("sched", p), sp |-> reg[c]["sp"], s |-> reg[c]["s"]],
                                    ![cpuid(c)] = Spent(cpuid(c))]
      /\ stack' = Push(stack, p, [next |-> next, intena |-> csr[c].sie])
      /\ want' = Push(want, p, reg[c])
      /\ state' = [state EXCEPT ![p] = st]
      /\ csr' = [csr EXCEPT ![c] = [@ EXCEPT !.sie = FALSE, !.spp = "U", !.spie = TRUE, !.sepc = Val("junk", None)]]
      /\ reg' = [reg EXCEPT ![c] = swtch(c, cpuid(c))]
      /\ UNCHANGED <<cproc, trapframe, prog>>

yield(c) ==
  \/ pc(c) = "uyield" /\ sched(c, "return", "RUNNABLE")
  \/ pc(c) = "kyield" /\ sched(c, "kernelret", "RUNNABLE")

sleep(c) == pc(c) = "kernel" /\ sched(c, "kernel", "SLEEPING")

wakeup(p) ==
  /\ state[p] = "SLEEPING"
  /\ state' = [state EXCEPT ![p] = "RUNNABLE"]
  /\ UNCHANGED <<reg, csr, cproc, trapframe, context, stack, prog, want>>

\* kexit() switches for good; the parent's wait(), with freeproc(), is part of the step.
kexit(c) ==
  LET p == myproc(c)
  IN  /\ pc(c) = "kernel" /\ p # initproc
      /\ state' = [state EXCEPT ![p] = "UNUSED"]
      /\ trapframe' = [trapframe EXCEPT ![p] = NoFrame]
      /\ prog' = [prog EXCEPT ![p] = Regs("zero")]
      /\ csr' = [csr EXCEPT ![c].sie = FALSE]
      /\ reg' = [reg EXCEPT ![c] = swtch(c, cpuid(c))]
      /\ context' = [context EXCEPT ![cpuid(c)] = Spent(cpuid(c))]
      /\ UNCHANGED <<cproc, stack, want>>

\* swtch() has returned into sched() of a process.
resumed(c) ==
  LET p == thread(c)
      f == Last(stack[p])
  IN  /\ pc(c) = "sched"
      /\ reg' = [reg EXCEPT ![c] = Work(c, f.next)]
      /\ csr' = [csr EXCEPT ![c].sie = f.intena]
      /\ stack' = Pop(stack, p) /\ want' = Pop(want, p)
      /\ UNCHANGED <<cproc, state, trapframe, context, prog>>

forkret(c) ==
  /\ pc(c) = "forkret"
  /\ reg' = [reg EXCEPT ![c] = Work(c, "return")]
  /\ csr' = [csr EXCEPT ![c].sie = TRUE]
  /\ UNCHANGED <<cproc, state, trapframe, context, stack, prog, want>>

\* scheduler(): the end of an iteration and intr_on() of the next ...
loop(c) ==
  /\ pc(c) = "loop"
  /\ cproc' = [cproc EXCEPT ![c] = None]
  /\ csr' = [csr EXCEPT ![c].sie = TRUE]
  /\ reg' = [reg EXCEPT ![c] = Work(c, "scheduler")]
  /\ UNCHANGED <<state, trapframe, context, stack, prog, want>>

\* ... and, after intr_off(), the switch to a process.
scheduler(c, p) ==
  /\ pc(c) = "scheduler" /\ state[p] = "RUNNABLE"
  /\ state' = [state EXCEPT ![p] = "RUNNING"]
  /\ cproc' = [cproc EXCEPT ![c] = p]
  /\ csr' = [csr EXCEPT ![c].sie = FALSE]
  /\ context' = [context EXCEPT ![p] = Spent(p),
                                ![c] = [ra |-> Val("loop", c), sp |-> reg[c]["sp"], s |-> reg[c]["s"]]]
  /\ reg' = [reg EXCEPT ![c] = swtch(c, p)]
  /\ UNCHANGED <<trapframe, stack, prog, want>>

Next ==
  \/ \E c \in CPU :
       \/ user_step(c) \/ uservec(c) \/ usertrap(c) \/ prepare_return(c) \/ userret(c)
       \/ syscall(c) \/ kernelvec(c) \/ kernelret(c) \/ yield(c) \/ sleep(c) \/ kexit(c)
       \/ resumed(c) \/ forkret(c) \/ loop(c)
       \/ \E cause \in {"ecall", "timer", "device"} : trap(c, cause)
       \/ \E p \in Proc : kfork(c, p) \/ scheduler(c, p)
  \/ \E p \in Proc : wakeup(p)

Spec == Init /\ [][Next]_vars

-----------------------------------------------------------------------------

\* In user mode a CPU has the registers that the program of its process left there,
\* with the result of a system call in a0, and its page table; in the kernel tp is
\* the hart on which the kernel runs, so that mycpu() is right, wherever the thread
\* was before.  No trap from the kernel ends in uservec and no panic of usertrap() or
\* kerneltrap() is reached.
Faithful ==
  \A c \in CPU :
    /\ csr[c].mode = "U" => cproc[c] # None /\ reg[c] = prog[cproc[c]] /\ csr[c].satp = cproc[c]
    /\ csr[c].mode = "S" /\ pc(c) # "uservec" => reg[c]["tp"] = Val("hart", c)
    /\ pc(c) # "panic"

\* A kernel thread that was interrupted goes on with every register but tp as it was,
\* and one that called swtch() with its stack and its saved registers.
Returned(t) ==
  LET w == Last(want[t])
  IN  \E c \in CPU :
        /\ thread(c)' = t
        /\ reg'[c]["s"] = w["s"] /\ reg'[c]["sp"] = w["sp"]
        /\ pc(c) = "kernelret" => \A r \in Reg \ {"tp"} : reg'[c][r] = w[r]

RegistersPreserved ==
  [][/\ Faithful'
     /\ \A t \in Thread : Len(want'[t]) < Len(want[t]) => Returned(t)]_vars
=============================================================================
