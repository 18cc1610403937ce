------------------------------ MODULE MCMachine -------------------------------
(***************************************************************************)
(* What the kernel makes of the hardware: the devices, traps and context   *)
(* switches, and memory.  The models share no state, so that one of them   *)
(* runs at a time, and the run looks at each on its own.                   *)
(***************************************************************************)
EXTENDS Devices

CONSTANTS first, Slot, NFRAME, MMAP, TRAPFRAME, IMAGE, MAX_MMAPS, MaxPage, Delta

VARIABLES part, nfree, pagetable, sz, mmaps, call,
          reg, csr, cproc, cstate, trapframe, context, stack, prog, want

M == INSTANCE Memory
X == INSTANCE Context WITH Proc <- Reader, initproc <- first, state <- cstate

memVars == <<nfree, pagetable, sz, mmaps, call>>
ctxVars == <<reg, csr, cproc, cstate, trapframe, context, stack, prog, want>>
vars == <<part, devVars, memVars, ctxVars>>

Init == /\ part \in {"virtio", "console", "uart", "timer", "memory", "context"}
        /\ DevInit /\ M!Init /\ X!Init

Next ==
  /\ \/ part = "virtio" /\ V!Next /\ UNCHANGED <<consVars, uartVars, timeVars, memVars, ctxVars>>
     \/ part = "console" /\ C!Next /\ UNCHANGED <<diskVars, uartVars, timeVars, memVars, ctxVars>>
     \/ part = "uart" /\ U!Next /\ UNCHANGED <<diskVars, consVars, timeVars, memVars, ctxVars>>
     \/ part = "timer" /\ T!Next /\ UNCHANGED <<diskVars, consVars, uartVars, memVars, ctxVars>>
     \/ part = "memory" /\ M!Next /\ UNCHANGED <<devVars, ctxVars>>
     \/ part = "context" /\ X!Next /\ UNCHANGED <<devVars, memVars>>
  /\ UNCHANGED part

Spec == Init /\ [][Next]_vars

\* The registers of programs and of the kernel survive traps, context switches
\* and moves between CPUs.
RegistersPreserved == X!RegistersPreserved


\* A child of fork() starts with the pages its parent has.
ForkCopies == M!ForkCopies
===============================================================================
