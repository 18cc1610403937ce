------------------------------ MODULE AtomicDisk ------------------------------
(***************************************************************************)
(* What the logging layer (kernel/log.c) promises to the file system: a    *)
(* disk on which the block writes of an operation, the code between        *)
(* begin_op() and end_op(), take effect all together or not at all, in the *)
(* face of a crash at any instant.                                         *)
(***************************************************************************)
CONSTANTS Proc,   \* processes that run file-system operations
          Block,  \* blocks of the file system
          Val,    \* contents of a block
          Zero    \* contents of every block of a fresh file system

VARIABLES mem,    \* the blocks as running operations read and write them
          dur,    \* the blocks a crash at this instant would leave behind
          active  \* the processes between begin_op() and end_op()

vars == <<mem, dur, active>>

Init == /\ mem = [b \in Block |-> Zero]
        /\ dur = mem
        /\ active = {}

Begin(p) == /\ p \notin active
            /\ active' = active \cup {p}
            /\ UNCHANGED <<mem, dur>>

Write(p, b, v) == /\ p \in active
                  /\ mem' = [mem EXCEPT ![b] = v]
                  /\ UNCHANGED <<dur, active>>

End(p) == /\ p \in active
          /\ active' = active \ {p}
          /\ UNCHANGED <<mem, dur>>

\* Durability comes in one step, and only between operations: no operation
\* is ever durable in part.
Commit == /\ active = {}
          /\ dur' = mem
          /\ UNCHANGED <<mem, active>>

Crash == /\ mem' = dur
         /\ active' = {}
         /\ UNCHANGED dur

Next == \/ \E p \in Proc : Begin(p) \/ End(p)
        \/ \E p \in Proc, b \in Block, v \in Val : Write(p, b, v)
        \/ Commit
        \/ Crash

Spec == Init /\ [][Next]_vars
===============================================================================
