------------------------------ MODULE ByteQueue -------------------------------
(***************************************************************************)
(* What a pipe promises to its users: a bounded first-in first-out queue   *)
(* of bytes, with a write end and a read end that are closed once.         *)
(***************************************************************************)
EXTENDS Sequences, Naturals

CONSTANTS Byte, PIPESIZE

VARIABLES queue, readopen, writeopen

vars == <<queue, readopen, writeopen>>

Init == queue = <<>> /\ readopen = TRUE /\ writeopen = TRUE

Put(b) == /\ Len(queue) < PIPESIZE /\ readopen /\ writeopen
          /\ queue' = Append(queue, b)
          /\ UNCHANGED <<readopen, writeopen>>

\* A byte that is taken reaches the reader, or is lost to a bad address.
Get == /\ queue # <<>> /\ readopen
       /\ queue' = Tail(queue)
       /\ UNCHANGED <<readopen, writeopen>>

CloseWrite == writeopen /\ writeopen' = FALSE /\ UNCHANGED <<queue, readopen>>
CloseRead  == readopen /\ readopen' = FALSE /\ UNCHANGED <<queue, writeopen>>

Next == (\E b \in Byte : Put(b)) \/ Get \/ CloseWrite \/ CloseRead

Spec == Init /\ [][Next]_vars
===============================================================================
