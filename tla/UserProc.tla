------------------------------ MODULE UserProc ------------------------------
(***************************************************************************)
(* The processes of a shell as the shell sees them through system calls    *)
(* (external to the shells; FileTable and Proc model the kernel's side):   *)
(* descriptors, fork(), exit() and wait().                                 *)
(***************************************************************************)
EXTENDS Naturals, Sequences, SequencesExt, FiniteSets, FiniteSetsExt

CONSTANTS NPROC, MaxFd,
          Reader,     \* programs that read their input to its end
          Missing     \* files that cannot be opened or executed

VARIABLE proc

Pid == 1..NPROC
SH == 1               \* the shell itself
INIT == 0             \* parent of orphans

FD == 0..MaxFd
Closed == <<>>
Console == <<"file", "console">>
Tty == [fd \in FD |-> IF fd <= 2 THEN Console ELSE Closed]

\* cmd is what the process is to do, at its place in the line that was typed.
Unused == [pc |-> "unused", cmd |-> [argv |-> <<>>], at |-> <<>>, fd |-> Tty, parent |-> INIT]

At(p, pc) == proc[p].pc = pc
Free == {q \in Pid : At(q, "unused")}
Child(p) == {q \in Pid \ Free : proc[q].parent = p}

LowestFd(fds) == Min({fd \in FD : fds[fd] = Closed})
close(fds, fd) == [fds EXCEPT ![fd] = Closed]
open(fds, obj) == [fds EXCEPT ![LowestFd(fds)] = obj]
FdOf(fds, obj) == CHOOSE fd \in FD : fds[fd] = obj
Open(obj) == \E q \in Pid \ Free, fd \in FD : proc[q].fd[fd] = obj

\* Descriptors are closed and children go to init, which reaps orphans at once.
exit(p) ==
  [q \in Pid |->
     CASE q = p -> IF proc[p].parent = INIT THEN Unused
                   ELSE [proc[p] EXCEPT !.pc = "zombie", !.fd = [fd \in FD |-> Closed]]
       [] q \in Child(p) -> IF At(q, "zombie") THEN Unused ELSE [proc[q] EXCEPT !.parent = INIT]
       [] OTHER -> proc[q]]

\* p goes on as next, its child as child.
fork(p, child, next) ==
  [proc EXCEPT ![Min(Free)] = [child EXCEPT !.parent = p], ![p] = next]

\* A zombie child is reaped; without children wait() returns at once.
wait(p, next, none) ==
  \/ Child(p) = {} /\ proc' = [proc EXCEPT ![p].pc = none]
  \/ \E q \in Child(p) : At(q, "zombie") /\ proc' = [proc EXCEPT ![q] = Unused, ![p].pc = next]

\* A program that reads a pipe ends after the last writer has closed the pipe;
\* others end by themselves.
program(p) ==
  LET in == proc[p].fd[0]
  IN  /\ At(p, "exec")
      /\ proc[p].cmd.argv[1] \in Reader /\ in[1] = "r" => ~Open(<<"w", in[2]>>)
      /\ proc' = exit(p)
=============================================================================
