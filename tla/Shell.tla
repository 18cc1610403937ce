------------------------------- MODULE Shell --------------------------------
(***************************************************************************)
(* How user/sh.c runs a command: the processes it forks, their             *)
(* descriptors, and whom it waits for.                                     *)
(*                                                                         *)
(* A process that executes a node of a command has its place: the number   *)
(* of the line, then 0 for a left and 1 for a right or only subcommand.    *)
(* The place of a PIPE node also names its pipe.  Calls on a process's own *)
(* descriptors that follow each other are one step.                        *)
(***************************************************************************)
EXTENDS ShParse, UserProc

CONSTANTS Lines,      \* lines that are typed, as sequences of tokens
          MaxLine     \* bound: lines

VARIABLES typed,      \* what parsecmd() makes of the lines typed so far
          failed      \* history: lines for which fork() has failed

vars == <<proc, typed, failed>>

\* main() of the shell sees to it that descriptors 0, 1 and 2 are the console.
Init ==
  /\ proc = [p \in Pid |-> IF p = SH THEN [Unused EXCEPT !.pc = "prompt"] ELSE Unused]
  /\ typed = <<>>
  /\ failed = {}

\* fork1(): panic() if fork() fails.
fork1(p, child, next) ==
  IF Free = {}
  THEN proc' = exit(p) /\ failed' = failed \cup {IF p = SH THEN 0 ELSE proc[p].at[1]}
  ELSE proc' = fork(p, child, next) /\ UNCHANGED failed

waits(p, pc, next) == At(p, pc) /\ wait(p, next, next) /\ UNCHANGED <<typed, failed>>

-----------------------------------------------------------------------------
(* main()                                                                  *)

Word(p, cmd, dir, fds) ==
  [Unused EXCEPT !.pc = "run", !.cmd = cmd, !.at = Append(proc[p].at, dir), !.fd = fds]

\* getcmd() returns a line and the shell forks.
getcmd(line) ==
  /\ At(SH, "prompt") /\ Len(typed) < MaxLine
  /\ typed' = Append(typed, parsecmd(line))
  /\ fork1(SH, [Unused EXCEPT !.pc = "parse", !.at = <<Len(typed) + 1>>, !.fd = proc[SH].fd],
           [proc[SH] EXCEPT !.pc = "main"])

\* At the end of its input the shell exits.
eof ==
  /\ At(SH, "prompt")
  /\ proc' = exit(SH)
  /\ UNCHANGED <<typed, failed>>

\* The child parses the line; panic() exits.
parse(p) ==
  LET r == typed[proc[p].at[1]]
  IN  /\ At(p, "parse")
      /\ proc' = IF r.ok THEN [proc EXCEPT ![p].pc = "run", ![p].cmd = r.cmd] ELSE exit(p)
      /\ UNCHANGED <<typed, failed>>

-----------------------------------------------------------------------------
(* runcmd()                                                                *)

Node(p, type) == At(p, "run") /\ proc[p].cmd.type = type

\* exec(), which may fail.
run_exec(p) ==
  LET argv == proc[p].cmd.argv
  IN  /\ Node(p, "EXEC")
      /\ proc' = IF argv = <<>> \/ argv[1] \in Missing THEN exit(p) ELSE [proc EXCEPT ![p].pc = "exec"]
      /\ UNCHANGED <<typed, failed>>

Target(op) == IF op = "<" THEN 0 ELSE 1

run_redir(p) ==
  LET c == proc[p].cmd
      fds == open(close(proc[p].fd, Target(c.op)), <<"file", c.file>>)
  IN  /\ Node(p, "REDIR")
      /\ proc' = IF c.file \in Missing THEN exit(p)
                 ELSE [proc EXCEPT ![p].cmd = c.cmd, ![p].fd = fds, ![p].at = Append(@, 1)]
      /\ UNCHANGED <<typed, failed>>

run_list(p) ==
  /\ Node(p, "LIST")
  /\ fork1(p, Word(p, proc[p].cmd.left, 0, proc[p].fd), [proc[p] EXCEPT !.pc = "listwait"])
  /\ UNCHANGED typed

\* After the wait of LIST.
run_right(p) ==
  /\ At(p, "right")
  /\ proc' = [proc EXCEPT ![p].pc = "run", ![p].cmd = @.right, ![p].at = Append(@, 1)]
  /\ UNCHANGED <<typed, failed>>

run_back(p) ==
  /\ Node(p, "BACK")
  /\ fork1(p, Word(p, proc[p].cmd.cmd, 1, proc[p].fd), [proc[p] EXCEPT !.pc = "exit"])
  /\ UNCHANGED typed

\* pipe(p): the descriptors of the two ends are the lowest free ones.
EndR(p) == <<"r", proc[p].at>>
EndW(p) == <<"w", proc[p].at>>


\* What a child does before it runs one side: obj becomes descriptor fd, and
\* both ends of the pipe are closed.
Side(p, fd, obj) ==
  LET p0 == FdOf(proc[p].fd, EndR(p))
      p1 == FdOf(proc[p].fd, EndW(p))
      fds == open(close(proc[p].fd, fd), obj)
  IN  close(close(fds, p0), p1)

\* panic() if pipe() fails.
pipe_fails(p) ==
  /\ Node(p, "PIPE")
  /\ proc' = exit(p)
  /\ UNCHANGED <<typed, failed>>

run_pipe(p) ==
  /\ Node(p, "PIPE")
  /\ proc' = [proc EXCEPT ![p].pc = "pipeleft", ![p].fd = open(open(@, EndR(p)), EndW(p))]
  /\ UNCHANGED <<typed, failed>>

pipe_left(p) ==
  /\ At(p, "pipeleft")
  /\ fork1(p, Word(p, proc[p].cmd.left, 0, Side(p, 1, EndW(p))), [proc[p] EXCEPT !.pc = "piperight"])
  /\ UNCHANGED typed

pipe_right(p) ==
  /\ At(p, "piperight")
  /\ fork1(p, Word(p, proc[p].cmd.right, 1, Side(p, 0, EndR(p))), [proc[p] EXCEPT !.pc = "pipeclose"])
  /\ UNCHANGED typed

\* Error: the shell keeps the end of the pipe that it does not write to.
pipe_close_bug(p) ==
  /\ At(p, "pipeclose")
  /\ proc' = [proc EXCEPT ![p].pc = "wait2", ![p].fd = close(@, FdOf(proc[p].fd, EndR(p)))]
  /\ UNCHANGED <<typed, failed>>

pipe_close(p) ==
  /\ At(p, "pipeclose")
  /\ proc' = [proc EXCEPT ![p].pc = "wait2",
                          ![p].fd = close(close(@, FdOf(proc[p].fd, EndR(p))), FdOf(proc[p].fd, EndW(p)))]
  /\ UNCHANGED <<typed, failed>>

run_exit(p) == At(p, "exit") /\ proc' = exit(p) /\ UNCHANGED <<typed, failed>>

runcmd(p) ==
  \/ parse(p) \/ run_exec(p) \/ run_redir(p) \/ run_list(p) \/ run_right(p) \/ run_back(p)
  \/ run_pipe(p) \/ pipe_fails(p) \/ pipe_left(p) \/ pipe_right(p) \/ pipe_close(p) \/ run_exit(p)
  \/ waits(p, "main", "prompt") \/ waits(p, "listwait", "right")
  \/ waits(p, "wait2", "wait1") \/ waits(p, "wait1", "exit")
  \/ program(p) /\ UNCHANGED <<typed, failed>>

Next == (\E line \in Lines : getcmd(line)) \/ eof \/ \E p \in Pid : runcmd(p)

Fairness == /\ WF_vars(\E line \in Lines : getcmd(line))
            /\ \A p \in Pid : WF_vars(runcmd(p))

Spec == Init /\ [][Next]_vars /\ Fairness

-----------------------------------------------------------------------------
(* What a command means: the programs it runs, each with its place, its    *)
(* arguments, its input and its output.                                    *)

RECURSIVE Programs(_, _, _, _)
Programs(c, at, in, out) ==
  CASE c.type = "EXEC" -> {[at |-> at, argv |-> c.argv, in |-> in, out |-> out]}
    [] c.type = "REDIR" -> Programs(c.cmd, Append(at, 1),
                             IF c.op = "<" THEN <<"file", c.file>> ELSE in,
                             IF c.op = "<" THEN out ELSE <<"file", c.file>>)
    [] c.type = "PIPE" -> Programs(c.left, Append(at, 0), in, <<"w", at>>)
                            \cup Programs(c.right, Append(at, 1), <<"r", at>>, out)
    [] c.type = "LIST" -> Programs(c.left, Append(at, 0), in, out)
                            \cup Programs(c.right, Append(at, 1), in, out)
    [] c.type = "BACK" -> Programs(c.cmd, Append(at, 1), in, out)

Line(p) == typed[proc[p].at[1]].cmd

\* The node at a place of command c, and whether the place lies behind a &.
RECURSIVE Behind(_, _)
Behind(c, at) ==
  at # <<>> /\
    CASE c.type = "BACK" -> TRUE
      [] c.type \in {"PIPE", "LIST"} -> Behind(IF at[1] = 0 THEN c.left ELSE c.right, Tail(at))
      [] OTHER -> Behind(c.cmd, Tail(at))

Background(p) == Behind(Line(p), Tail(proc[p].at))

Working == {p \in Pid \ {SH} : proc[p].pc \notin {"unused", "zombie", "parse"}}

\* p and q are on the two sides of a LIST node, p on the left.
RECURSIVE Apart(_, _, _)
Apart(c, a, b) ==
  a # <<>> /\ b # <<>> /\
    IF a[1] # b[1] THEN c.type = "LIST" /\ a[1] = 0
    ELSE CASE c.type \in {"PIPE", "LIST"} -> Apart(IF a[1] = 0 THEN c.left ELSE c.right, Tail(a), Tail(b))
           [] c.type = "EXEC" -> FALSE
           [] OTHER -> Apart(c.cmd, Tail(a), Tail(b))


\* The prompt comes back: no pipeline leaves a program waiting for an end of file
\* because some process of the shell still has the pipe open.
PromptReturns == At(SH, "main") ~> (At(SH, "prompt") \/ At(SH, "unused"))
=============================================================================
