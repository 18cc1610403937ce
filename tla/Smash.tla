------------------------------- MODULE Smash --------------------------------
(***************************************************************************)
(* user/smash.c, the shell that init starts: pipelines, background         *)
(* execution and the history.  A line is a sequence of tokens that ends    *)
(* with the newline that gets() leaves in it.  Aliases are left out.       *)
(***************************************************************************)
EXTENDS UserProc

CONSTANTS MAX_HISTORY,
          Typed,      \* lines that are typed
          MaxLine     \* bound: lines

VARIABLES history,        \* the ring
          history_count,
          job,            \* the line that is run: its stages, and how far it is
          failed,         \* history: whether pipe() has failed
          ran             \* history: the lines run so far

vars == <<proc, history, history_count, job, failed, ran>>
rest == <<history, history_count, job, failed, ran>>

Newline == "\n"
Redirection == {"<", ">", ">>"}
NoJob == [line |-> <<>>, left |-> <<>>, background |-> FALSE, last_in |-> 0]

Init ==
  /\ proc = [p \in Pid |-> IF p = SH THEN [Unused EXCEPT !.pc = "prompt"] ELSE Unused]
  /\ history = [i \in 0..(MAX_HISTORY - 1) |-> <<>>] /\ history_count = 0
  /\ job = NoJob /\ failed = FALSE /\ ran = <<>>

-----------------------------------------------------------------------------
(* History                                                                 *)

atoi == "0" :> 0 @@ "1" :> 1 @@ "2" :> 2

Entry(i) == history[i % MAX_HISTORY]

\* !!, !number and !prefix; <<>> if there is no such line.  The newline is part of
\* the prefix.
expand_history(line) ==
  LET Matching == {i \in 0..(history_count - 1) : IsPrefix(Tail(line), Entry(i))}
  IN  CASE line[2] = "!" -> IF history_count = 0 THEN <<>> ELSE Entry(history_count - 1)
        [] line[2] \in DOMAIN atoi -> IF atoi[line[2]] >= history_count THEN <<>> ELSE Entry(atoi[line[2]])
        [] OTHER -> IF Matching = {} THEN <<>> ELSE Entry(Max(Matching))

add_history(line) ==
  /\ history' = [history EXCEPT ![history_count % MAX_HISTORY] = line]
  /\ history_count' = history_count + 1

-----------------------------------------------------------------------------
(* One command of a pipeline, in the child.                                *)

dup2(fds, old, new) == IF old = new THEN fds ELSE open(close(fds, new), fds[old])

RECURSIVE apply_redirection(_, _)
apply_redirection(fds, cmd) ==
  LET fd == LowestFd(fds)
      opened == [fds EXCEPT ![fd] = <<"file", cmd[2]>>]
  IN  IF cmd = <<>> THEN fds
      ELSE IF cmd[1] \notin Redirection THEN apply_redirection(fds, Tail(cmd))
      ELSE IF cmd[2] \in Missing THEN <<>>
      ELSE apply_redirection(close(dup2(opened, fd, IF cmd[1] = "<" THEN 0 ELSE 1), fd), Tail(cmd))

\* The arguments end at the first redirection.
Arguments(cmd) ==
  LET n == Min({i \in 1..Len(cmd) : cmd[i] \in Redirection} \cup {Len(cmd) + 1})
  IN  SubSeq(cmd, 1, n - 1)

\* Redirection, and exec(), which fails without an argument or a program.
start(p) ==
  LET fds == apply_redirection(proc[p].fd, proc[p].cmd.argv)
      argv == Arguments(proc[p].cmd.argv)
  IN  /\ At(p, "start")
      /\ proc' = IF fds = <<>> \/ argv = <<>> \/ argv[1] \in Missing THEN exit(p)
                 ELSE [proc EXCEPT ![p].pc = "exec", ![p].fd = fds, ![p].cmd = [argv |-> argv]]
      /\ UNCHANGED rest

-----------------------------------------------------------------------------
(* run_pipeline()                                                          *)

UpTo(s, tok) == SubSeq(s, 1, Min({i \in 1..Len(s) : s[i] = tok} \cup {Len(s) + 1}) - 1)

\* The first command of what is left of the pipeline, and the rest.
First(s) == UpTo(s, "|")
Others(s) == SubSeq(s, Len(First(s)) + 2, Len(s))

\* What the loop does for one command: a pipe to the next one, if there is one,
\* and a child.  fork() that fails is taken for the parent's return.
stage ==
  LET more == Others(job.left) # <<>>
      at == <<Len(ran) + 1, Len(job.left)>>
      fds == proc[SH].fd
      piped == IF more THEN open(open(fds, <<"r", at>>), <<"w", at>>) ELSE fds
      r == FdOf(piped, <<"r", at>>)
      w == FdOf(piped, <<"w", at>>)
      in == IF job.last_in # 0 THEN close(dup2(piped, job.last_in, 0), job.last_in) ELSE piped
      out == IF more THEN close(close(dup2(in, w, 1), r), w) ELSE in
      kept == IF job.last_in # 0 THEN close(piped, job.last_in) ELSE piped
      next == [proc[SH] EXCEPT !.fd = IF more THEN close(kept, w) ELSE kept]
      child == [Unused EXCEPT !.pc = "start", !.cmd = [argv |-> First(job.left)], !.at = at, !.fd = out]
  IN  /\ At(SH, "pipeline") /\ job.left # <<>>
      /\ proc' = IF Free = {} THEN [proc EXCEPT ![SH] = next] ELSE fork(SH, child, next)
      /\ job' = [job EXCEPT !.left = Others(@), !.last_in = IF more THEN r ELSE @]
      /\ UNCHANGED <<history, history_count, failed, ran>>

Done == /\ add_history(job.line)
        /\ ran' = Append(ran, job.line)
        /\ job' = NoJob

\* pipe() fails: run_pipeline() returns at once.
pipe_failed ==
  /\ At(SH, "pipeline") /\ Others(job.left) # <<>>
  /\ Done /\ failed' = TRUE
  /\ proc' = [proc EXCEPT ![SH].pc = "prompt"]

\* After the last command: in the foreground, wait until there is no child.
finish ==
  /\ At(SH, "pipeline") /\ job.left = <<>>
  /\ IF job.background THEN proc' = [proc EXCEPT ![SH].pc = "prompt"]
                       ELSE wait(SH, "pipeline", "prompt")
  /\ IF job.background \/ Child(SH) = {} THEN Done ELSE UNCHANGED <<history, history_count, job, ran>>
  /\ UNCHANGED failed

-----------------------------------------------------------------------------
(* main(): a line is read, expanded, separated into tokens and run.        *)

read_line(line) ==
  LET full == IF line[1] = "!" THEN expand_history(line) ELSE line
      tokens == Front(full)
      background == Last(tokens) = "&"
  IN  /\ At(SH, "prompt") /\ Len(ran) < MaxLine
      /\ full # <<>>
      /\ proc' = [proc EXCEPT ![SH].pc = "pipeline"]
      /\ job' = [line |-> full, background |-> background, last_in |-> 0,
                 left |-> IF background THEN Front(tokens) ELSE tokens]
      /\ UNCHANGED <<history, history_count, failed, ran>>

\* The line exit.
quit ==
  /\ At(SH, "prompt")
  /\ proc' = exit(SH)
  /\ UNCHANGED rest

Next ==
  \/ \E line \in Typed : read_line(line)
  \/ stage \/ pipe_failed \/ finish \/ quit
  \/ \E p \in Pid : start(p) \/ (program(p) /\ UNCHANGED rest)

Spec == Init /\ [][Next]_vars

-----------------------------------------------------------------------------

\* The input and output of every command of line n: files if it is redirected, else the
\* pipes to its neighbours, else the console.
RECURSIVE Ends(_, _, _)
Ends(left, in, n) ==
  LET cmd == First(left)
      at == <<n, Len(left)>>
      more == Others(left) # <<>>
      Last1(ops, dflt) == LET S == {i \in 1..Len(cmd) : cmd[i] \in ops}
                          IN  IF S = {} THEN dflt ELSE <<"file", cmd[Max(S) + 1]>>
  IN  IF left = <<>> THEN {}
      ELSE {[at |-> at, in |-> Last1({"<"}, in),
             out |-> Last1({">", ">>"}, IF more THEN <<"w", at>> ELSE Console)]}
           \cup Ends(Others(left), <<"r", at>>, n)

Body(line) == IF Last(Front(line)) = "&" THEN Front(Front(line)) ELSE Front(line)
LineOf(n) == IF n <= Len(ran) THEN ran[n] ELSE job.line

\* A program of a pipeline has the input and output that the line says and, while no
\* pipe() has failed, no other descriptor, although the shell passes each read end on in
\* last_in and uses two pairs of variables in turn; the prompt comes back after a
\* foreground line only when no program is left; and !number runs the line with
\* that number as long as the ring holds it.
PipelinesAsTyped ==
  /\ \A p \in Pid : At(p, "exec") =>
       LET fds == proc[p].fd IN
         /\ [at |-> proc[p].at, in |-> fds[0], out |-> fds[1]]
              \in Ends(Body(LineOf(proc[p].at[1])), Console, proc[p].at[1])
         /\ failed \/ \A fd \in 3..MaxFd : fds[fd] = Closed
  /\ At(SH, "prompt") /\ ~failed => proc[SH].fd = Tty
  /\ At(SH, "prompt") /\ ~failed /\ ran # <<>> => Last(Front(Last(ran))) = "&" \/ Child(SH) = {}
  /\ history_count = Len(ran)
  /\ \A i \in 0..(history_count - 1) : i + MAX_HISTORY >= history_count => Entry(i) = ran[i + 1]
=============================================================================
