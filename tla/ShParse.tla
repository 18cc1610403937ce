------------------------------ MODULE ShParse -------------------------------
(***************************************************************************)
(* The parser of user/sh.c: from the tokens of a line, which gettoken()    *)
(* separates, to a command.  A token is one of the symbols or a word.  A   *)
(* parser returns the command and the tokens that are left, or Panic if it *)
(* has printed an error and exits.                                         *)
(***************************************************************************)
EXTENDS Naturals, Sequences, SequencesExt

CONSTANTS MAXARGS

Symbols == {"<", ">", ">>", "|", "&", ";", "(", ")"}

execcmd(argv) == [type |-> "EXEC", argv |-> argv]
redircmd(cmd, r) == [type |-> "REDIR", cmd |-> cmd, op |-> r.op, file |-> r.file]
pipecmd(l, r) == [type |-> "PIPE", left |-> l, right |-> r]
listcmd(l, r) == [type |-> "LIST", left |-> l, right |-> r]
backcmd(cmd) == [type |-> "BACK", cmd |-> cmd]

Nothing == execcmd(<<>>)
Panic == [ok |-> FALSE, cmd |-> Nothing, s |-> <<>>]
Parsed(cmd, s) == [ok |-> TRUE, cmd |-> cmd, s |-> s]

peek(s, toks) == s # <<>> /\ Head(s) \in toks
IsWord(s) == s # <<>> /\ Head(s) \notin Symbols

\* All redirections at the head of s: they are wrapped around the command one
\* after the other.
RECURSIVE parseredirs(_, _)
parseredirs(r, s) ==
  IF ~peek(s, {"<", ">", ">>"}) THEN [ok |-> TRUE, redirs |-> r, s |-> s]
  ELSE IF ~IsWord(Tail(s)) THEN [ok |-> FALSE, redirs |-> r, s |-> <<>>]
  ELSE parseredirs(Append(r, [op |-> s[1], file |-> s[2]]), SubSeq(s, 3, Len(s)))

Wrap(cmd, redirs) == FoldLeft(redircmd, cmd, redirs)

\* The loop of parseexec(): words and redirections up to the end of a command.
RECURSIVE parseargs(_, _, _)
parseargs(argv, redirs, s) ==
  LET Step(r) ==
        IF ~r.ok THEN Panic
        ELSE IF r.s = <<>> \/ peek(r.s, {"|", ")", "&", ";"})
        THEN Parsed(Wrap(execcmd(argv), r.redirs), r.s)
        ELSE IF ~IsWord(r.s) \/ Len(argv) + 1 >= MAXARGS THEN Panic
        ELSE parseargs(Append(argv, Head(r.s)), r.redirs, Tail(r.s))
  IN  Step(parseredirs(redirs, s))

RECURSIVE parseline(_), parsepipe(_), parseblock(_)

parseexec(s) == IF peek(s, {"("}) THEN parseblock(s) ELSE parseargs(<<>>, <<>>, s)

parsepipe(s) ==
  LET Joined(l, r) == IF ~r.ok THEN Panic ELSE Parsed(pipecmd(l.cmd, r.cmd), r.s)
      Rest(l) == IF ~l.ok \/ ~peek(l.s, {"|"}) THEN l ELSE Joined(l, parsepipe(Tail(l.s)))
  IN  Rest(parseexec(s))

\* Any number of & after a pipeline.
RECURSIVE parseback(_, _)
parseback(cmd, s) == IF peek(s, {"&"}) THEN parseback(backcmd(cmd), Tail(s)) ELSE Parsed(cmd, s)

parseline(s) ==
  LET Joined(l, r) == IF ~r.ok THEN Panic ELSE Parsed(listcmd(l.cmd, r.cmd), r.s)
      Rest(l) == IF ~peek(l.s, {";"}) THEN l ELSE Joined(l, parseline(Tail(l.s)))
      First(p) == IF ~p.ok THEN Panic ELSE Rest(parseback(p.cmd, p.s))
  IN  First(parsepipe(s))

parseblock(s) ==
  LET Redirected(cmd, r) == IF ~r.ok THEN Panic ELSE Parsed(Wrap(cmd, r.redirs), r.s)
      Inner(b) == IF ~b.ok \/ ~peek(b.s, {")"}) THEN Panic
                  ELSE Redirected(b.cmd, parseredirs(<<>>, Tail(b.s)))
  IN  Inner(parseline(Tail(s)))

parsecmd(s) == LET Whole(r) == IF r.s # <<>> THEN Panic ELSE r IN Whole(parseline(s))

-----------------------------------------------------------------------------
(* How a command is written, with parentheses where they are needed.       *)

RECURSIVE Written(_)
Written(c) ==
  LET In(d, types) == IF d.type \in types THEN <<"(">> \o Written(d) \o <<")">> ELSE Written(d)
  IN  CASE c.type = "EXEC" -> c.argv
        [] c.type = "REDIR" -> In(c.cmd, {"PIPE", "LIST", "BACK"}) \o <<c.op, c.file>>
        [] c.type = "PIPE" -> In(c.left, {"PIPE", "LIST", "BACK"}) \o <<"|">>
                                \o In(c.right, {"LIST", "BACK"})
        [] c.type = "LIST" -> In(c.left, {"LIST"}) \o <<";">> \o Written(c.right)
        [] c.type = "BACK" -> In(c.cmd, {"LIST"}) \o <<"&">>

\* The commands that are built from those in S by one more constructor.
Built(S, Op, Name) ==
  LET R == [op : Op, file : Name]
  IN  S \cup {redircmd(c, r) : c \in S, r \in R} \cup {backcmd(c) : c \in S}
        \cup {pipecmd(l, r) : l \in S, r \in S} \cup {listcmd(l, r) : l \in S, r \in S}
=============================================================================
