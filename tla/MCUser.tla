------------------------------- MODULE MCUser ---------------------------------
(***************************************************************************)
(* What programs see: the files that mkfs has put on the disk and the      *)
(* kernel reads and writes, descriptors, the allocator of the user         *)
(* library, and the two shells.  The models share no state, so that one of *)
(* them runs at a time.                                                    *)
(***************************************************************************)
EXTENDS Naturals, Sequences

CONSTANTS Align, Page, MaxPages, Size, MaxLive,
          Task, init, NOFILE, NFILE, PipePage,
          BSIZE, NDIRECT, FSSIZE, BPB, nlog, NINODES, MAXOPBLOCKS, FileName, Writer, Handle,
          MaxCall, Length, ninodeblocks,
          MAXARGS, MaxPid, MaxJob, MaxFd, Cat, Absent, MaxLine, MAX_HISTORY, MaxRun

VARIABLES
  part,
  heap, brk, fsm, scribble, live,
  ref, info, pipe, iref, ofile, loc,
  disk, f, job, out, calls, args, freeinode, freeblock, host, files,
  tree,
  shproc, typed, failed,
  smproc, history, history_count, line, nopipe, ran

userVars == <<heap, brk, fsm, scribble, live>>
fdVars == <<ref, info, pipe, iref, ofile, loc>>
fileVars == <<disk, f, job, out, calls, args, freeinode, freeblock, host, files>>
shVars == <<shproc, typed, failed>>
smVars == <<smproc, history, history_count, line, nopipe, ran>>
vars == <<part, userVars, fdVars, fileVars, tree, shVars, smVars>>

-------------------------------------------------------------------------------
(* Arguments of mkfs: a file that needs an indirect block, and a directory.*)

Plain(name, n) == [name |-> name, kind |-> "file", body |-> [k \in 1..n |-> <<100 + k, name>>]]
Dir(name, body) == [name |-> name, kind |-> "dir", body |-> body]
Images == {<<Plain("a", 5)>>,
           <<Dir("t", <<Plain("b", 3), Plain("c", 0)>>)>>}

(* Lines for the shells: e ends by itself, c reads its input, m is missing.*)

ShLines ==
  {<<"e", "|", "c", "|", "c", ">", "f">>,
   <<"c", "<", "m", ";", "e">>,
   <<"m", "|", "c", "&">>,
   <<"e", "&", "|">>,
   <<"(", "e", "&", ";", "c", "<", "f", ")", "|", "c">>}

NL == "\n"
SmLines ==
  {<<"e", "|", "c", "<", "f", "|", "c", ">", "f", NL>>,
   <<"c", "<", "m", "|", "e", "x", "&", NL>>,
   <<"e", NL>>, <<"!", "!", NL>>, <<"!", "0", NL>>, <<"!", "e", NL>>}

-------------------------------------------------------------------------------
A == INSTANCE Umalloc
T == INSTANCE FileTable WITH Proc <- Task, initproc <- init
F == INSTANCE Mkfs WITH Name <- FileName, File <- Handle, Args <- Images
P == INSTANCE ShParse
H == INSTANCE Shell WITH proc <- shproc, Lines <- ShLines, Reader <- Cat, Missing <- Absent,
                         NPROC <- MaxPid
K == INSTANCE Smash WITH proc <- smproc, Typed <- SmLines, Reader <- Cat, Missing <- Absent,
                         NPROC <- MaxJob, MaxLine <- MaxRun, job <- line, failed <- nopipe

\* All commands of up to three words and two symbols.
Trees ==
  LET Words == {P!execcmd(<<>>), P!execcmd(<<"a">>), P!execcmd(<<"a", "b">>)}
  IN  P!Built(P!Built(Words, {"<", ">"}, {"f"}), {">>"}, {"f"})

Init ==
  /\ part \in {"alloc", "table", "files", "parse", "sh", "smash"}
  /\ A!Init /\ T!Init /\ F!Init /\ H!Init /\ K!Init
  /\ part # "files" => args = CHOOSE a \in Images : TRUE
  /\ IF part = "parse" THEN tree \in Trees ELSE tree = P!Nothing

Sh(action) == part = "sh" /\ action /\ UNCHANGED <<part, userVars, fdVars, fileVars, tree, smVars>>
ShGets == Sh(\E l \in ShLines : H!getcmd(l))
ShRuns(p) == Sh(H!runcmd(p))

Next ==
  \/ part = "alloc" /\ A!Next /\ UNCHANGED <<part, fdVars, fileVars, tree, shVars, smVars>>
  \/ part = "table" /\ T!Next /\ UNCHANGED <<part, userVars, fileVars, tree, shVars, smVars>>
  \/ part = "files" /\ F!Next /\ UNCHANGED <<part, userVars, fdVars, tree, shVars, smVars>>
  \/ Sh(H!Next)
  \/ part = "smash" /\ K!Next /\ UNCHANGED <<part, userVars, fdVars, fileVars, tree, shVars>>

\* Every process of the shell is scheduled (NoStarvation of Scheduler.tla).
Spec == Init /\ [][Next]_vars /\ WF_vars(ShGets) /\ \A p \in 1..MaxPid : WF_vars(ShRuns(p))

-------------------------------------------------------------------------------

\* malloc(), calloc(), realloc() and free(): blocks tile the heap, the free list holds
\* the free ones, and what a program has stored stays.
HeapSound == part = "alloc" => A!HeapSound

\* filealloc(), filedup(), fileclose(), pipealloc() and the calls that use them:
\* f->ref is the number of holders, and nothing leaks.
FilesCounted == part = "table" => T!FilesCounted


\* No operation gives the log more blocks than begin_op() reserves.
LogBudget == part = "files" => F!LogBudget

\* readi(), writei(), itrunc(): a file is a sequence.
FilesAreSequences == F!FilesAreSequences


\* sh.c returns to its prompt: no process of a pipeline waits for an end of file
\* that cannot come.
PromptReturns == H!PromptReturns
===============================================================================
