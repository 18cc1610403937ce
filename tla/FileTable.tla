----------------------------- MODULE FileTable ------------------------------
(***************************************************************************)
(* The table of open files (kernel/file.c) and the descriptors of the      *)
(* processes (kernel/sysfile.c): who holds a file, and what is released    *)
(* when nobody does.  A section under ftable.lock or pi->lock is a step.   *)
(* Only the process itself looks at its descriptors, so that a step may    *)
(* change several of them.                                                 *)
(***************************************************************************)
EXTENDS Naturals, FiniteSets, FiniteSetsExt, SequencesExt

CONSTANTS Proc, initproc, NOFILE, NFILE,
          PipePage     \* pages that kalloc() has for pipes

FD == 1..NOFILE
File == 1..NFILE
Nobody == [type |-> "none", w |-> FALSE, pipe |-> 0]

VARIABLES
  ref, info,     \* ftable.file: reference count; type, direction and pipe
  pipe,          \* the open ends of each pipe, {} if its page is free
  iref,          \* references of files to inodes
  ofile,         \* descriptors of each process, 0 if unused
  loc            \* the system call that each process is in

vars == <<ref, info, pipe, iref, ofile, loc>>

\* rf, wf: the files that a call has allocated and not yet handed on; todo: those
\* it will close; ff: what fileclose() has found in the last reference.
User == [pc |-> "user", rf |-> 0, wf |-> 0, todo |-> <<>>, ff |-> Nobody]
Gone == [User EXCEPT !.pc = "gone"]

Init ==
  /\ ref = [x \in File |-> 0] /\ info = [x \in File |-> Nobody]
  /\ pipe = [k \in PipePage |-> {}]
  /\ iref = 0
  /\ ofile = [p \in Proc |-> [fd \in FD |-> 0]]
  /\ loc = [p \in Proc |-> IF p = initproc THEN User ELSE Gone]

At(p, pc) == loc[p].pc = pc /\ loc[p].todo = <<>> /\ loc[p].ff = Nobody

\* Close the files in s, and go on at pc.
Closing(p, s, pc) == loc' = [loc EXCEPT ![p] = [User EXCEPT !.pc = pc, !.todo = s]]

Unused(p) == {fd \in FD : ofile[p][fd] = 0}
fdalloc(p, x) == [ofile EXCEPT ![p][Min(Unused(p))] = x]

\* The first file without references, 0 if there is none.
FirstFree == LET S == {x \in File : ref[x] = 0} IN IF S = {} THEN 0 ELSE Min(S)

\* filealloc(), called by sys_open() and twice by pipealloc().
filealloc(p, pc, field, next, fail) ==
  /\ At(p, pc)
  /\ IF FirstFree = 0
     THEN Closing(p, fail, "user") /\ UNCHANGED ref
     ELSE /\ ref' = [ref EXCEPT ![FirstFree] = 1]
          /\ loc' = [loc EXCEPT ![p].pc = next,
                                ![p].rf = IF field = "rf" THEN FirstFree ELSE @,
                                ![p].wf = IF field = "wf" THEN FirstFree ELSE @]
  /\ UNCHANGED <<info, pipe, iref, ofile>>

\* sys_open(), once it has the inode.
sys_open(p) ==
  /\ At(p, "open")
  /\ IF Unused(p) = {}
     THEN Closing(p, <<loc[p].rf>>, "user") /\ UNCHANGED <<info, iref, ofile>>
     ELSE /\ ofile' = fdalloc(p, loc[p].rf)
          /\ info' = [info EXCEPT ![loc[p].rf] = [Nobody EXCEPT !.type = "inode"]]
          /\ iref' = iref + 1
          /\ loc' = [loc EXCEPT ![p] = User]
  /\ UNCHANGED <<ref, pipe>>

\* The rest of pipealloc(): the page of the pipe, and the types of the files.
pipealloc(p) ==
  LET rf == loc[p].rf
      wf == loc[p].wf
      Free == {k \in PipePage : pipe[k] = {}}
  IN  /\ At(p, "pipealloc")
      /\ \/ /\ Free = {}
            /\ Closing(p, <<rf, wf>>, "user")
            /\ UNCHANGED <<info, pipe>>
         \/ \E k \in Free :
              /\ pipe' = [pipe EXCEPT ![k] = {"r", "w"}]
              /\ info' = [info EXCEPT ![rf] = [type |-> "pipe", w |-> FALSE, pipe |-> k],
                                      ![wf] = [type |-> "pipe", w |-> TRUE, pipe |-> k]]
              /\ loc' = [loc EXCEPT ![p].pc = "pipe"]
      /\ UNCHANGED <<ref, iref, ofile>>

\* Error: the first descriptor is kept when there is no second one.
sys_pipe_bug(p) ==
  LET rf == loc[p].rf
      wf == loc[p].wf
      fd0 == Min(Unused(p))
      fd1 == Min(Unused(p) \ {fd0})
  IN  /\ At(p, "pipe")
      /\ \/ /\ Closing(p, <<rf, wf>>, "user")
            /\ ofile' = IF Cardinality(Unused(p)) = 1 THEN [ofile EXCEPT ![p][fd0] = rf]
                        ELSE ofile
         \/ /\ Cardinality(Unused(p)) >= 2
            /\ ofile' = [ofile EXCEPT ![p][fd0] = rf, ![p][fd1] = wf]
            /\ loc' = [loc EXCEPT ![p] = User]
      /\ UNCHANGED <<ref, info, pipe, iref>>

\* The rest of sys_pipe(): two descriptors, unless there are none left or the
\* address to store them at is bad.
sys_pipe(p) ==
  LET rf == loc[p].rf
      wf == loc[p].wf
      fd0 == Min(Unused(p))
      fd1 == Min(Unused(p) \ {fd0})
  IN  /\ At(p, "pipe")
      /\ \/ Closing(p, <<rf, wf>>, "user") /\ UNCHANGED ofile
         \/ /\ Cardinality(Unused(p)) >= 2
            /\ ofile' = [ofile EXCEPT ![p][fd0] = rf, ![p][fd1] = wf]
            /\ loc' = [loc EXCEPT ![p] = User]
      /\ UNCHANGED <<ref, info, pipe, iref>>

\* A process enters sys_open() or sys_pipe().
call(p, pc) ==
  /\ At(p, "user")
  /\ loc' = [loc EXCEPT ![p].pc = pc]
  /\ UNCHANGED <<ref, info, pipe, iref, ofile>>

sys_dup(p, fd) ==
  /\ At(p, "user") /\ ofile[p][fd] # 0 /\ Unused(p) # {}
  /\ ofile' = fdalloc(p, ofile[p][fd])
  /\ ref' = [ref EXCEPT ![ofile[p][fd]] = @ + 1]
  /\ UNCHANGED <<info, pipe, iref, loc>>

sys_close(p, fd) ==
  /\ At(p, "user") /\ ofile[p][fd] # 0
  /\ ofile' = [ofile EXCEPT ![p][fd] = 0]
  /\ Closing(p, <<ofile[p][fd]>>, "user")
  /\ UNCHANGED <<ref, info, pipe, iref>>

Uses(p, x) == Cardinality({fd \in FD : ofile[p][fd] = x})

\* kfork() of p: the child q has the descriptors of its parent.
kfork(p, q) ==
  /\ At(p, "user") /\ At(q, "gone")
  /\ ref' = [x \in File |-> ref[x] + Uses(p, x)]
  /\ ofile' = [ofile EXCEPT ![q] = ofile[p]]
  /\ loc' = [loc EXCEPT ![q] = User]
  /\ UNCHANGED <<info, pipe, iref>>

\* kexit() closes all descriptors; init does not exit.
kexit(p) ==
  /\ At(p, "user") /\ p # initproc
  /\ ofile' = [ofile EXCEPT ![p] = [fd \in FD |-> 0]]
  /\ Closing(p, SelectSeq(ofile[p], LAMBDA x : x # 0), "gone")
  /\ UNCHANGED <<ref, info, pipe, iref>>

\* fileclose() under ftable.lock: the last reference frees the slot, and ff
\* remembers what is still to be released.  It panics without a reference.
fileclose(p) ==
  LET x == Head(loc[p].todo)
  IN  /\ loc[p].todo # <<>> /\ loc[p].ff = Nobody /\ ref[x] > 0
      /\ ref' = [ref EXCEPT ![x] = @ - 1]
      /\ info' = [info EXCEPT ![x] = IF ref[x] = 1 THEN Nobody ELSE @]
      /\ loc' = [loc EXCEPT ![p].todo = Tail(@),
                            ![p].ff = IF ref[x] = 1 THEN info[x] ELSE Nobody]
      /\ UNCHANGED <<pipe, iref, ofile>>

\* The end of fileclose(), without ftable.lock: pipeclose() or iput().
release(p) ==
  LET ff == loc[p].ff
  IN  /\ ff # Nobody
      /\ pipe' = IF ff.type # "pipe" THEN pipe
                 ELSE [pipe EXCEPT ![ff.pipe] = @ \ {IF ff.w THEN "w" ELSE "r"}]
      /\ iref' = IF ff.type = "inode" THEN iref - 1 ELSE iref
      /\ loc' = [loc EXCEPT ![p].ff = Nobody]
      /\ UNCHANGED <<ref, info, ofile>>

Next == \E p \in Proc :
  \/ \E pc \in {"filealloc", "filealloc_r"} : call(p, pc)
  \/ filealloc(p, "filealloc", "rf", "open", <<>>)
  \/ filealloc(p, "filealloc_r", "rf", "filealloc_w", <<>>)
  \/ filealloc(p, "filealloc_w", "wf", "pipealloc", <<loc[p].rf>>)
  \/ sys_open(p) \/ pipealloc(p) \/ sys_pipe(p)
  \/ \E fd \in FD : sys_dup(p, fd) \/ sys_close(p, fd)
  \/ \E q \in Proc : kfork(p, q)
  \/ kexit(p) \/ fileclose(p) \/ release(p)

Spec == Init /\ [][Next]_vars

-----------------------------------------------------------------------------
(* Properties.                                                             *)

\* The references to file x: descriptors, and the locals of the calls.
Holders(x) ==
  MapThenSumSet(LAMBDA p : Uses(p, x)
    + Cardinality({i \in DOMAIN loc[p].todo : loc[p].todo[i] = x})
    + (IF loc[p].rf = x THEN 1 ELSE 0) + (IF loc[p].wf = x THEN 1 ELSE 0), Proc)

\* The files or the interrupted fileclose()s that stand for one end of pipe k.
Ends(k, w) ==
  LET Is(i) == i.type = "pipe" /\ i.pipe = k /\ i.w = w
  IN  Cardinality({x \in File : Is(info[x])}) + Cardinality({p \in Proc : Is(loc[p].ff)})

\* f->ref counts the holders of a file, so that fileclose() and filedup() never
\* panic and the slot of a file in use is never given away; each open end of a
\* pipe belongs to exactly one file, or to one fileclose() that is about to close
\* it, and so a pipe is freed exactly when its last end is closed; and files
\* hold as many inode references as there are open inodes: nothing leaks on the
\* failure paths of open() and pipe().
FilesCounted ==
  /\ \A x \in File : ref[x] = Holders(x) /\ (ref[x] = 0 => info[x] = Nobody)
  /\ \A k \in PipePage :
       /\ Ends(k, FALSE) = (IF "r" \in pipe[k] THEN 1 ELSE 0)
       /\ Ends(k, TRUE) = (IF "w" \in pipe[k] THEN 1 ELSE 0)
  /\ iref = Cardinality({x \in File : info[x].type = "inode"})
            + Cardinality({p \in Proc : loc[p].ff.type = "inode"})
=============================================================================
