--------------------------------- MODULE Pipe ---------------------------------
(***************************************************************************)
(* kernel/pipe.c: processes that write to, read from and close one pipe,   *)
(* and are killed meanwhile.  A process is inside the pipe only through a  *)
(* file descriptor it has open, and the last close of an end calls         *)
(* pipeclose().                                                            *)
(*                                                                         *)
(* pi->lock is a variable; one turn of a loop that runs under it is a      *)
(* step, but sleep() is a step apart from the test of p->killed before it, *)
(* because kkill() does not take pi->lock.                                 *)
(***************************************************************************)
EXTENDS Naturals, Sequences, FiniteSets

CONSTANTS Writer, Reader,  \* processes with the write and the read end open
          Byte,
          PIPESIZE,        \* size of the ring
          UINT,            \* 2^32: nread and nwrite are of type uint
          Length,          \* numbers of bytes asked for in one call
          Killable,        \* processes that may be killed
          Nobody

ASSUME PipeAssumption ==
  /\ PIPESIZE \in Nat \ {0} /\ UINT \in Nat
  /\ UINT > PIPESIZE /\ UINT % PIPESIZE = 0
  /\ Length \subseteq Nat
  /\ Nobody \notin Writer \cup Reader /\ Writer \cap Reader = {}

Proc == Writer \cup Reader

VARIABLES
  data, nread, nwrite, readopen, writeopen,  \* struct pipe
  freed,   \* kfree(pi) has been called
  lock,    \* pi->lock: its holder or NoProc
  ppc,      \* where each process is
  n, i,    \* length asked for, bytes transferred so far
  pkilled,  \* p->killed
  fd       \* the processes that have their descriptor still open

piVars == <<data, nread, nwrite, readopen, writeopen>>
pipeVars == <<piVars, freed, lock, ppc, n, i, pkilled, fd>>

PipeTypeOK ==
  /\ data \in [0..(PIPESIZE - 1) -> Byte]
  /\ nread \in 0..(UINT - 1) /\ nwrite \in 0..(UINT - 1)
  /\ readopen \in BOOLEAN /\ writeopen \in BOOLEAN /\ freed \in BOOLEAN
  /\ lock \in Proc \cup {Nobody}
  /\ ppc \in [Proc -> {"out", "acquire", "loop", "sleep", "asleep", "copy",
                  "close"}]
  /\ n \in [Proc -> Length \cup {0}] /\ i \in [Proc -> Nat]
  /\ \A p \in Proc : i[p] <= n[p]
  /\ pkilled \in [Proc -> BOOLEAN]
  /\ fd \in SUBSET Proc

\* pipealloc() has made the pipe and the descriptors are handed out.
PipeInit ==
  /\ data \in {[k \in 0..(PIPESIZE - 1) |-> b] : b \in Byte}
  /\ nread = 0 /\ nwrite = 0
  /\ readopen = TRUE /\ writeopen = TRUE /\ freed = FALSE
  /\ lock = Nobody
  /\ ppc = [p \in Proc |-> "out"]
  /\ n = [p \in Proc |-> 0] /\ i = [p \in Proc |-> 0]
  /\ pkilled = [p \in Proc |-> FALSE]
  /\ fd = Proc

\* A definition whose name ends in _bug is a deliberate error in the one that
\* follows it; each property is shown to fail when such an error is made.

Empty == nread = nwrite
\* Error: one byte too many.
Full_bug == nwrite = (nread + PIPESIZE + 1) % UINT

Full  == nwrite = (nread + PIPESIZE) % UINT

More(p) == i[p] < n[p]

\* wakeup(&pi->nread) and wakeup(&pi->nwrite): the sleeping processes of S
\* go on to take the lock again.
Wake(S) == [p \in Proc |-> IF p \in S /\ ppc[p] = "asleep" THEN "acquire"
                           ELSE ppc[p]]

\* read(), write(): enter with a descriptor, an untouched count and length k.
call(p, k) ==
  /\ ppc[p] = "out" /\ p \in fd /\ ~pkilled[p]
  /\ ppc' = [ppc EXCEPT ![p] = "acquire"]
  /\ n' = [n EXCEPT ![p] = k]
  /\ i' = [i EXCEPT ![p] = 0]
  /\ UNCHANGED <<piVars, freed, lock, pkilled, fd>>

acquire(p) ==
  /\ ppc[p] = "acquire" /\ lock = Nobody
  /\ lock' = p
  /\ ppc' = [ppc EXCEPT ![p] = "loop"]
  /\ UNCHANGED <<piVars, freed, n, i, pkilled, fd>>

\* release(&pi->lock) and return: the local variables are dead.
Return(p, waking) ==
  /\ lock' = Nobody
  /\ ppc' = [Wake(waking) EXCEPT ![p] = "out"]
  /\ n' = [n EXCEPT ![p] = 0]
  /\ i' = [i EXCEPT ![p] = 0]

\* sleep(), up to the point where another process may run.
sleep(p) ==
  /\ ppc[p] = "sleep"
  /\ lock' = Nobody
  /\ ppc' = [ppc EXCEPT ![p] = "asleep"]
  /\ UNCHANGED <<piVars, freed, n, i, pkilled, fd>>

-------------------------------------------------------------------------------
(* pipewrite(), from the test of the loop on.                              *)

\* There is nobody to read, or the writer is killed: return -1.
write_fail(p) ==
  /\ p \in Writer /\ ppc[p] = "loop" /\ More(p)
  /\ ~readopen \/ pkilled[p]
  /\ Return(p, {})
  /\ UNCHANGED <<piVars, freed, pkilled, fd>>

\* Error: the readers are not woken.
write_full_bug(p) ==
  /\ p \in Writer /\ ppc[p] = "loop" /\ More(p)
  /\ readopen /\ ~pkilled[p] /\ Full
  /\ ppc' = [ppc EXCEPT ![p] = "sleep"]
  /\ UNCHANGED <<piVars, freed, lock, n, i, pkilled, fd>>

\* The pipe is full: wake the readers and sleep on &pi->nwrite.
write_full(p) ==
  /\ p \in Writer /\ ppc[p] = "loop" /\ More(p)
  /\ readopen /\ ~pkilled[p] /\ Full
  /\ ppc' = [Wake(Reader) EXCEPT ![p] = "sleep"]
  /\ UNCHANGED <<piVars, freed, lock, n, i, pkilled, fd>>

write_byte(p, b) ==
  /\ p \in Writer /\ ppc[p] = "loop" /\ More(p)
  /\ readopen /\ ~pkilled[p] /\ ~Full
  /\ data' = [data EXCEPT ![nwrite % PIPESIZE] = b]
  /\ nwrite' = (nwrite + 1) % UINT
  /\ i' = [i EXCEPT ![p] = @ + 1]
  /\ UNCHANGED <<nread, readopen, writeopen, freed, lock, ppc, n, pkilled, fd>>

\* All bytes are written, or copyin() fails: wake the readers, return i.
write_done(p) ==
  /\ p \in Writer /\ ppc[p] = "loop"
  /\ i[p] = n[p] \/ (readopen /\ ~pkilled[p] /\ ~Full)
  /\ Return(p, Reader)
  /\ UNCHANGED <<piVars, freed, pkilled, fd>>

-------------------------------------------------------------------------------
(* piperead(), from its first loop on.                                     *)

read_fail(p) ==
  /\ p \in Reader /\ ppc[p] = "loop" /\ Empty /\ writeopen /\ pkilled[p]
  /\ Return(p, {})
  /\ UNCHANGED <<piVars, freed, pkilled, fd>>

\* Error: a closed write end is not noticed.
read_empty_bug(p) ==
  /\ p \in Reader /\ ppc[p] = "loop" /\ Empty /\ ~pkilled[p]
  /\ ppc' = [ppc EXCEPT ![p] = "sleep"]
  /\ UNCHANGED <<piVars, freed, lock, n, i, pkilled, fd>>

read_empty(p) ==
  /\ p \in Reader /\ ppc[p] = "loop" /\ Empty /\ writeopen /\ ~pkilled[p]
  /\ ppc' = [ppc EXCEPT ![p] = "sleep"]
  /\ UNCHANGED <<piVars, freed, lock, n, i, pkilled, fd>>

read_start(p) ==
  /\ p \in Reader /\ ppc[p] = "loop" /\ (~Empty \/ ~writeopen)
  /\ ppc' = [ppc EXCEPT ![p] = "copy"]
  /\ UNCHANGED <<piVars, freed, lock, n, i, pkilled, fd>>

read_byte(p) ==
  /\ ppc[p] = "copy" /\ More(p) /\ ~Empty
  /\ nread' = (nread + 1) % UINT
  /\ i' = [i EXCEPT ![p] = @ + 1]
  /\ UNCHANGED <<data, nwrite, readopen, writeopen, freed, lock, ppc, n, pkilled,
                 fd>>

\* copyout() fails after the byte has been taken: stop.
read_fault(p) ==
  /\ ppc[p] = "copy" /\ More(p) /\ ~Empty
  /\ nread' = (nread + 1) % UINT
  /\ Return(p, Writer)
  /\ UNCHANGED <<data, nwrite, readopen, writeopen, freed, pkilled, fd>>

read_done(p) ==
  /\ ppc[p] = "copy" /\ (i[p] = n[p] \/ Empty)
  /\ Return(p, Writer)
  /\ UNCHANGED <<piVars, freed, pkilled, fd>>

-------------------------------------------------------------------------------
\* fileclose() of a descriptor: the last one of its end is to call pipeclose().
End(p) == IF p \in Writer THEN Writer ELSE Reader

\* Error: every close, not only the last, closes the end.
fileclose_bug(p) ==
  /\ ppc[p] = "out" /\ p \in fd
  /\ fd' = fd \ {p}
  /\ ppc' = [ppc EXCEPT ![p] = "close"]
  /\ UNCHANGED <<piVars, freed, lock, n, i, pkilled>>

fileclose(p) ==
  /\ ppc[p] = "out" /\ p \in fd
  /\ fd' = fd \ {p}
  /\ ppc' = [ppc EXCEPT ![p] = IF fd' \cap End(p) = {} THEN "close" ELSE "out"]
  /\ UNCHANGED <<piVars, freed, lock, n, i, pkilled>>

\* pipeclose(): clear the flag of this end, wake those who sleep at the other
\* end, and free the page when both ends are closed.
pipeclose(p) ==
  /\ ppc[p] = "close" /\ lock = Nobody
  /\ writeopen' = (writeopen /\ p \notin Writer)
  /\ readopen' = (readopen /\ p \in Writer)
  /\ ppc' = [Wake(Proc \ End(p)) EXCEPT ![p] = "out"]
  /\ freed' = (~readopen' /\ ~writeopen')
  /\ UNCHANGED <<data, nread, nwrite, lock, n, i, pkilled, fd>>

\* kkill() of a process: a sleeping one is made runnable.
kkill(p) ==
  /\ p \in Killable /\ ~pkilled[p]
  /\ pkilled' = [pkilled EXCEPT ![p] = TRUE]
  /\ ppc' = Wake({p})
  /\ UNCHANGED <<piVars, freed, lock, n, i, fd>>

write(p) == write_fail(p) \/ write_full(p) \/ write_done(p)
              \/ \E b \in Byte : write_byte(p, b)

read(p) == read_fail(p) \/ read_empty(p) \/ read_start(p) \/ read_byte(p)
             \/ read_fault(p) \/ read_done(p)

\* What a process that has entered the kernel goes on to do.
Inside(p) == acquire(p) \/ sleep(p) \/ write(p) \/ read(p) \/ pipeclose(p)

PipeNext == \E p \in Proc :
          \/ \E k \in Length : call(p, k)
          \/ Inside(p) \/ fileclose(p) \/ kkill(p)

PipeSpec == PipeInit /\ [][PipeNext]_pipeVars

-------------------------------------------------------------------------------
\* The scheduler runs every runnable process, a spin lock is not withheld from
\* one process for ever, and a killed process closes its files in kexit().
PipeFairness ==
  \A p \in Proc : /\ SF_pipeVars(acquire(p) \/ pipeclose(p))
                  /\ WF_pipeVars(sleep(p) \/ write(p) \/ read(p))
                  /\ WF_pipeVars(pkilled[p] /\ fileclose(p))

PipeFairSpec == PipeSpec /\ PipeFairness

\* The bytes of the ring between nread and nwrite, oldest first.
queue == [k \in 1..((nwrite + UINT - nread) % UINT) |->
            data[(nread + k - 1) % PIPESIZE]]

BQ == INSTANCE ByteQueue

\* The ring of pipewrite() and piperead(), whose counters wrap around at UINT,
\* is a queue of at most PIPESIZE bytes: every byte comes out once, in the
\* order in which the writers put it in, nothing is put in after the read end
\* is closed, and an end once closed stays closed.
Fifo == BQ!Spec

\* Nobody sleeps for something that is already there.  While no process is in
\* the middle of an operation, a sleeping reader has nothing to read and a
\* writer to wait for, and a sleeping writer faces a full pipe and has a
\* reader to wait for (the wakeup() calls of pipewrite(), piperead() and
\* pipeclose() are enough).
NoLostWakeup ==
  lock = Nobody =>
    \A p \in Proc : ppc[p] = "asleep" =>
      IF p \in Reader THEN Empty /\ writeopen ELSE Full /\ readopen

\* No process is inside the pipe once kfree() has returned its page, and each
\* end is closed by exactly one process.
NoUseAfterFree ==
  /\ PipeTypeOK
  /\ freed => \A p \in Proc : ppc[p] = "out"
  /\ \A p \in Proc : ppc[p] = "close" =>
       IF p \in Writer THEN writeopen ELSE readopen

\* What is read at the end of the file: once the last writer has closed its
\* end, every reader returns from piperead() without the help of anybody
\* else, and once the last reader has, so does every writer.
HangupReturns ==
  \A p \in Proc : (IF p \in Reader THEN ~writeopen ELSE ~readopen)
                    ~> (ppc[p] = "out")
===============================================================================
