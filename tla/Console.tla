-------------------------------- MODULE Console -------------------------------
(***************************************************************************)
(* Console input, kernel/console.c: consoleintr(), called for each         *)
(* character that arrives, and the processes in consoleread().             *)
(* cons.lock is held by a reader from one sleep() to the next, and a turn  *)
(* of its loop is a step; consoleintr() is one step.  The echo goes to     *)
(* module Uart.                                                            *)
(***************************************************************************)
EXTENDS Naturals, Sequences

CONSTANTS Proc, NoProc,
          Plain,            \* characters without a special meaning
          INPUT_BUF_SIZE,
          UINT,             \* 2^32, a multiple of it: the type of r, w, e
          MaxLen,           \* bound: bytes asked for in one read()
          Killable          \* readers that may be killed

NUL == "nul"
NL == "newline"
CtrlD == "end of file"
Stored == Plain \cup {NL, CtrlD}
Ends == {NL, CtrlD}

VARIABLES buf, r, w, e,   \* cons
          lock,           \* cons.lock: its holder or NoProc
          pc, n, target,  \* of each reader
          killed

vars == <<buf, r, w, e, lock, pc, n, target, killed>>

TypeOK ==
  /\ buf \in [0..(INPUT_BUF_SIZE - 1) -> Stored \cup {NUL}]
  /\ {r, w, e} \subseteq 0..(UINT - 1)
  /\ lock \in Proc \cup {NoProc}
  /\ pc \in [Proc -> {"out", "acquire", "loop", "sleep", "asleep"}]
  /\ n \in [Proc -> 0..MaxLen] /\ target \in [Proc -> 0..MaxLen]
  /\ killed \in [Proc -> BOOLEAN]

Init ==
  /\ buf = [k \in 0..(INPUT_BUF_SIZE - 1) |-> NUL]
  /\ r = 0 /\ w = 0 /\ e = 0
  /\ lock = NoProc
  /\ pc = [p \in Proc |-> "out"]
  /\ n = [p \in Proc |-> 0] /\ target = n
  /\ killed = [p \in Proc |-> FALSE]

\* A definition whose name ends in _bug is a deliberate error in the one that
\* follows it; each property is shown to fail when such an error is made.

Inc(k) == (k + 1) % UINT

\* Subtraction of unsigned integers.
Minus(a, b) == (a + UINT - b) % UINT
At(k) == buf[k % INPUT_BUF_SIZE]

Woken == [p \in Proc |-> IF pc[p] = "asleep" THEN "acquire" ELSE pc[p]]

-------------------------------------------------------------------------------
(* consoleintr()                                                           *)

\* The default case; '\r' is stored as '\n', and what does not fit is dropped.
store(c) ==
  /\ lock = NoProc
  /\ Minus(e, r) < INPUT_BUF_SIZE
  /\ buf' = [buf EXCEPT ![e % INPUT_BUF_SIZE] = c]
  /\ e' = Inc(e)
  /\ IF c \in Ends \/ Minus(e', r) = INPUT_BUF_SIZE
     THEN w' = e' /\ pc' = Woken
     ELSE UNCHANGED <<w, pc>>
  /\ UNCHANGED <<r, lock, n, target, killed>>

\* Error: a finished line can be erased.
backspace_bug ==
  /\ lock = NoProc /\ e # r
  /\ e' = Minus(e, 1)
  /\ UNCHANGED <<buf, r, w, lock, pc, n, target, killed>>

\* Control-H or delete.
backspace ==
  /\ lock = NoProc /\ e # w
  /\ e' = Minus(e, 1)
  /\ UNCHANGED <<buf, r, w, lock, pc, n, target, killed>>

\* Control-U: back to the last newline or to w.
kill_line ==
  /\ lock = NoProc /\ e # w
  /\ \E k \in 1..Minus(e, w) :
       /\ \A j \in 1..k : At(Minus(e, j)) # NL
       /\ k = Minus(e, w) \/ At(Minus(e, k + 1)) = NL
       /\ e' = Minus(e, k)
  /\ UNCHANGED <<buf, r, w, lock, pc, n, target, killed>>

consoleintr == (\E c \in Stored : store(c)) \/ backspace \/ kill_line

-------------------------------------------------------------------------------
(* consoleread()                                                           *)

read(p, k) ==
  /\ pc[p] = "out" /\ ~killed[p]
  /\ pc' = [pc EXCEPT ![p] = "acquire"]
  /\ n' = [n EXCEPT ![p] = k] /\ target' = [target EXCEPT ![p] = k]
  /\ UNCHANGED <<buf, r, w, e, lock, killed>>

acquire(p) ==
  /\ pc[p] = "acquire" /\ lock = NoProc
  /\ lock' = p
  /\ pc' = [pc EXCEPT ![p] = "loop"]
  /\ UNCHANGED <<buf, r, w, e, n, target, killed>>

\* Release the lock and return target - n; the local variables are dead.
Return(p) ==
  /\ lock' = NoProc
  /\ pc' = [pc EXCEPT ![p] = "out"]
  /\ n' = [n EXCEPT ![p] = 0] /\ target' = [target EXCEPT ![p] = 0]

read_done(p) ==
  /\ pc[p] = "loop" /\ n[p] = 0
  /\ Return(p)
  /\ UNCHANGED <<buf, r, w, e, killed>>

\* There is no input: give up when killed, or else sleep.
read_killed(p) ==
  /\ pc[p] = "loop" /\ n[p] > 0 /\ r = w /\ killed[p]
  /\ Return(p)
  /\ UNCHANGED <<buf, r, w, e, killed>>

read_empty(p) ==
  /\ pc[p] = "loop" /\ n[p] > 0 /\ r = w /\ ~killed[p]
  /\ pc' = [pc EXCEPT ![p] = "sleep"]
  /\ UNCHANGED <<buf, r, w, e, lock, n, target, killed>>

sleep(p) ==
  /\ pc[p] = "sleep"
  /\ lock' = NoProc
  /\ pc' = [pc EXCEPT ![p] = "asleep"]
  /\ UNCHANGED <<buf, r, w, e, n, target, killed>>

\* Control-D ends the read; it stays in the buffer for the next read() when
\* this one has bytes to return.
read_eof(p) ==
  /\ pc[p] = "loop" /\ n[p] > 0 /\ r # w /\ At(r) = CtrlD
  /\ r' = IF n[p] < target[p] THEN r ELSE Inc(r)
  /\ Return(p)
  /\ UNCHANGED <<buf, w, e, killed>>

\* Any other character is taken, and lost if either_copyout() fails.
read_char(p) ==
  /\ pc[p] = "loop" /\ n[p] > 0 /\ r # w /\ At(r) # CtrlD
  /\ r' = Inc(r)
  /\ \/ /\ At(r) # NL
        /\ n' = [n EXCEPT ![p] = @ - 1]
        /\ UNCHANGED <<lock, pc, target>>
     \/ Return(p)
  /\ UNCHANGED <<buf, w, e, killed>>

kill(p) ==
  /\ p \in Killable /\ ~killed[p]
  /\ killed' = [killed EXCEPT ![p] = TRUE]
  /\ pc' = [pc EXCEPT ![p] = Woken[p]]
  /\ UNCHANGED <<buf, r, w, e, lock, n, target>>

consoleread(p) == acquire(p) \/ read_done(p) \/ read_killed(p)
                    \/ read_empty(p) \/ sleep(p) \/ read_eof(p) \/ read_char(p)

Next == \/ consoleintr
        \/ \E p \in Proc : (\E k \in 0..MaxLen : read(p, k)) \/ consoleread(p)
                             \/ kill(p)

Spec == Init /\ [][Next]_vars

-------------------------------------------------------------------------------
Slice(a, b) == [k \in 1..Minus(b, a) |-> At(a + k - 1)]
input == Slice(r, w)
line  == Slice(w, e)

LI == INSTANCE LineInput WITH Char <- Stored, SIZE <- INPUT_BUF_SIZE

\* The ring of console.c, whose three indices wrap around at UINT, is a queue
\* of finished lines followed by a line that can be edited: neither typing nor
\* erasing ever changes a character that consoleread() may already return,
\* nothing is overwritten when the ring is full, and each character is read
\* at most once, in order.
LineDiscipline == LI!Spec

\* While the lock is free, a reader sleeps only if there is no finished line
\* for it: the wakeup(&cons.r) of consoleintr() comes whenever w moves.
NoLostWakeup ==
  /\ TypeOK
  /\ lock = NoProc => \A p \in Proc : pc[p] = "asleep" => r = w

\* "Save ^D for next time, to make sure caller gets a 0-byte result": the end
\* of file is taken from the ring only by a read() that returns no bytes.
EofIsZeroBytes ==
  [][\A p \in Proc : lock = p /\ r # w /\ At(r) = CtrlD /\ r' # r
        => pc'[p] = "out" /\ n[p] = target[p]]_vars
===============================================================================
