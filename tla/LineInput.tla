------------------------------ MODULE LineInput -------------------------------
(***************************************************************************)
(* What the console promises about input: the line being typed can be      *)
(* edited, and nothing that a reader may already see is changed by it.     *)
(***************************************************************************)
EXTENDS Naturals, Sequences

CONSTANTS Char, Ends, SIZE

VARIABLES input,  \* characters of finished lines, not read yet
          line    \* the line being typed

vars == <<input, line>>

Init == input = <<>> /\ line = <<>>

Type(c) ==
  LET new == Append(line, c) IN
    /\ Len(input) + Len(line) < SIZE
    /\ IF c \in Ends \/ Len(input) + Len(new) = SIZE
       THEN input' = input \o new /\ line' = <<>>
       ELSE input' = input /\ line' = new

Erase    == line # <<>> /\ line' = SubSeq(line, 1, Len(line) - 1) /\ UNCHANGED input
KillLine == line' = <<>> /\ UNCHANGED input
Read     == input # <<>> /\ input' = Tail(input) /\ UNCHANGED line

Next == KillLine \/ Erase \/ Read \/ \E c \in Char : Type(c)

Spec == Init /\ [][Next]_vars
===============================================================================
