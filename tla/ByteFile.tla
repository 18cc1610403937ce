------------------------------ MODULE ByteFile ------------------------------
(***************************************************************************)
(* What a file promises its users: a sequence of cells that is written at  *)
(* an offset within it or at its end, read back, and emptied.              *)
(***************************************************************************)
EXTENDS Naturals, Sequences

VARIABLES files, out

vars == <<files, out>>

Overwrite(f, o, s) == SubSeq(f, 1, o) \o s \o SubSeq(f, o + Len(s) + 1, Len(f))

\* The whole of a write, or its beginning if the disk is full.
Write(i, o, s) == /\ o <= Len(files[i])
                  /\ files' = [files EXCEPT ![i] = Overwrite(@, o, s)]
                  /\ UNCHANGED out

\* The end of the file cuts a read short.
Read(i, o, n) == /\ out' = SubSeq(files[i], o + 1, IF o + n < Len(files[i]) THEN o + n ELSE Len(files[i]))
                 /\ UNCHANGED files

Truncate(i) == /\ files' = [files EXCEPT ![i] = <<>>]
               /\ UNCHANGED out
=============================================================================
