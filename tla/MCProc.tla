-------------------------------- MODULE MCProc --------------------------------
(* Proc for TLC: no symmetry, because a run checks liveness. *)
EXTENDS Proc
===============================================================================
