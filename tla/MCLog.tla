-------------------------------- MODULE MCLog ---------------------------------
(* Log for TLC: no symmetry, because a run checks liveness. *)
EXTENDS Log
===============================================================================
