--------------------------- MODULE MCVercelRuntime ---------------------------
(* Instances of VercelRuntime for TLC.                                     *)
EXTENDS VercelRuntime, TLC

Symmetry == Permutations(Procs) \cup Permutations(Changes)
=============================================================================
