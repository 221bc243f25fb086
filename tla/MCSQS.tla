-------------------------------- MODULE MCSQS --------------------------------
(* SQS with the requests interchangeable.                                  *)
EXTENDS SQS, TLC
Symmetry == Permutations(Procs)
=============================================================================
