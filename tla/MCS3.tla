---------------------------------- MODULE MCS3 ----------------------------------
(* Instances of S3 for TLC.                                                *)
EXTENDS S3, TLC

Symmetry == Permutations(Procs) \cup Permutations(Bodies)
=============================================================================
