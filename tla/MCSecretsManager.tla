--------------------------- MODULE MCSecretsManager ---------------------------
(* Instances of SecretsManager for TLC.                                    *)
EXTENDS SecretsManager, TLC

Symmetry == Permutations(Procs)
MCMoves == {{"AWSCURRENT"}, {"blue"}, {"AWSPREVIOUS", "blue"}, {"AWSCURRENT", "blue"},
            {"AWSCURRENT", "AWSPREVIOUS"}}

(* The properties of the run Secrets say nothing of a secret once its      *)
(* writers have overlapped, so states after an overlap are not explored.   *)
NoOverlapYet == raced = {}
=============================================================================
