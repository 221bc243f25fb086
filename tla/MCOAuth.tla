-------------------------------- MODULE MCOAuth --------------------------------
(* The authorization servers, each in behaviours of its own, bounded by    *)
(* what its handlers insert: a raced exchange, and a refresh or two.       *)
EXTENDS OAuth, TLC

AllServices == DOMAIN Handlers
Bounds == [google    |-> [rows |-> 6, codes |-> 1],
           microsoft |-> [rows |-> 7, codes |-> 1],
           okta      |-> [rows |-> 5, codes |-> 1],
           apple     |-> [rows |-> 5, codes |-> 2],
           clerk     |-> [rows |-> 3, codes |-> 1],
           github    |-> [rows |-> 4, codes |-> 2],
           slack     |-> [rows |-> 3, codes |-> 1],
           discord   |-> [rows |-> 4, codes |-> 2],
           vercel    |-> [rows |-> 4, codes |-> 2]]
RowBound == [s \in AllServices |-> Bounds[s].rows]
CodeBound == [s \in AllServices |-> Bounds[s].codes]
Symmetry == Permutations(Procs)
=============================================================================
