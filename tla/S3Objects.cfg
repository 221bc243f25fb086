\* Two keys of one bucket under puts, copies, deletes and bucket deletions.
SPECIFICATION Spec
CONSTANTS
  Procs = {p1, p2}
  Names = {n1}
  Keys = {k1, k2}
  Bodies = {b1, b2}
  NoBody = NoBody
  Ops = {"createBucket", "deleteBucket", "put", "copy", "delete", "get"}
  MaxBuckets = 2
  MaxObjects = 2
SYMMETRY Symmetry
INVARIANTS PlacesFollowWrites OrphansOnlyFromRaces
CHECK_DEADLOCK FALSE
