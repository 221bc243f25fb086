\* Two instances, two origins, overlapping requests, failures and stops.
SPECIFICATION RuntimeSpec
CONSTANTS
  Procs = {p1, p2}
  Instances = {i1, i2}
  Origins = {o1, o2}
  Parts = 2
  Changes = {c1, c2}
  NoChange = NoChange
  MaxStops = 2
  Failures = TRUE
SYMMETRY Symmetry
INVARIANTS SnapshotCoversAcked AckedSurvivesInTurn
PROPERTIES WarmStateKept
CHECK_DEADLOCK FALSE
