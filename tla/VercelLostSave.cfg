\* Two requests at the same time on one server of one instance.
SPECIFICATION RuntimeSpec
CONSTANTS
  Procs = {p1, p2}
  Instances = {i1}
  Origins = {o1}
  Parts = 2
  Changes = {c1, c2, c3}
  NoChange = NoChange
  MaxStops = 1
  Failures = FALSE
SYMMETRY Symmetry
INVARIANTS AckedSurvives
CHECK_DEADLOCK FALSE
