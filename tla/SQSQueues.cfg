SPECIFICATION Spec
CONSTANTS
  Procs = {p1, p2}
  QNames = {jobs}
  Ops = {"create", "destroy", "purge", "send", "set", "tag", "untag"}
  Timeouts = {0, 1}
  Defaults = {0}
  Extra = {policy}
  TagKeys = {t1}
  MaxBatch = 1
  MaxQueues = 2
  MaxMessages = 2
  MaxReceives = 1
  MaxClock = 0
SYMMETRY Symmetry
CHECK_DEADLOCK FALSE
INVARIANTS PurgeComplete NameMeansOneQueue
