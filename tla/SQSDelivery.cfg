SPECIFICATION Spec
CONSTANTS
  Procs = {p1, p2}
  QNames = {jobs}
  Ops = {"create", "send", "receive", "delete", "change"}
  Timeouts = {0, 1}
  Defaults = {0}
  Extra = {}
  TagKeys = {}
  MaxBatch = 2
  MaxQueues = 1
  MaxMessages = 2
  MaxReceives = 2
  MaxClock = 1
SYMMETRY Symmetry
CHECK_DEADLOCK FALSE
INVARIANTS LatestHandleOnly
PROPERTIES NoEarlyRedelivery NoLossBeforeDelivery
