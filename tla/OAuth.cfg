SPECIFICATION Spec
CONSTANTS
  Procs = {p1, p2}
  Users = {u1}
  Services <- AllServices
  Rows <- RowBound
  Codes <- CodeBound
SYMMETRY Symmetry
INVARIANTS
  DeadStaysDead UnusableRefused FirstAuthOnce OneLiveRefresh SessionKept NoOrphanSession
CHECK_DEADLOCK FALSE
