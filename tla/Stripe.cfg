SPECIFICATION Spec
CONSTANTS
  Procs = {p1, p2}
  Customers = {c1}
  Nobody = Nobody
  Amounts = {a1, a2}
  MaxCreated = 2
  MaxCharges = 2
INVARIANTS
  ChargedOnce ChargedAsConfirmed CustomerForgotten
PROPERTIES
  FinalStays
CHECK_DEADLOCK FALSE
