SPECIFICATION Spec
CONSTANTS
  Procs = {p1, p2}
  Names = {n1, n2}
  Ids <- IdList
  Parts <- AllParts
SYMMETRY Symmetry
INVARIANTS
  UniqueUnlessRaced NoDangling CountsAgree CopiesAgree FinalStays
PROPERTIES
  ChangesStayHome
CHECK_DEADLOCK FALSE
