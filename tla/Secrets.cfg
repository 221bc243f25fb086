\* Labels, versions and tags, with scheduled and forced deletions and restores.
SPECIFICATION Spec
CONSTANTS
  Procs = {p1, p2}
  Names = {n1}
  Tokens = {1, 2, 3}
  Custom = {"blue"}
  TagKeys = {t1}
  Moves <- MCMoves
  Ops = {"create", "put", "delete", "restore", "destroy", "tag", "untag"}
  MaxSecrets = 1
  MaxVersions = 3
  MaxClock = 1
SYMMETRY Symmetry
CONSTRAINT NoOverlapYet
INVARIANTS LabelsFollowPuts TokenIsIdempotent ForcedDeleteTakesVersions
CHECK_DEADLOCK FALSE
