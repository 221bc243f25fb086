SPECIFICATION Spec
CONSTANTS
  Writers = {p1, p2}
  Clients = {c1}
  Messages = {m1}
  Labels = {draft, tag}
  Draft = draft
  Tag = tag
  Wanted <- DraftOrTag
  PageSize = 1
  MaxHistory = 3
INVARIANTS
  MissedOnlyIfRaced LabelsFollowHistory
PROPERTIES
  EventuallyTold
CHECK_DEADLOCK FALSE
