SPECIFICATION Spec
CONSTANTS
  Procs = {p1, p2}
  Queues = {q1, q2, q3}
  Small = {q3}
  Topics = {t1}
  Rules = {r1}
  Subscribed <- SubscribedAtFirst
  Targeted <- TargetedAtFirst
  MaxAccepted = 1
  MaxChanges = 3
INVARIANTS
  StandingIsServed LogTellsTruth
PROPERTIES
  EventuallyAnswered
CHECK_DEADLOCK FALSE
