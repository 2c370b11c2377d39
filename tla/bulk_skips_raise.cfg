\* The result of an unscoped bulk read over one-off notifications.
SPECIFICATION Spec
CONSTANTS
  Ids = {n1}
  Users = {u1}
  Calls = {c1, c2, c3}
  x1 = x1
  Contents = {x1}
  SendAfters <- Unscheduled
  UpdateStatuses = {}
  Ops <- Bulk
  MaxNow = 1
  NULL = NULL
  KEEP = KEEP
SYMMETRY Symmetry
INVARIANTS
  SkippedNeverRaise
CHECK_DEADLOCK FALSE
