\* Three calls race on two notifications, or write one of them in every way.
SPECIFICATION MCSpec
CONSTANTS
  Ids = {n1, n2}
  Users = {u1}
  Calls = {c1, c2, c3}
  x1 = x1
  Contents = {x1, x2}
  SendAfters <- Unscheduled
  UpdateStatuses = {"SENT", "READ"}
  Ops <- OneStore
  MaxNow = 1
  NULL = NULL
  KEEP = KEEP
SYMMETRY Symmetry
INVARIANTS
  TypeOK
  OneOutcome
  OutcomeDurable
  StampedByWinner
  RefusedMeansDecided
  ReportedStatus
  BulkReturnsWhatItMarked
PROPERTIES
  SettledImmutable
  ImplementsLifecycle
\* Every call returns in the end and no new one is made.
CHECK_DEADLOCK FALSE
