\* The command beside callers that reclaim alone, and two workers that overlap.
SPECIFICATION MCSpec
CONSTANTS
  Notes = {n1}
  Files = {1, 2}
  Links = {l1, l2}
  Names = {m1, m2}
  Contents = {x1, x2}
  Calls = {c1, c2}
  Ops <- AllOps
  MaxItems = 1
  ReclaimAlone = TRUE
  Stopping <- ButReclaim
  Runs = {r1, r2}
  Options <- AnyOption
  MaxStops = 1
  NULL = NULL
SYMMETRY Symmetry
INVARIANTS
  BackfillTypeOK
  EndedRunsComplete
  AttachedWhatWasAsked
  BackedLinks
PROPERTIES
  OnlyCorrects
\* Each call is made once, and the bounds stop the command.
CHECK_DEADLOCK FALSE
