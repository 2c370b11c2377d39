\* Another call attaches a file while it is being reclaimed.
SPECIFICATION Spec
CONSTANTS
  Notes = {n1}
  Files = {f1}
  Links = {l1}
  Names = {m1}
  Contents = {x1}
  Calls = {c1, c2}
  Ops <- AllOps
  MaxItems = 1
  ReclaimAlone = FALSE
  Stopping <- NoOps
  NULL = NULL
SYMMETRY Symmetry
INVARIANTS
  ReclaimSparesReferenced
\* Every call ends and no new one is made.
CHECK_DEADLOCK FALSE
