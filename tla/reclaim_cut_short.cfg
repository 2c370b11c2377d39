\* A reclaim that nothing overlaps with stops between its two steps; the same
\* bytes are uploaded later.
SPECIFICATION Spec
CONSTANTS
  Notes = {n1}
  Files = {f1}
  Links = {l1}
  Names = {m1}
  Contents = {x1}
  Calls = {c1, c2}
  Ops <- Reclaiming
  MaxItems = 1
  ReclaimAlone = TRUE
  Stopping <- AllOps
  NULL = NULL
SYMMETRY Symmetry
INVARIANTS
  UploadsReadable
\* Every call ends and no new one is made.
CHECK_DEADLOCK FALSE
