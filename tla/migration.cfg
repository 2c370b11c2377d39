\* Operators migrate end to end or stop at any migration, where the application
\* then runs, and migrate may die between a copy and its record.
SPECIFICATION Spec
CONSTANTS
  Notes = {n1, n2}
  Names = {m1, m2}
  MaxRows = 3
  MaxMoves = 9
  NULL = NULL
  GONE = GONE
SYMMETRY Symmetry
CONSTRAINT Bounded
INVARIANTS
  TypeOK
  NothingLost
  NothingAdded
  FilesKept
\* Users and operators may stop, and the bounds stop them.
CHECK_DEADLOCK FALSE
