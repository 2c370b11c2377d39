\* Every small filter on every small row.
SPECIFICATION Spec
CONSTANTS
  ValueFields <- MCValueFields
  RangeFields <- MCRangeFields
  Nullable <- MCNullable
  Rows <- MCRows
  Items <- MCItems
  Holds <- MCHolds
  Filters <- MCFilters
  MISFIT = MISFIT
  NULL = NULL
INVARIANTS
  NeverTooMany
  AgreesUnlessDropped
\* A call translates once.
CHECK_DEADLOCK FALSE
