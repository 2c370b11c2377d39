\* Groups whose members include one that keeps every row.
SPECIFICATION Spec
CONSTANTS
  ValueFields <- MCValueFields
  RangeFields <- MCRangeFields
  Nullable <- MCNullable
  Rows <- MCRows
  Items <- MCItems
  Holds <- MCHolds
  Filters <- MCFilters
  MISFIT = MISFIT
  NULL = NULL
INVARIANTS
  TranslationAgrees
\* A call translates once.
CHECK_DEADLOCK FALSE
