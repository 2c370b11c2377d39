\* A client walks each listing while rows come, are decided, read and rescheduled.
SPECIFICATION Spec
CONSTANTS
  Plans <- MCPlans
  Stops = {"short", "count"}
  SendAfters = {0, 2}
  PageSizes = {1, 4}
  MaxRows = 3
  MaxTime = 3
  MaxChanges = 3
CONSTRAINT Bounded
INVARIANTS
  TypeOK
  WalkMissesFew
  WalkRepeatsFew
  InAppWalkMissesNothing
  ScheduleMissesNothing
\* The walk ends.
CHECK_DEADLOCK FALSE
