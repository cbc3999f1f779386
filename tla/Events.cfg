SPECIFICATION FairSpec
CONSTANTS
  Events = {a, b, c, d}
  Limit = 2
  Milli = 2
  MaxTime = 4
CHECK_DEADLOCK FALSE
INVARIANTS
  NothingSkipped
  RepeatsWithinMilli
PROPERTIES
  Delivered
