\* AUTH that comes between the run thread's test and its sleep.
SPECIFICATION FairSpec
CONSTANTS
  TOP = TOP
  LEFT = LEFT
  NO_CHANGE = NO_CHANGE
  Builds <- OnlyTap
  Sides <- OneSide
  WarmUp = 0
  ReqSlots = 1
PROPERTY AuthorizedDetects
