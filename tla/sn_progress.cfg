\* Both sensor builds under every order of commands, buttons and samples.
SPECIFICATION FairSpec
CONSTANTS
  TOP = TOP
  LEFT = LEFT
  NO_CHANGE = NO_CHANGE
  Builds <- BothBuilds
  Sides <- OneSide
  WarmUp = 1
  ReqSlots = 1
INVARIANT TypeOK
PROPERTIES
  TapAttempted
  IdAttempted
  SleepsWhenDeauthorized
  QuietWhenDeauthorized
