CONSTANTS
  m1 = m1
  m2 = m2
  k1 = k1
  Member <- TwoMembers
  Caller <- OneCaller
  Signals = 2
SPECIFICATION FairSpec
CHECK_DEADLOCK FALSE
INVARIANTS
  OnErrorOnce
  ServeErrorsSurvive
  
PROPERTIES
  StopEndsLoop
