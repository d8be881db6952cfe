CONSTANTS
  m1 = m1
  m2 = m2
  k1 = k1
  Member <- TwoMembers
  Caller <- OneCaller
  Signals = 0
SPECIFICATION Spec
CHECK_DEADLOCK FALSE
INVARIANTS
  StopLeavesContext
