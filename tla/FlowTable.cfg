CONSTANTS
  p1 = p1
  p2 = p2
  k1 = k1
  k2 = k2
  Proc <- TwoProcs
  Key <- TwoKeys
  ShardOf <- TwoShards
  MaxFlows = 2
  Times = {1, 2}
  Idle = 1
SPECIFICATION Spec
SYMMETRY Sym
INVARIANTS
  OnCloseOnce
PROPERTIES
  LeavesForCause
  NoRevival
