CONSTANTS
  p1 = p1
  p2 = p2
  p3 = p3
  w1 = w1
  w2 = w2
  b1 = b1
  b2 = b2
  b3 = b3
  Cost = 3
  Refill = 2
  Burst = 2
  Horizon = 12
  Proc <- ThreeProcs
  Max <- ThreeLimiters
  W = 4
  MaxUnits = 7
SYMMETRY Alike
SPECIFICATION SpecParts
INVARIANTS
  WindowBound
  PermitsBalance
  ReserveIsExact
  BufHasOneOwner
  FlushSendsPrefix
