CONSTANTS
  c1 = c1
  c2 = c2
  r1 = r1
  r2 = r2
  AfterFunc = AfterFunc
  Readers = 2
  Caller <- TwoCallers
  Batch = 2
  MaxArrivals = 2
  MaxErrors = 1
  W = 3
  MaxStep = 3
  MaxDrops = 10
  MaxQueue = 2
SPECIFICATION SpecParts
CHECK_DEADLOCK FALSE
INVARIANTS
  TakenOnceInOrder
  NilMeansRequested
  DropsExact
PROPERTIES
  ImplementsService
  StopEndsServe
