CONSTANTS
  c1 = c1
  c2 = c2
  i1 = i1
  s1 = s1
  NoKey = NoKey
  AcceptLoop = AcceptLoop
  AfterFunc = AfterFunc
  Conn <- TwoConns
  IP <- OneIP
  Caller <- OneCaller
  MaxPerIP = 1
  MaxErrors = 1
SPECIFICATION FairSpec
CHECK_DEADLOCK FALSE
INVARIANTS
  SlotsBalance
  ClosedNeverAhead
  ServeLeavesNothing
  AbortMissesNone
  DrainKeepsHandlers
PROPERTIES
  ImplementsService
  StopEndsServe
