CONSTANTS
  p1 = p1
  p2 = p2
  p3 = p3
  None = None
  Proc <- ThreeProcs
  NItems = 2
  Item <- Items
  Cap = 1
  DropOldest = FALSE
  OpenDrain = FALSE
SPECIFICATION FairSpec
PROPERTIES
  CloseEndsCalls
  
