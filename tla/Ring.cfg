CONSTANTS
  p1 = p1
  p2 = p2
  p3 = p3
  None = None
  Proc <- ThreeProcs
  NItems = 4
  Item <- Items
  Cap = 2
  DropOldest = TRUE
  OpenDrain = FALSE
SPECIFICATION Spec
SYMMETRY Sym
INVARIANTS
  OneOwner
  ConsumerWakeup
  ProducerWakeup
  ErrClosedIsFinal
PROPERTIES
  ImplementsFifo
