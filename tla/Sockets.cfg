CONSTANTS
  g1 = g1
  g2 = g2
  Readers = {0, 2}
  Batches = {0, 1, 9}
  maxBatch = 8
  DefaultBatch = 8
  Ports = {1, 2}
  Sender <- TwoSenders
  Sizes = {1, 3}
  MaxDatagram = 2
  MaxSends = 2
SYMMETRY Alike
SPECIFICATION SpecParts
INVARIANTS
  ListenAllOrNothing
  SendsCounted
  SeenAsArrived
  AppliedOrRefused
  
\* A call on a socket's options returns, a reader waits and Listen may fail.
CHECK_DEADLOCK FALSE
