CONSTANTS
  c1 = c1
  c2 = c2
  Conn <- TwoReaders
  minShift = 0
  numClasses = 3
  IdleSize = 1
  MaxData <- TwoMax
  MaxUnits = 7
  MaxSource = 3
SPECIFICATION Spec
INVARIANTS
  BufferedIsNext
  BudgetExact
  RoomToRead
  TooLargeIsAboveMax
