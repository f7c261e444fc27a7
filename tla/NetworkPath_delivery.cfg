SPECIFICATION FairSpec
CONSTANTS
  Sizes = {1, 2}
  MayRefuse = TRUE
  MayBreak = TRUE
  MaxPackets = 3
  MaxWire = 4
CHECK_DEADLOCK FALSE
INVARIANTS
  TypeOK
  FramesIntact
  ReliableOrder
  OnlyStoredIsLate
  ConnectedOnce
PROPERTIES
  SentArrives
