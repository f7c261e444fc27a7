SPECIFICATION FairSpec
CONSTANTS
  Sizes = {1, 2}
  MayRefuse = TRUE
  MayBreak = FALSE
  MaxPackets = 1
  MaxWire = 4
CHECK_DEADLOCK FALSE
PROPERTIES
  SendReturns
