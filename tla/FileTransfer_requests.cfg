SPECIFICATION FairSpec
CONSTANTS
  Clients = {c1, c2}
  Interactive = {c1}
  Content <- TwoFiles
  Names <- SomeNames
  StartSize = 1
  ClientBuf = 2
  ServerBuf = 3
  MaxRequests = 2
  MaxFaults = 1
CHECK_DEADLOCK FALSE
INVARIANTS
  
  HandledWasAsked

  
