SPECIFICATION FairSpec
CONSTANTS
  a1 = a1
  a2 = a2
  p1 = p1
  p2 = p2
  Acceptors <- TwoAcceptors
  Peers <- TwoPeers
  Backlog = 1
  MaxConnections = 3
  ListenSd = 0
  FirstPackets = {TRUE}
  MaxUInt = 7
  MaxAttempts = 2
CHECK_DEADLOCK FALSE
PROPERTIES
  OutcomeIsAccepted
  CloseBlockedByHandshake
  PeersAreServed
