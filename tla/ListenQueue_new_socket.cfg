SPECIFICATION Spec
CONSTANTS
  a1 = a1
  a2 = a2
  p1 = p1
  p2 = p2
  Acceptors <- OneAcceptor
  Peers <- TwoPeers
  Backlog = 1
  MaxConnections = 3
  ListenSd = 0
  FirstPackets = {TRUE}
  MaxUInt = 7
  MaxAttempts = 3
CHECK_DEADLOCK FALSE
INVARIANTS
  NewSocketPassedOn
