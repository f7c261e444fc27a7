SPECIFICATION FairSpec
CONSTANTS
  WriteSizes = {0, 2}
  ReadSizes = {1}
  RecvSizes = {1}
  PacketSizes = {2}
  WaitCalls <- PlainCalls
  MaxWritten = 2
  MaxPeer = 2
  MaxQueue = 2
PROPERTIES
  ConnectReturns
  ReadReturns
  WrittenIsTaken
  CloseReturns
