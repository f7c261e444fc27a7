SPECIFICATION Spec
CONSTANTS
  WriteSizes = {2}
  ReadSizes = {1}
  RecvSizes = {1}
  PacketSizes = {0, 2}
  WaitCalls <- MaskingCalls
  MaxWritten = 4
  MaxPeer = 4
  MaxQueue = 2
INVARIANTS
  TypeOK
  DownStream
  UpStream
  OutcomeReported
  NoUseAfterFree
  EventsAreReady
  NoLostWakeup
PROPERTIES
  DownPipeSpec
  UpPipeSpec
