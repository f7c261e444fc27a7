SPECIFICATION Spec
CONSTANTS
  ByteBase = 4
  Protocol = 2
  Ports <- HostPorts
  Addresses <- TwoAddresses
  Seqs <- SomeSeqs
  MaxPayload = 2
CHECK_DEADLOCK FALSE
INVARIANTS
  ChecksumDecides
  SumIsAllOnes
