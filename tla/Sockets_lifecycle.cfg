SPECIFICATION Spec
CONSTANTS
  x1 = x1
  x2 = x2
  x3 = x3
  a1 = a1
  NULL = NULL
  Contexts <- ThreeContexts
  Data <- ThreeContexts
  Apps = {a1}
  MaxConnections = 2
  MaxListens = 2
  Keys = {0, 1}
  TableSize = 1
CONSTRAINT OneDeparture
SYMMETRY Symmetry
CHECK_DEADLOCK FALSE
INVARIANTS
  TypeOK
  OneSdEach
  NoDanglingSd
  NoStaleQueue
  ThreadsEndFirst
  LegalCallsSucceed
PROPERTIES
  ListenMapSpec
