SPECIFICATION FairSpec
CONSTANTS
  Lines = {r1}
  Installs = {i1}
  NoOne = NoOne
  Acceptor = Acceptor
  Chunks = 2
  Room = 1
  MaxConns = 2
  MaxNoise = 1
INVARIANTS NoUseAfterClose ConnectionTruth
PROPERTIES PayloadContiguous ImplementsAsyncCalls CallsComplete StopTerminates
CHECK_DEADLOCK FALSE
