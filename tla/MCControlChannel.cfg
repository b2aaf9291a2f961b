SPECIFICATION FairSpec
CONSTANTS
  Requests = {hello, a}
  Hello = hello
  SocketRoom = 1
  MaxNoise = 1
INVARIANTS NoneStranded NoUseAfterClose
PROPERTIES ImplementsAsyncCalls  StopTerminates
CHECK_DEADLOCK FALSE
