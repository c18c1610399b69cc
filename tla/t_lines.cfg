SPECIFICATION FairSpec
CONSTANTS
  MaxSize = 3
  Room = 5
  MaxLines = 4
  MaxRequests = 2
INVARIANTS TypeOK NoSplice LiveIsComplete ConnectOnce
PROPERTIES DeadIsFinal SendReturns ImplementsLineStream
CHECK_DEADLOCK FALSE
