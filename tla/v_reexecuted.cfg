SPECIFICATION Spec
CONSTANTS
  Handles = {h1}
  Fibers = {main}
  NPos = 0
  Names = {}
  AppMay = {"reexecute"}
  ArrayCap = 2
  NoHandle = NoHandle
  NoQuery = NoQuery
  MaxCalls = 3
  MaxBinds = 0
  MaxDepth = 1
  MaxRequests = 1
INVARIANTS NoReadLost
CHECK_DEADLOCK FALSE
