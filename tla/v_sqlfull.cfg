SPECIFICATION Spec
CONSTANTS
  Handles = {h1}
  Fibers = {main}
  NPos = 2
  Names = {}
  AppMay = {}
  ArrayCap = 2
  NoHandle = NoHandle
  NoQuery = NoQuery
  MaxCalls = 3
  MaxBinds = 2
  MaxDepth = 1
  MaxRequests = 1
INVARIANTS SqlFullIsExecuted
CHECK_DEADLOCK FALSE
