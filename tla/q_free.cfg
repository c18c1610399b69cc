SPECIFICATION Spec
CONSTANTS
  Handles = {h1, h2}
  Fibers = {main}
  NPos = 0
  Names = {}
  AppMay = {"reexecute", "drop", "fail", "bailout"}
  ArrayCap = 2
  NoHandle = NoHandle
  NoQuery = NoQuery
  MaxCalls = 3
  MaxBinds = 0
  MaxDepth = 2
  MaxRequests = 2
SYMMETRY HandleSymmetry
INVARIANTS TypeOK TimerOwn StampKept FramedOnce LostOnlyToOverwrite
CHECK_DEADLOCK FALSE
