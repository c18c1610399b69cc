SPECIFICATION Spec
CONSTANTS
  Handles = {h1}
  Fibers = {main, other}
  NPos = 2
  Names = {x}
  AppMay = {"reexecute", "fail", "bailout", "reference"}
  ArrayCap = 1
  NoHandle = NoHandle
  NoQuery = NoQuery
  MaxCalls = 2
  MaxBinds = 2
  MaxDepth = 1
  MaxRequests = 2
INVARIANTS TimerUsedOnce ShownIsUsed NoCarryOver
CHECK_DEADLOCK FALSE
