SPECIFICATION FairSpec
CONSTANTS
  Handles = {h1, h2}
  Fibers = {main}
  NPos = 0
  Names = {}
  AppMay = {"fail", "bailout"}
  ArrayCap = 2
  NoHandle = NoHandle
  NoQuery = NoQuery
  MaxCalls = 3
  MaxBinds = 0
  MaxDepth = 2
  MaxRequests = 2
INVARIANTS NoReadLost RowsOwn
PROPERTIES ImplementsLedger EventuallyTold
CHECK_DEADLOCK FALSE
