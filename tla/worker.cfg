SPECIFICATION WFairSpec
CONSTANTS
  Workers = {w}
  Me = w
  Docs <- MCDocs
  Seeds = {1, 2}
  NoSeed = NoSeed
  NoCtx = NoCtx
  NoDoc = NoDoc
  MaxRequests = 2
  MaxFires = 2
  MaxArgs = 1
  MaxDepth = 1
  MaxToggles = 1
  MaxSize = 2
  Room = 3
  MaxLines = 5
INVARIANTS WireIsRequest SummaryComplete
PROPERTY ShutdownEnds
CHECK_DEADLOCK FALSE
