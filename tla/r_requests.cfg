SPECIFICATION Spec
CONSTANTS
  Workers = {w1, w2}
  Docs <- MCDocs
  Seeds = {1, 2, 3}
  NoSeed = NoSeed
  NoCtx = NoCtx
  NoDoc = NoDoc
  MaxRequests = 2
  MaxFires = 3
  MaxArgs = 2
  MaxDepth = 2
  MaxToggles = 1
SYMMETRY WorkerSymmetry
INVARIANTS TypeOK NoClash SummaryLast GatedBySnapshot IdGroups
CHECK_DEADLOCK FALSE
