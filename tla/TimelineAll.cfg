CONSTANTS
  Newest = 9
  Start = 6
  Mine <- MCMine
  Hidden <- MCHidden
  Redactions <- MCRedactions
  NoTok = NoTok
  NoIdx = NoIdx
  ChunkSize = 2
  MaxBatch = 2
  MaxRestored = 2
  MaxLimited = 1
  MaxClears = 1
  MaxRestarts = 1
  MaxFailures = 1
  MaxFull = 1
  MaxRequests = 2
SPECIFICATION Spec
CHECK_DEADLOCK FALSE
INVARIANTS TypeOK WindowMatches NoDuplicates
