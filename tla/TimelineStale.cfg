CONSTANTS
  Newest = 9
  Start = 6
  Mine <- MCMine
  Hidden <- MCHidden
  Redactions <- MCRedactions
  NoTok = NoTok
  NoIdx = NoIdx
  ChunkSize = 2
  MaxBatch = 2
  MaxRestored = 100
  MaxLimited = 1
  MaxClears = 0
  MaxRestarts = 0
  MaxFailures = 0
  MaxFull = 0
  MaxRequests = 2
SPECIFICATION Spec
CHECK_DEADLOCK FALSE
PROPERTY AnswerContinues
