CONSTANTS
  Newest = 11
  Start = 6
  Mine <- MCMineLong
  Hidden <- MCHiddenLong
  Redactions <- MCRedactionsLong
  NoTok = NoTok
  NoIdx = NoIdx
  ChunkSize = 2
  MaxBatch = 3
  MaxRestored = 100
  MaxLimited = 0
  MaxClears = 0
  MaxRestarts = 2
  MaxFailures = 1
  MaxFull = 0
  MaxRequests = 2
SPECIFICATION FairSpec
CHECK_DEADLOCK FALSE
INVARIANTS OrderInverse NoGap TokenContinues StopsAtBeginning
PROPERTY ReachesBeginning
