CONSTANTS
  t1 = t1
  None = None
  Device <- Two
  Txn <- One
  Initiator <- Up
  Targets <- UpTargets
  Foreign <- Two
  MaxKeys = 2
SPECIFICATION FairSpec
CHECK_DEADLOCK FALSE
INVARIANTS TypeOK VerifiedConfirmed
PROPERTY Ends
