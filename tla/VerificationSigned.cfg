CONSTANTS
  t1 = t1
  None = None
  Device <- Two
  Txn <- One
  Initiator <- Up
  Targets <- UpTargets
  Foreign <- NoDevice
  MaxKeys = 1
SPECIFICATION Spec
CHECK_DEADLOCK FALSE
INVARIANT SignedConfirmed
