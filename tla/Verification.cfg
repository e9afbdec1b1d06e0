CONSTANTS
  t1 = t1
  None = None
  Device <- Three
  Txn <- One
  Initiator <- Down
  Targets <- AnyTargets
  Foreign <- First
  MaxKeys = 1
SPECIFICATION Spec
CHECK_DEADLOCK FALSE
INVARIANTS SameSas NoFalseAlarm OneAccepts
