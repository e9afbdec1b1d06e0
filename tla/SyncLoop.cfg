CONSTANTS
  Last = 2
  ToDevice <- MCToDevice
  MaxProbes = 2
  MaxOutages = 1
  MaxFaults = 1
SPECIFICATION FairSpec
CHECK_DEADLOCK FALSE
INVARIANTS TypeOK LoopAlive
PROPERTIES FollowsStream CatchesUp
