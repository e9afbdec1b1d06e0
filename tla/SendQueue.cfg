CONSTANTS
  m1 = m1
  m2 = m2
  Txn <- Txn2
  NoTxn = NoTxn
  Encrypted = FALSE
  MaxErrors = 1
  MaxClock = 2
  MaxUpsets = 2
SPECIFICATION Spec
SYMMETRY Perms2
INVARIANTS TypeOK OneAtATime NeverWedged AckRewritesQueued GivesUp
PROPERTY FollowsOutbox
