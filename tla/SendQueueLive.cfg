CONSTANTS
  m1 = m1
  m2 = m2
  Txn <- Txn2
  NoTxn = NoTxn
  Encrypted = TRUE
  MaxErrors = 1
  MaxClock = 1
  MaxUpsets = 1
SPECIFICATION FairSpec
PROPERTY Drains
