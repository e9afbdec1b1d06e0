CONSTANTS
  Senders = {1, 2}
  MaxSessions = 6
  MaxNet = 1
  MaxFaults = 1
SPECIFICATION FairSpec
INVARIANTS TypeOK OnlyLostUnreadable
PROPERTY Recovers
