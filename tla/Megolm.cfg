CONSTANTS
  Me = Me
  Them = Them
  o = o
  a = a
  b = b
  NoRow = NoRow
  User = {Me, Them}
  Device = {o, a, b}
  Own = o
  Owner <- MCOwner
  Trusted = {o, a}
  ShareTrusted = TRUE
  RotationMsgs = 2
  Unknown = {Them}
  Starts = {0, 1}
  MaxSessions = 2
  MaxMessages = 3
  MaxChanges = 2
  MaxFaults = 1
SPECIFICATION Spec
INVARIANTS TypeOK IndexOnce OnlyMembers OnlyKnownDevices AllCanRead
PROPERTY InboundImproves
CHECK_DEADLOCK FALSE
