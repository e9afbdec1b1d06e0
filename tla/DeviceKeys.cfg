CONSTANTS
  Me = Me
  Them = Them
  k1 = k1
  k2 = k2
  NoKey = NoKey
  NoRow = NoRow
  NoStatus = NoStatus
  NoAnswer = NoAnswer
  Device <- MCDevice
  Key <- MCKey
  Verifiable <- MCVerifiable
  Asked = {Them}
  SignedKeys <- MCSigned
  Lists <- MCLists
  First <- MCFirst
  Slot = {s1, s2}
  MaxChanges = 2
  MaxEvents = 2
SPECIFICATION Spec
INVARIANTS TypeOK FreshList KeysPinned StatusCurrent CallbackComes
SYMMETRY Perms
PROPERTY KeepsCurrent
