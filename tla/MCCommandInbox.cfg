SPECIFICATION InboxSpec
CONSTANTS
  n1 = n1
  n2 = n2
  p1 = p1
  p2 = p2
  p3 = p3
  k1 = k1
  k2 = k2
  Node = {n1, n2}
  Proc = {p1, p2, p3}
  NodeOf <- MCNodeOf
  NoProc = NoProc
  NoOwner = NoOwner
  Copy = {k1, k2}
  NoCopy = NoCopy
  MaxDeliver = 2
  MaxEpoch = 2
  MaxCrashes = 1
INVARIANTS NoLostCommand OnlyIssuedOwnerExecutes
PROPERTIES RecordedNotRepeated CommandSettles
CHECK_DEADLOCK FALSE
