SPECIFICATION DrainSpec
CONSTANTS
  n1 = n1
  n2 = n2
  p1 = p1
  p2 = p2
  p3 = p3
  Node = {n1, n2}
  Proc = {p1, p2, p3}
  NodeOf <- MCNodeOf
  NoNode = NoNode
  NoProc = NoProc
  Supports = {n1, n2}
  NodeTtl = 1
  LeaseTtl = 1
  MaxClock = 1
  MaxEpoch = 1
  MaxTasks = 3
  Failing = {p1, p2, p3}
  Releasing = {p1}
INVARIANTS NoDeviceLeftBehind
PROPERTIES ClearedDeviceIsRehomed
CHECK_DEADLOCK FALSE
