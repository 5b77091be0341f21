SPECIFICATION DrainSpec
CONSTANTS
  n1 = n1
  n2 = n2
  p1 = p1
  p2 = p2
  p3 = p3
  Node = {n1, n2}
  Proc = {p1, p2}
  NodeOf <- MCNodeOf
  NoNode = NoNode
  NoProc = NoProc
  Supports = {n1, n2}
  NodeTtl = 2
  LeaseTtl = 2
  MaxClock = 0
  MaxEpoch = 2
  MaxTasks = 3
  Failing = {}
  Releasing = {}

PROPERTIES OwnerEpochIncreases
CHECK_DEADLOCK FALSE
