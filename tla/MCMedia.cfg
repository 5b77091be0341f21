SPECIFICATION MediaSpec
CONSTANTS
  n1 = n1
  n2 = n2
  r1 = r1
  Node <- MCNode
  NoNode = NoNode
  Binding <- MCBinding
  NoBinding = NoBinding
  Pass = {r1}
  Capacity = 2
  MaxReservations = 2
  MaxAttempts = 2
  MaxFaults = 1
  MaxRequests = 2
INVARIANTS
  AffinityCounted
  OneLiveBinding
PROPERTIES
  EndIsKept
SYMMETRY NodeSymmetry
CHECK_DEADLOCK FALSE
