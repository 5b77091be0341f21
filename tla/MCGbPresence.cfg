SPECIFICATION PresenceSpec
CONSTANTS
  c1 = c1
  ticker = ticker
  Conn <- MCConn
  Stream <- MCConn
  Ticker = ticker
  QueueDepth = 1
  DlqCapacity = 1
  MaxSeq = 2
  MaxExtra = 1
INVARIANTS
  AdmissionAccounted
  RowFollowsTable
PROPERTIES
  EventsKept
  OnlineInTheEnd
CHECK_DEADLOCK FALSE
