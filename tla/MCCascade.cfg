SPECIFICATION CascadeSpec
CONSTANTS
  s1 = s1
  s2 = s2
  Link = {l1}
  TheLink = l1
  NoLink = NoLink
  Resource = {res}
  Call = {c1, c2}
  Sub <- MCSub
  SubCall <- MCSubCall
  Alarm = {a1}
  Snapshot = {k1}
  NoBye = {c1}
  ActiveExpires = TRUE
  MaxReports = 1
  MaxBridges = 2
  MaxSubs = 1
  MaxRetries = 1
  MaxFailures = 2
  NotifyMaxRetries = 0
  MaxAttempt = 2
INVARIANTS
  BridgesAccounted
  LinkTold
  ControlHasLink
PROPERTIES
  AlarmsKept
  BridgesEnd
  LinkSettles
CHECK_DEADLOCK FALSE
