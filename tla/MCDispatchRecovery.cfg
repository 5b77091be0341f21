SPECIFICATION OpSpec
CONSTANTS
  w1 = w1
  w2 = w2
  c1 = c1
  m1 = m1
  m2 = m2
  Worker = {w1, w2}
  Client = {c1}
  Msg = {m1, m2}
  NoMsg = NoMsg
  MaxDeliver = 2
  MaxCrashes = 1
PROPERTIES PendingAttemptIsResent
CHECK_DEADLOCK FALSE
