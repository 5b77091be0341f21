SPECIFICATION RuntimeSpec
CONSTANTS
  k1 = k1
  k2 = k2
  c = c
  t1 = t1
  Message = {k1, k2, c}
  Earlier <- MCEarlier
  Direct = {c}
  Timer = {t1}
  DeviceOf <- MCDeviceOf
  Route <- MCRoute
  Class <- MCClass
  Device = {1, 2}
  Shard = {1}
  Shutdown = Shutdown
  HighWatermark = 1
  LowWatermark = 0
  MaxTracked = 1
  LetterCapacity = 1
  MaxRedrive = 2
  MailboxCapacity = 1
  MaxPending = 1
  OutputCapacity = 1
  CommandCapacity = 1
  MaxCalls = 2
  MaxPoll = 2
  MaxConsecutive = 1
  RedriveBatch = 1
INVARIANTS InOrder KeysInFlight TimersAccounted
PROPERTY RuntimeSettles
CHECK_DEADLOCK FALSE
