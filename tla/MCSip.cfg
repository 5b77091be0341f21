SPECIFICATION SipSpec
CONSTANTS
  l1 = l1
  l2 = l2
  NoRequest = NoRequest
  T1 = 1
  T2 = 2
  T4 = 1
  Timeout = 2
  TransactionTtl = 3
  DialogTtl = 3
  MaxDialogs = 1
  MaxTransactions = 1
  MaxTags = 1
  MaxEvicted = 1
  MaxStarted = 2
  Request <- MCRequest
  Header <- MCHeader
  Command <- MCCommand
  Outbound <- MCOutbound
  Loop <- MCLoop
INVARIANTS
  HandedOverOnce
  DialogBacked
PROPERTIES
  CopiesReplayed
  SipSettles
