CONSTANTS
  d1 = d1
  c1 = c1
  m1 = m1
  l1 = l1
  a1 = a1
  a2 = a2
  NoMsg = NoMsg
  Caller = {c1}
  Async = {}
  Loop = {l1}
  Drop = {d1}
  Ack = {a1}
  MaxEgressQueueSize = 1
  OpChSize = 2
  TallyModulus = 4
  MaxDeliveries = 1
  MaxOps = 2
  MayHalt = TRUE
  EarlyConn = FALSE
SPECIFICATION FairSpec
INVARIANT TallyCountsUnanswered
PROPERTIES BlockingCallReturns SURBReclaimed
CHECK_DEADLOCK FALSE
