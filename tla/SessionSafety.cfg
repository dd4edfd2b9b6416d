CONSTANTS
  d1 = d1
  c1 = c1
  m1 = m1
  l1 = l1
  a1 = a1
  a2 = a2
  NoMsg = NoMsg
  Caller = {c1}
  Async = {m1}
  Loop = {}
  Drop = {}
  Ack = {a1, a2}
  MaxEgressQueueSize = 1
  OpChSize = 2
  TallyModulus = 4
  MaxDeliveries = 2
  MaxOps = 3
  MayHalt = TRUE
  EarlyConn = TRUE
SPECIFICATION Spec
SYMMETRY Symmetry
INVARIANTS NoImpossibleFailure VerdictTruthful LateReplyMeansTimeout
PROPERTIES PopReportsOutcome
CHECK_DEADLOCK FALSE
