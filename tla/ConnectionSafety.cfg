SPECIFICATION Spec
CONSTANTS
    s1 = s1
    s2 = s2
    i1 = i1
    i2 = i2
    none = none
    empty = empty
    Sender = {s1}
    Item = {i1, i2}
    Surb = {i2}
    None = none
    Empty = empty
    RetryIncrement = 2
    MaxRetryDelay = 3
    MaxFaults = 2
    MayHalt = FALSE
INVARIANTS
    NoSpoolLoss
    SequenceAgrees
    RetryBounded
    ConnectionsApart
    SendTruthful
CHECK_DEADLOCK FALSE
