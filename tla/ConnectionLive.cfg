SPECIFICATION FairSpec
CONSTANTS
    s1 = s1
    s2 = s2
    i1 = i1
    i2 = i2
    none = none
    empty = empty
    Sender = {}
    Item = {i1}
    Surb = {i1}
    None = none
    Empty = empty
    RetryIncrement = 2
    MaxRetryDelay = 5
    MaxFaults = 1
    MayHalt = TRUE
PROPERTIES
    SpoolDelivered
    HaltStops
CHECK_DEADLOCK FALSE
