SPECIFICATION FairSpec
CONSTANTS
    g1 = g1
    g2 = g2
    g3 = g3
    e1 = e1
    e2 = e2
    e3 = e3
    none = none
    Getter = {g1, g2, g3}
    Epoch = {e1, e2, e3}
    None = none
    LruMaxSize = 2
    FetchBacklog = 1
    MayHalt = TRUE
INVARIANTS
    LruConsistent
    NoRefetch
    OpAwaited
PROPERTY
    GetDocReturns
CHECK_DEADLOCK FALSE
