SPECIFICATION FairSpec
CONSTANTS
    t1 = t1
    t2 = t2
    t3 = t3
    none = none
    Item = {t1, t2, t3}
    Priority <- PriorityOf
    HalfRange = 4
    NoItem = none
    NextQSize = 2
    MaxTime = 3
    MayRemove = TRUE
    MayHalt = TRUE
INVARIANTS
    Conserved
    NeverEarly
PROPERTY
    ArmedForwarded
CHECK_DEADLOCK FALSE
