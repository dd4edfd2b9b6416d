SPECIFICATION FairSpec
CONSTANTS
    p1 = p1
    p2 = p2
    Caller = {p1, p2}
    FirstEpoch = 1
    LastEpoch = 3
    Missing = {2}
    Flaky = {3}
    MaxErrors = 1
    MayHalt = TRUE
INVARIANTS
    CallbackInOrder
    StoreBounded
PROPERTY
    CurrentDocumentReturns
CHECK_DEADLOCK FALSE
