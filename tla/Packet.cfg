SPECIFICATION PacketSpec
CONSTANTS
    g1 = g1
    c = c
    none = none
    p1 = p1
    p2 = p2
    m1 = m1
    m2 = m2
    m3 = m3
    Getter = {g1, c}
    FirstEpoch = 4
    LastEpoch = 6
    EpochModulus = 16
    TestPeriod = 4
    testEpochInterval = 1
    MaxHeight = 1
    NoResult = none
    Composer = c
    Node = {p1, p2, m1, m2, m3}
    Document <- Documents
    Provider = p1
    Peer = p2
    Draws <- DrawsOfExp
    DelayModulus = 8
    MaxRedos = 1
INVARIANTS
    SingleFlight
    NowIsPast
    RoundTrip
    KeysOfOneEpoch
PROPERTIES
    EpochForward
    EpochNoticed
    ComposeEnds
CHECK_DEADLOCK FALSE
