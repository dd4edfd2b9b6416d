SPECIFICATION Spec
CONSTANTS
    nil = nil
    Nil = nil
    File <- Files
    Chain = "katzenmint"
    MaxHeight = 2
    MaxStarts = 2
    MaxCalls = 2
    OpChSize = 2
    MaxEpoch = 2
INVARIANTS
    DatabaseFree
    RestartSame
    NoSendOnClosed
    PkiOutlivesUsers
    ConnectionKnown
    HangsOnlySo
PROPERTY
    SavedFileLoads
CHECK_DEADLOCK FALSE
