SPECIFICATION TimedFairSpec
CHECK_DEADLOCK FALSE
CONSTANTS
    Conns = {c1}
    Spellings <- MCSpellings
    Lower <- MCLower
    Closers <- MCClosers
    Registrations <- MCStreamCloses
    Faults = {"none", "peek", "args"}
    TimeoutOn = TRUE
    MaxBufferSize = 2
    MaxRequests = 2
INVARIANTS
    TypeOK
    RepliesInOrder
    NoReplyHeldBack
    ClosedOnlyDrains
PROPERTIES
    ConnectionsEnd
