SPECIFICATION Spec
CHECK_DEADLOCK FALSE
CONSTANTS
    Conns = {c1}
    Spellings <- MCTwoSpellings
    Lower <- MCTwoLower
    Closers <- MCClosers
    Registrations <- MCRegistrations
    Faults = {"none", "peek", "args"}
    TimeoutOn = TRUE
    MaxBufferSize = 1
    MaxRequests = 1
INVARIANTS
    ReaderAligned
