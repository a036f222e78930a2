SPECIFICATION Spec
CHECK_DEADLOCK FALSE
CONSTANTS
    Conns = {c1}
    Spellings <- MCTwoSpellings
    Lower <- MCTwoLower
    Closers <- MCClosers
    Registrations <- MCRegistrations
    Faults = {"none"}
    TimeoutOn = FALSE
    MaxBufferSize = 2
    MaxRequests = 3
INVARIANTS
    ResponseBounded
