SPECIFICATION Spec
CHECK_DEADLOCK FALSE
CONSTANTS
    Conns = {c1, c2}
    Spellings <- MCOneSpelling
    Lower <- MCOneLower
    Closers <- MCClosers
    Registrations <- MCQuitOnly
    Faults = {"none"}
    TimeoutOn = FALSE
    MaxBufferSize = 2
    MaxRequests = 1
SYMMETRY ConnSymmetry
INVARIANTS
    PoolExclusive
    RepliesInOrder
    InfoTracksConnections
    CommandsTracked
