SPECIFICATION TimedFairSpec
CHECK_DEADLOCK FALSE
CONSTANTS
    Conns = {c1}
    Spellings <- MCOneSpelling
    Lower <- MCOneLower
    Closers <- MCClosers
    Registrations <- MCQuitOnly
    Faults = {"none"}
    TimeoutOn = FALSE
    MaxBufferSize = 2
    MaxRequests = 2
PROPERTIES
    ClosedEnd
