SPECIFICATION FairSpec
CHECK_DEADLOCK FALSE
CONSTANTS
    Procs = {p1, p2}
    Names = {m1}
    None = None
    FrameParts = 2
    MaxCalls <- TwoOfOne
    MaxConns = 1
    MaxLate = 1
PROPERTIES
    CallsReturn
