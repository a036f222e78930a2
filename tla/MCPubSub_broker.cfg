SPECIFICATION Spec
CHECK_DEADLOCK FALSE
CONSTANTS
    Procs = {p1, p2}
    Names = {m1}
    None = None
    FrameParts = 2
    MaxCalls <- TwoOfOne
    MaxConns = 2
    MaxLate = 2
INVARIANTS
    OneChannelPerName
    SidsFresh
    SubscribersKept
    Delivered
PROPERTIES
    RangeStable
