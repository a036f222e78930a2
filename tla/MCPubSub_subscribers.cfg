SPECIFICATION Spec
CHECK_DEADLOCK FALSE
CONSTANTS
    Procs = {p1, p2}
    Names = {m1}
    None = None
    FrameParts = 4
    MaxCalls <- TwoEach
    MaxConns = 2
    MaxLate = 0
SYMMETRY ProcSymmetry
INVARIANTS
    OnlySubscribersReached
