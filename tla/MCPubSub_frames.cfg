SPECIFICATION Spec
CHECK_DEADLOCK FALSE
CONSTANTS
    Procs = {p1, p2}
    Names = {m1}
    None = None
    FrameParts = 4
    MaxCalls <- OneEach
    MaxConns = 1
    MaxLate = 1
SYMMETRY ProcSymmetry
INVARIANTS
    FramesWhole
