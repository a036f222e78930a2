SPECIFICATION Spec
CHECK_DEADLOCK FALSE
CONSTANTS
    Users = {u1, u2}
    Conns = {c1, c2}
    None = None
    Careful = TRUE
    MaxSessions = 3
    MaxCommands = 2
SYMMETRY Symmetry
INVARIANTS
    IdleClean
    OwnReplies
PROPERTY
    ImplementsCalls
