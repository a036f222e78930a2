SPECIFICATION Spec
CHECK_DEADLOCK FALSE
CONSTANTS
    Users = {u1}
    Conns = {c1}
    None = None
    Careful = FALSE
    MaxSessions = 2
    MaxCommands = 2
INVARIANT
    OwnReplies
