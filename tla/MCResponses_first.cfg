SPECIFICATION Spec
CHECK_DEADLOCK FALSE
CONSTANTS
    Width = 5
    Returned <- Nullable
    Types <- OneType
    Words <- MCWords
    Lower <- MCLower
    Subs <- MCSubs
    Commands <- MCCommands
    MaxCalls = 2
INVARIANT
    ResponseIsFirst
