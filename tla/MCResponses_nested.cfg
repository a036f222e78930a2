SPECIFICATION Spec
CHECK_DEADLOCK FALSE
CONSTANTS
    Width = 5
    Returned <- WithStruct
    Types <- OneType
    Words <- MCWords
    Lower <- MCLower
    Subs <- MCSubs
    Commands <- MCCommands
    MaxCalls = 1
INVARIANT
    RejectsBadTypes
