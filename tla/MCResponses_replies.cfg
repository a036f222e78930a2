SPECIFICATION Spec
CHECK_DEADLOCK FALSE
CONSTANTS
    Width = 5
    Returned <- AllValues
    Types <- AllTypes
    Words <- MCWords
    Lower <- MCLower
    Subs <- MCSubs
    Commands <- MCCommands
    MaxCalls = 2
INVARIANTS
    RepliesWhole
    ScanAligned
    RoundTrip
    NumbersFit
    RecorderComplete
