SPECIFICATION Spec
CHECK_DEADLOCK FALSE
CONSTANTS
    SplitLines = TRUE
    Inputs <- Pairs
    BufferSize = 64
    ArgBytes <- AnyByte
    MaxSpare = 1
    MaxRead = 3
INVARIANT LinesReceived
