SPECIFICATION Spec
CHECK_DEADLOCK FALSE
CONSTANTS
    SplitLines = FALSE
    Inputs <- Pipelines
    BufferSize = 64
    ArgBytes <- AnyByte
    MaxSpare = 1
    MaxRead = 3
PROPERTY ReadsAdd
