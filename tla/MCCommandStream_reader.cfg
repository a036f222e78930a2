SPECIFICATION FairSpec
CHECK_DEADLOCK FALSE
CONSTANTS
    SplitLines = FALSE
    Inputs <- AnyInput
    BufferSize = 64
    ArgBytes <- AnyByte
    MaxSpare = 1
    MaxRead = 3
INVARIANTS
    TypeOK
    CommandsReadBack
    RequestAligned
    WellFormedAccepted
    ArgumentsDelivered
    ArgsOwn
PROPERTIES
    InputConsumed
