SPECIFICATION Spec
CONSTANTS
    BufferSize = 10
    MaxBytes = 14
    MaxFailures = 1
    Sizes = {0, 3}
INVARIANT
    NothingRepeated
