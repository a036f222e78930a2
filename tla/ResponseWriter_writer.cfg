SPECIFICATION Spec
CONSTANTS
    BufferSize = 10
    MaxBytes = 14
    MaxFailures = 2
    Sizes = {0, 3}
INVARIANTS
    OutputExact
