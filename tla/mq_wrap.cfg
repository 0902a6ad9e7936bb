\* Enough traffic for the u32 offsets to wrap.
SPECIFICATION Spec
CONSTANTS
    Capacity = 5
    OffsetModulus = 8
    LazyInit = FALSE
    HeaderSize = 1
    Sizes = {1, 2}
    ReadOps = {"wait"}
    SharedThread = FALSE
    MaxSends = 4
    MaxFailures = 1
INVARIANTS OffsetsInOrder
\* The reader blocks for good once the bounded writer has stopped.
CHECK_DEADLOCK FALSE
