\* A reader that polls while the writer is between produce and signal.
SPECIFICATION Spec
CONSTANTS
    Capacity = 5
    OffsetModulus = 1000
    LazyInit = FALSE
    HeaderSize = 1
    Sizes = {1, 2}
    ReadOps = {"try_read"}
    SharedThread = FALSE
    MaxSends = 2
    MaxFailures = 1
INVARIANTS NeverTraps
\* The reader blocks for good once the bounded writer has stopped.
CHECK_DEADLOCK FALSE
