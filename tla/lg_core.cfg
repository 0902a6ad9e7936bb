\* The logger of the audio callback: one thread logs, the logger thread prints.
SPECIFICATION LoggerSpec
CONSTANTS
    Capacity = 5
    OffsetModulus = 1000
    LazyInit = FALSE
    HeaderSize = 1
    Sizes = {1, 2}
    ReadOps = {"wait"}
    SharedThread = FALSE
    MaxSends = 4
    MaxFailures = 1
    EventHeader = 1
    ArenaCells = 4
    MaxEvents = 4
INVARIANTS QueueInv TokenMeansMessage PrintedOnce OvertakesOnlyDirectly NoneOverlooked
PROPERTIES EventuallyPrinted
\* The logger thread blocks for good once nothing more is logged.
CHECK_DEADLOCK FALSE
