\* Two rounds of the main loop with resizes and a temporary arena that holds the
\* commands of a frame without the resolution, and a vertex buffer that two
\* frames joined by a refused flush do not fit.
SPECIFICATION FramesSpec
CONSTANTS
    Capacity = 10
    OffsetModulus = 1000
    LazyInit = TRUE
    HeaderSize = 1
    Sizes = {1, 2}
    ReadOps = {"try_read"}
    SharedThread = TRUE
    MaxSends = 14
    MaxFailures = 4
    WindowSizes = {1, 2}
    SmallSize = 1
    QuadSize = 2
    ArenaCells = 5
    QuadsMax = 3
    Shaders = {0, 1}
    MaxBoxes = 1
    MaxResizes = 2
INVARIANTS TokensMatch NeverTraps RightScale WholePictures LeftOnlyWhenFull ShowsThisFrame
PROPERTIES ImplementsChannel
\* The bounded number of sends runs out.
CHECK_DEADLOCK FALSE
