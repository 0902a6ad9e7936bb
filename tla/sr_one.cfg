\* One shader that is edited in every way, at any time.
SPECIFICATION FairSpec
CONSTANTS
    FileCount = 1
    EditOps = {"write", "remove", "create", "replace"}
    EditAnytime = TRUE
    Blocking = FALSE
    MaxEdits = 5
    MaxFailures = 1
INVARIANTS NeverTraps
PROPERTIES EventuallyShown
