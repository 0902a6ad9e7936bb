SPECIFICATION Spec
CONSTANTS
    FileCount = 2
    EditOps = {"remove", "create"}
    EditAnytime = TRUE
    Blocking = FALSE
    MaxEdits = 3
    MaxFailures = 0
INVARIANT NeverTraps
