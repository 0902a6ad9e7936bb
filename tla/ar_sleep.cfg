SPECIFICATION FairSpec
CONSTANTS
    FileCount = 1
    EditOps = {"remove", "create"}
    EditAnytime = TRUE
    Blocking = TRUE
    MaxEdits = 2
    MaxFailures = 0
    HandleCount = 2
PROPERTY LatestLoaded
