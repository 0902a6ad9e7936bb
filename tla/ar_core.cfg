\* Both libraries, replaced at any moment under their callers.
SPECIFICATION FairSpec
CONSTANTS
    FileCount = 2
    EditOps = {"replace"}
    EditAnytime = TRUE
    Blocking = TRUE
    MaxEdits = 3
    MaxFailures = 1
    HandleCount = 3
INVARIANTS CallsSurvive RingInv SleepsUpToDate NothingOverlooked
PROPERTIES EventuallyLoaded
