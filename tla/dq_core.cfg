SPECIFICATION FairSpec
CONSTANTS
    WorkerCount = 2
    Slots = 2
    Sizes = {4}
    BatchSizes = {1, 2}
    MaxCalls = 2
INVARIANTS NeverTraps QuietAfterSync DispatchInv
PROPERTIES ImplementsForkJoin SyncReturns EverythingRuns
