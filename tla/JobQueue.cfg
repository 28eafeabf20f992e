SPECIFICATION MCSpec
CONSTANTS
    j1 = j1
    j2 = j2
    j3 = j3
    Jobs = {j1, j2, j3}
    Operations = {"backup", "restore", "snapshot"}
    Configs = {"fileset", "consistent", "volume"}
    MaxConcurrent = 2
CHECK_DEADLOCK FALSE
INVARIANTS
    PermitsConserved
    ActiveMapExact
    TasksFixRows
    CopyMatchesOutcome
PROPERTIES
    RowsFollowLifecycle
    RowsFollowFairLifecycle
    CancelledWhileWaiting
