SPECIFICATION FaultFairSpec
CONSTANTS
    Jobs = {j1, j2}
    Operations = {"backup"}
    Configs = {"fileset"}
    MaxConcurrent = 1
    Requests = {r1}
    MaxRestarts = 1
CHECK_DEADLOCK FALSE
INVARIANTS
    FaultTypeOK
    StrandedByOwnWrite
    DisagreeOnlyByLoss
    SuccessHasCopy
PROPERTIES
    DeletedStaysDeleted
    OutcomeTold
    OutcomeAlwaysTold
