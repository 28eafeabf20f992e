SPECIFICATION ViewFairSpec
CONSTANTS
    Jobs = {j1, j2}
    Old = {j2}
    Capacity = 1
    LogLimit = 1
    MaxLines = 0
    Filters = {"", "running", "completed"}
    PageSize = 1
    Views = {"jobs"}
    Commands = {"delete"}
    Requests = {r1}
    None = None
CHECK_DEADLOCK FALSE
PROPERTIES
    JobsPageCatchesUp
