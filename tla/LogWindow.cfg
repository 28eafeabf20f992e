SPECIFICATION ViewFairSpec
CONSTANTS
    Jobs = {j1}
    Old = {}
    Capacity = 1
    LogLimit = 2
    MaxLines = 3
    Filters = {""}
    PageSize = 1
    Views = {"log"}
    Commands = {"cancel", "delete"}
    Requests = {r1, r2}
    None = None
CHECK_DEADLOCK FALSE
PROPERTIES
    LogCatchesUp
