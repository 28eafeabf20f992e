SPECIFICATION ViewSpec
CONSTANTS
    Jobs = {j1}
    Old = {}
    Capacity = 2
    LogLimit = 1
    MaxLines = 0
    Filters = {""}
    PageSize = 1
    Views = {"jobs", "detail", "log"}
    Commands = {"cancel", "delete"}
    Requests = {r1, r2}
    None = None
SYMMETRY RequestSymmetry
CHECK_DEADLOCK FALSE
INVARIANTS
    ViewTypeOK
    DetailAgrees
    BarEndsWithJob
