SPECIFICATION ApiSpec
CONSTANTS
    Jobs = {j1}
    Operations = {"backup"}
    Configs = {"fileset"}
    MaxConcurrent = 1
    Requests = {r1}
    MaxRestarts = 0
CHECK_DEADLOCK FALSE
PROPERTY CancelledIsNotRun
