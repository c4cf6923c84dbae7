SPECIFICATION Spec
CONSTANTS
    Jobs = 3
    Exec = {1, 2}
    Pieces = 2
    DiskFull = FALSE
    Limit = 2
    MaxCached = 5
    MaxLoads = 1
INVARIANT StatsExact
CHECK_DEADLOCK FALSE
