SPECIFICATION Spec
CONSTANTS
    Jobs = 3
    Exec = {1, 2}
    Pieces = 2
    DiskFull = TRUE
    Limit = 1
    MaxCached = 8
    MaxLoads = 2
INVARIANTS WritesOwnFile ResultsStored FigureSentOnce StatsCover ValuesOfRun WithinLimit
CHECK_DEADLOCK FALSE
