SPECIFICATION FairSpec
CONSTANTS
    Pid = {1, 2, 3, 4}
    AUTOACKCHLD_MAX = 3
\* The program exits when the cells run out.
CHECK_DEADLOCK FALSE
INVARIANTS
    CellsAccounted
    NoStaleCell
    StatusKept
    NotForgotten
PROPERTY
    AllAcknowledged
