SPECIFICATION Spec
CONSTANTS
    Nodes = 6
    Phases = 2
    Circuits <- MCCircuits
    MaxPass = 8
    Shapes = {"front"}
    Monos = {TRUE}
    Options <- MCDefaults
    Clocks <- MCClocks
\* The relaxation ends, or is killed.
CHECK_DEADLOCK FALSE
INVARIANT
    Settled
