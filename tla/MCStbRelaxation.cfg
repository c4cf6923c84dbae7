SPECIFICATION EndingSpec
CONSTANTS
    Nodes = 6
    Phases = 2
    Circuits <- MCCircuits
    MaxPass = 8
    Shapes = {"pipe", "loop", "self", "front", "ring"}
    Monos = {TRUE, FALSE}
    Options <- MCOptions
    Clocks <- MCClocks
INVARIANTS
    Converged
    Exact
    PassesBounded
PROPERTIES
    SkipsAreIdle
    InvertedByLateData
