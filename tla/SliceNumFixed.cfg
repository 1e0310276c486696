CONSTANTS
    Procs = {p1, p2}
    Rounds = 2
    PinPointsActive = FALSE
SPECIFICATION Spec
INVARIANT SimulatesInsideSlice
