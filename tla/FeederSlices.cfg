CONSTANTS
    Procs = {p1, p2, p3}
    Rounds = 3
    PinPointsActive = TRUE
SPECIFICATION FairSpec
INVARIANT TypeOK
INVARIANT SimulatesInsideSlice
INVARIANT BarrierCountsArrivals
PROPERTY SliceBarrierSpec
PROPERTY AllSlicesFinish
