\* One process with two threads over two PinPoints; other processes share
\* the barriers.  Every thread exists before the first slice.
CONSTANTS
    m = m
    t2 = t2
    Threads = {m, t2}
    Main = m
    Unborn = {}
    Rounds = 2
    MaxInsns = 2
    MultiProcess = TRUE

SPECIFICATION FairSpec

INVARIANT ScheduledExactlyInsideSlice
INVARIANT RepNPCMatchesX86ExceptWideAccumulator
PROPERTY SimulationEnds
