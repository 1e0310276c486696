\* The application creates t2 at any time, PauseSimulation included.
CONSTANTS
    m = m
    t2 = t2
    Threads = {m, t2}
    Main = m
    Unborn = {t2}
    Rounds = 2
    MaxInsns = 2
    MultiProcess = FALSE

SPECIFICATION SpawnSpec

PROPERTY SimulationEnds
\* The process stops in this run (the deadlock is the finding); the
\* liveness property reports it.
CHECK_DEADLOCK FALSE
