\* A producer past CheckIgnoreConditions finishes its handshake after
\* PauseSimulation's give-up handshake.
CONSTANTS
    m = m
    t2 = t2
    Threads = {m, t2}
    Main = m
    Unborn = {}
    Rounds = 2
    MaxInsns = 2
    MultiProcess = FALSE

SPECIFICATION Spec

INVARIANT NoHandshakeOutlivesSlice
