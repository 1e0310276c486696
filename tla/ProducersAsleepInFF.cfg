\* Another process is still simulating when this one reaches
\* SliceEndBarrier, which disables producers and never re-enables them.
CONSTANTS
    m = m
    t2 = t2
    Threads = {m, t2}
    Main = m
    Unborn = {}
    Rounds = 2
    MaxInsns = 2
    MultiProcess = TRUE

SPECIFICATION Spec

INVARIANT NoProducerBlockedInFastForward
