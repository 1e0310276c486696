\* Both threads start before checkFirstAccess has created the thread's
\* buffers (release build: the assert of checkFirstAccess is compiled out);
\* the pool is as large as the run.
CONSTANTS
    MaxPush = 4
    PoolSize = 4
    ConsumeCap = 2
    AssertsOn = FALSE
    StartInitialized = FALSE
SPECIFICATION FairSpec
INVARIANT TypeOK
INVARIANT NoContainerShared
INVARIANT HandoffInOrder
INVARIANT ContainerConservation
PROPERTY AllDelivered
