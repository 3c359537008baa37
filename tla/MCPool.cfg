SPECIFICATION FairSpec
CONSTANTS
    w1 = w1
    w2 = w2
    c1 = c1
    c2 = c2
    o = o
    Worker <- MCWorker
    Client <- MCClient
    Owner = o
    Uses <- MCUses
INVARIANTS
    TypeOK
    PopFindsTask
    ReturnedMeansRun
PROPERTIES
    PoolDestroyed
