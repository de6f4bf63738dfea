SPECIFICATION PoolFairSpec
CONSTANTS
    c1 = c1
    Workers = {w1, w2, w3}
    Clients = {c1}
    PerRound = 3
    Rounds = 2
    MayThrow <- MCMayThrow
INVARIANTS
    WakeupForTask
    TasksEndInTime
PROPERTIES
    TasksTakenOnceInOrder
    PoolEnds
