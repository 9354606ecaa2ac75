SPECIFICATION Spec
CONSTANTS
    g = g
    o = o
    c = c
    l = l
    x = x
    y1 = y1
    y2 = y2
    Hash <- MCHash
    Genesis = g
    Chain <- MCChain
    Work <- MCWork
    GoodBits <- MCHash
    GoodPow <- MCHash
    Checkpoint <- MCCheckpoint
    MaxForkAge = 1
    MaxForkHeaders = 2
    MaxReorgDepth = 3
    AcceptsForks = TRUE
    MaxBatch = 2
    MaxTasks = 2
    MaxRestarts = 1
CHECK_DEADLOCK FALSE
INVARIANTS
    TypeOK
    ActiveChainLinked
    BestIsHeaviest
    FailedForkNotRetried
PROPERTIES
    ActiveWorkMonotone
    RestartKeepsWork
    PurgeBoundsForks
