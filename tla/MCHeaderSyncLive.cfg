SPECIFICATION FairSpec
CONSTANTS
    p = p
    q = q
    Peer = {p, q}
    Reliable = {p, q}
    MaxHeight = 3
    BatchLimit = 2
    DiskFaults = FALSE
CHECK_DEADLOCK FALSE
INVARIANT PersistedWhenIdle
PROPERTIES
    Handled
    SyncReachesTip
