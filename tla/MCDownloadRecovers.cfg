SPECIFICATION FairSpec
CONSTANTS
    a1 = a1
    a2 = a2
    a3 = a3
    b2 = b2
    b3 = b3
    p = p
    q = q
    u = u
    Block <- Short
    Chain <- ShortChain
    Rejected = {}
    Unreadable = {}
    Peer = {p}
    Reliable = {}
    WindowSize = 2
    PerPeerLimit = 2
    RefillThreshold = 1
    MaxPending = 2
    MaxStrikes = 1
    MaxReorgs = 0
    MaxRestarts = 0
CHECK_DEADLOCK FALSE
PROPERTY RecoversFromExclusion
