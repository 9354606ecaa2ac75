SPECIFICATION Spec
CONSTANTS
    a1 = a1
    a2 = a2
    a3 = a3
    b2 = b2
    b3 = b3
    p = p
    q = q
    u = u
    Block <- Fork
    Chain <- ForkChain
    Rejected = {}
    Unreadable = {}
    Peer = {p}
    Reliable = {p}
    WindowSize = 2
    PerPeerLimit = 2
    RefillThreshold = 1
    MaxPending = 2
    MaxStrikes = 2
    MaxReorgs = 0
    MaxRestarts = 1
CHECK_DEADLOCK FALSE
INVARIANT ConnectedIsChain
