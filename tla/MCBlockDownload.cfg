\* Two peers that take one request each, a branch of two blocks and one of
\* three, one reorganisation and one restart.
SPECIFICATION Spec
CONSTANTS
    a1 = a1
    a2 = a2
    a3 = a3
    b2 = b2
    b3 = b3
    p = p
    q = q
    u = u
    Block <- Longer
    Chain <- LongerChain
    Rejected = {}
    Unreadable = {}
    Peer = {p, q}
    Reliable = {}
    WindowSize = 2
    PerPeerLimit = 1
    RefillThreshold = 1
    MaxPending = 2
    MaxStrikes = 1
    MaxReorgs = 1
    MaxRestarts = 1
SYMMETRY Peers
INVARIANTS
    TypeOK
    OutstandingBounded
    NoHeightLost
    ConnectInSync
    BufferIsAhead
