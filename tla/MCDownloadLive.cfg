\* Two peers that answer and one that may not, of one request each; the window
\* is wider than the two.
SPECIFICATION FairSpec
CONSTANTS
    a1 = a1
    a2 = a2
    a3 = a3
    b2 = b2
    b3 = b3
    p = p
    q = q
    u = u
    Block <- Short
    Chain <- ShortChain
    Rejected = {}
    Unreadable = {}
    Peer = {p, q, u}
    Reliable = {p, q}
    WindowSize = 3
    PerPeerLimit = 1
    RefillThreshold = 1
    MaxPending = 3
    MaxStrikes = 1
    MaxReorgs = 0
    MaxRestarts = 0
PROPERTY ConnectedUnlessPaused
