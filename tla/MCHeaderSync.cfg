SPECIFICATION Spec
CONSTANTS
    p = p
    q = q
    Peer = {p, q}
    Reliable = {}
    MaxHeight = 3
    BatchLimit = 2
    DiskFaults = TRUE
SYMMETRY Peers
INVARIANTS
    TypeOK
    CacheCurrent
