SPECIFICATION Spec
CONSTANTS
    OpId = {1, 2, 3, 4, 5}
    NoOp = 0
    Buf = {1, 2, 3}
    NoBuf = 0
    Conn = {c1, c2}
    NoConn = NoConn
    Fd = {5}
    OkLen = 1
    ErrLen = 2
    MaxReqs = 2
    MaxRequests = 2
    MaxBatch = 1
    SqSize = 6
    Offer <- MCOffer
SYMMETRY ConnSymmetry
INVARIANTS OwnConnection
