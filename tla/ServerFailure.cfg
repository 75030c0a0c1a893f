SPECIFICATION Spec
CONSTANTS
    OpId = {1, 2, 3, 4, 5}
    NoOp = 0
    Buf = {1, 2, 3}
    NoBuf = 0
    Conn = {c1}
    NoConn = NoConn
    Fd = {5}
    OkLen = 1
    ErrLen = 2
    MaxReqs = 1
    MaxRequests = 1
    MaxBatch = 1
    SqSize = 4
    Offer <- MCOffer
SYMMETRY ConnSymmetry
INVARIANTS FailureIsLocal
