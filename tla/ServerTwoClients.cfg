SPECIFICATION FairSpec
CONSTANTS
    OpId = {1, 2, 3, 4}
    NoOp = 0
    Buf = {1, 2, 3}
    NoBuf = 0
    Conn = {c1, c2}
    NoConn = NoConn
    Fd = {5, 6}
    OkLen = 1
    ErrLen = 2
    MaxReqs = 1
    MaxRequests = 1
    MaxBatch = 1
    SqSize = 4
    Offer <- MCOffer
INVARIANTS ClientSockets NoOrphanSocket RingHasRoom
PROPERTIES PreparedIsSubmitted ResponseFinishes
