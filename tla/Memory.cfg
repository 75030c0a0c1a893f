SPECIFICATION MCSpec
CONSTANTS
    InitOpsCap = 1
    InitFreeCap = 1
    MaxOps = 5
    Buf = {1, 2, 3, 4, 5}
    InitBufs <- MCInitBufs
    MaxRef = 2
    Node = {n1, n2, n3, n4}
    NULL = NULL
    Garbage = Garbage
    Id = {1, 2, 3, 5}
    Cap = 2
    FreeCap = 1
SYMMETRY NodeSymmetry
INVARIANTS FreeOrLent IInv FreeOrHeld SlabInv NodesAccounted ListsSound NoStaleUsername
PROPERTIES CleanOnEntry PromiseSpec SlabPromiseSpec TableSpec
