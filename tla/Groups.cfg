SPECIFICATION Spec
CONSTANTS
    InitCap = 4
    HashMult = 31765
    Empty = Empty
    Grp = {g1, g2, g3}
    NULL = NULL
    Wild = Wild
    Gid = {0, 1, 2}
    Cid = {0, 3, 4, 7, 8}
    NumGroups = 2
    MaxBatch = 2
    MaxMembers = 4
SYMMETRY GrpSymmetry
INVARIANTS GapLeft HoldsMembers IteratesOnce
