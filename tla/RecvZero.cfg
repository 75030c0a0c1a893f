SPECIFICATION Spec
CONSTANTS
    Cap = 5
    HdrLen = 2
    Start <- MCStart
    Field <- MCZeroField
    SqRoom = 5
CHECK_DEADLOCK FALSE
INVARIANTS RoomAssumed
