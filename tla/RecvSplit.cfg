SPECIFICATION Spec
CONSTANTS
    Cap = 5
    HdrLen = 2
    Start <- MCStart
    Field <- MCOwnField
    SqRoom = 5
CHECK_DEADLOCK FALSE
INVARIANTS InOrder
