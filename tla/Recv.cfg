SPECIFICATION FairSpec
CONSTANTS
    Cap = 5
    HdrLen = 2
    Start <- MCStart
    Field <- MCField
    SqRoom = 5
CHECK_DEADLOCK FALSE
INVARIANTS WindowOpen InOrderWhole NoneWaiting RoomUnlessZero
PROPERTIES ParseEnds
