SPECIFICATION Spec
CONSTANTS
    MaxUids = 2
    SizeT = 131072
    Unames <- MCUnames
    UidLists <- MCUidLists
    LowLens = {3, 10}
    MaxAsked = 2
    MaxShort = 2
CHECK_DEADLOCK FALSE
INVARIANTS LastGoodName RoundTrip WholeAnswers BytesOnce
