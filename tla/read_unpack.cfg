SPECIFICATION Spec
CONSTANTS
    a = a
    b = b
    NULL = NULL
    Texts <- MCTexts
    Incoming <- MCIncoming
INVARIANTS
    TypeOK
    ResultIsUnpack
    PackedIsRead
    ReleasedAsItsType
    HandledLeavesNothing
    FreesWhatItHolds
CHECK_DEADLOCK FALSE
