SPECIFICATION Spec
CONSTANTS
    a = a
    b = b
    NULL = NULL
    Texts <- MCTexts
    Incoming <- MCIncoming
INVARIANTS
    NothingLeftAllocated
CHECK_DEADLOCK FALSE
