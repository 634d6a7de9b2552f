SPECIFICATION FairLifeSpec
CONSTANTS
    Contexts = {c1, c2, c3}
    NULL = NULL
    MaxQueue = 1
    HandlerCalls = {"send"}
    ServiceMessages <- AnyMessage
INVARIANTS
    LifeTypeOK
    ReleasedForGood
    DestroyedOnce
    ContextOutlivesItsCallback
    ConnectedIsTransient
PROPERTIES
    NoEventOverwritten
    CloseDisconnects
    LifecycleSpec
CHECK_DEADLOCK FALSE
