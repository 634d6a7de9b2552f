SPECIFICATION Spec
CONSTANTS
    Contexts = {c1, c2}
    NULL = NULL
    MaxQueue = 1
    HandlerCalls = {}
    ServiceMessages <- AnyMessage
SYMMETRY ContextSymmetry
PROPERTIES
    DoConnectTries
