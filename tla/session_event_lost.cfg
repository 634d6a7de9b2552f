SPECIFICATION Spec
CONSTANTS
    Contexts = {c1, c2}
    NULL = NULL
    MaxQueue = 1
    HandlerCalls = {"open"}
    ServiceMessages = {"SESSION_AUTHENTICATED"}
SYMMETRY ContextSymmetry
PROPERTIES
    NoEventOverwritten
