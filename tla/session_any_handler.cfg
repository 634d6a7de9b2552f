SPECIFICATION FairSpec
CONSTANTS
    Contexts = {c1, c2, c3}
    NULL = NULL
    MaxQueue = 2
    HandlerCalls <- AnyCall
    ServiceMessages <- AnyMessage
INVARIANTS
    TypeOK
    OpenedIffAuthenticated
    ObservingIffUnreachable
    ConnectedHasLink
    NoLinkAbandoned
    AuthenticateNotLost
    ErrorCauses
    IdleIsDisconnected
PROPERTIES
    NotificationsAlternate
    RunsToCompletion
    AttemptResolves
