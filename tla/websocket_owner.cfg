SPECIFICATION FairSpec
CONSTANTS
    Contexts = {c1, c2, c3}
    Messages <- MCMessages
    NULL = NULL
    MaxQueue = 3
INVARIANTS
    TypeOK
    StatusTracksLink
    QueuedIsServed
    WritesToItsLink
PROPERTIES
    LostWithItsLink
    QueueDrains
