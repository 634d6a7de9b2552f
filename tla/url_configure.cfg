SPECIFICATION Spec
CONSTANTS
    NULL = NULL
    Width = 2
    UrlSize = 11
    MaxInt = 49
    Letters <- MCLetters
    Rests <- MCRests
INVARIANTS
    TypeOK
    ConfiguredAsWritten
    SslIffAsked
CHECK_DEADLOCK FALSE
