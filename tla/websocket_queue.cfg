SPECIFICATION FairSpec
CONSTANTS
    Contexts = {c1, c2}
    NULL = NULL
    Messages = {m1, m2}
    MaxQueue = 2
    Nodes = {n1, n2}
PROPERTIES
    WebsocketSpec
