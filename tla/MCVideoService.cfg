SPECIFICATION VideoSpec
CONSTANTS
    c1 = c1
    c2 = c2
    monitor = monitor
    Conn <- MCConn
    AckRequired <- MCMixed
    Service <- MCService
    NeedSnapshot <- MCService
    Video <- MCService
    PrimaryVideo <- MCService
    PrimaryCamera <- MCNone
    NoService = NoService
    MaxFrames = 2
    MaxCalls = 3
INVARIANTS VideoInv LagBounded
PROPERTIES ImplementsServer
CHECK_DEADLOCK FALSE
