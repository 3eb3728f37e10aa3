SPECIFICATION VideoSpec
CONSTANTS
    c1 = c1
    c2 = c2
    monitor = monitor
    Conn <- MCConn
    AckRequired <- MCConn
    Service <- MCService
    NeedSnapshot <- MCService
    Video <- MCService
    PrimaryVideo <- MCService
    PrimaryCamera <- MCNone
    NoService = NoService
    MaxFrames = 2
    MaxCalls = 2
PROPERTIES WaitEndsFetched
CHECK_DEADLOCK FALSE
