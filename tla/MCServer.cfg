SPECIFICATION Spec
CONSTANTS
    c1 = c1
    c2 = c2
    monitor = monitor
    camera = camera
    focus = focus
    Conn <- MCConn
    Service <- MCService
    NeedSnapshot <- MCVideo
    Video <- MCVideo
    PrimaryVideo <- MCPrimaryVideo
    PrimaryCamera <- MCPrimaryCamera
    NoService = NoService
SYMMETRY MCSymmetry
INVARIANTS ServerInv NothingLeftOfRemoved
PROPERTIES SubscribeHonoured
CHECK_DEADLOCK FALSE
