SPECIFICATION CursorSpec
CONSTANTS
    c1 = c1
    c2 = c2
    cursor = cursor
    Conn <- MCConn
    Service <- MCCursor
    NeedSnapshot <- MCCursor
    Video <- MCNone
    PrimaryVideo <- MCNone
    PrimaryCamera <- MCNone
    NoService = NoService
    MaxVer = 1
INVARIANTS ServedAreCurrent
PROPERTIES ImplementsServer NewcomersAreServed DropTerminates
CHECK_DEADLOCK FALSE
