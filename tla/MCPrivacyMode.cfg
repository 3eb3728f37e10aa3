SPECIFICATION PrivacySpec
CONSTANTS
    c1 = c1
    c2 = c2
    None = None
    Conn <- MCConn
    Async = TRUE
    MaxFaults = 1
INVARIANTS  HolderEntitled
PROPERTIES  RequestAnswered
CHECK_DEADLOCK FALSE
