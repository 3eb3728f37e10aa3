SPECIFICATION LoginSpec
CONSTANTS
    c1 = c1
    c2 = c2
    ip1 = ip1
    ip2 = ip2
    net = net
    peer = peer
    Conn <- MCConn
    Key <- MCKey
    Ip <- MCIp
    Prefixes <- MCPrefixes
    Limit <- MCLimit
    MinuteLimit = 0
    MaxFailures = 2
    TempEnabled = TRUE
    PermEnabled = TRUE
    SessionKey <- MCSessionKey
    Session <- MCSession
    TwoFactor <- MCConn
    MaxMinute = 2
    MaxTemp = 2
    MaxTries = 3
    NoSession = NoSession
SYMMETRY MCSymmetry
INVARIANTS LoginInv  StreakBounded
 
CHECK_DEADLOCK FALSE
