CONSTANTS
    c1 = c1  c2 = c2
    Conn <- MCConn
    Tid <- MCTid
    ChannelSize = 1
    Recent = 1
    ReaderSeesEof = FALSE
    MaxEvents = 6
SYMMETRY MCSymmetry
SPECIFICATION TerminalSpec
INVARIANTS TerminalInv 
PROPERTIES PersistentSurvives
