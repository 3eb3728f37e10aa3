CONSTANTS
    Attempt <- MCAttempt
    Udp <- MCUdp
    World <- MCWorld
    Tries = 2
SPECIFICATION SetupSpec
INVARIANTS SetupInv RetriesOnlyAfterFaults
PROPERTIES OrphansEnd StartServes
CHECK_DEADLOCK FALSE
