SPECIFICATION RegistrationFairSpec
CONSTANTS
    h1 = h1
    h2 = h2
    w1 = w1
    Host <- MCHosts
    Writer <- MCNoWriter
    MaxChanges = 0
    MaxId = 2
    Taken <- MCTaken
    MaxNet = 1
    MaxDups = 1
    MaxLosses = 1
    MaxFailures = 0
    MaxAdmin = 1
INVARIANTS OnePkPerInterval
PROPERTIES Stabilizes DeletionNoticed
CHECK_DEADLOCK FALSE
