SPECIFICATION RegistrationFairSpec
CONSTANTS
    h1 = h1
    h2 = h2
    w1 = w1
    Host <- MCHosts
    Writer <- MCWriter
    MaxChanges = 1
    MaxId = 1
    Taken <- MCTaken
    MaxNet = 1
    MaxDups = 0
    MaxLosses = 0
    MaxFailures = 1
    MaxAdmin = 0
INVARIANTS MediatorInv
PROPERTIES ImplementsMediator OneExitsAllExit ChangeTakesEffect
CHECK_DEADLOCK FALSE
