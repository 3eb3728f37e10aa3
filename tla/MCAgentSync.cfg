SPECIFICATION AgentFairSpec
CONSTANTS
    Slot <- MCSlot
    MaxId = 2
    MaxConn = 1
    MaxGiveUps = 1
    MaxAdmin = 1
    MaxRestarts = 1
INVARIANTS UploadedIsListed
PROPERTIES DeletedComesBack  DisconnectDelivered
CHECK_DEADLOCK FALSE
