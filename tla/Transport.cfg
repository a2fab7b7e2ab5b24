SPECIFICATION MCSpec
CONSTANTS
    Sessions = {1, 2}
    Requests <- MCRequests
    Size = 1
    MaxSockets = 3
    MaxMade = 1
    Peers = {1}
    Backlog = 2
    MaxConnects = 1
    MaxListeners = 1
INVARIANTS
    Registry
    TransferExact
PROPERTIES
    Collected
    SessionsEnd
CHECK_DEADLOCK FALSE
