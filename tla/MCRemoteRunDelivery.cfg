SPECIFICATION Spec
CONSTANTS
    None = None
    Runs = {r1}
    MaxConns = 2
    MaxAttempts = 2
    MaxDaemonRestarts = 1
    MaxServerRestarts = 1
    MaxTimeouts = 1
    MaxLostPosts = 1
    MaxLostAccepts = 1
    MaxFaults = 1
    MaxRequests = 1
    HistoryLimit = 3
    ProgressEvents = 0
CHECK_DEADLOCK FALSE
INVARIANTS
    TypeOK
    ConsumerMissesNothing
    ResultNotLost
    
