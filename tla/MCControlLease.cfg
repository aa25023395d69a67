SPECIFICATION FairSpec
CONSTANTS
    None = None
    Conns = {c1, c2, c3}
    MaxRevokes = 1
    MaxRestarts = 1
CHECK_DEADLOCK FALSE
INVARIANTS
    ServedIsOnline
    RevokedIsOffline
PROPERTIES
    LeaseNeverReturns
    ReplacedEnds
    GhostIsSwept
