SPECIFICATION MCSpec
CONSTANTS
    Parts = {"wake", "stream", "exec"}
    Root = root
    Scopes = {root, thread}
    Works = {}
    Kinds = {FALSE}
    None = None
    MaxMessages = 2
    MaxFailures = 1
    MaxHealth = 1
    MaxPolicies = 1
    MaxEdits = 1
    MaxRestarts = 1
    VisibleContract = TRUE
    Consumers = {1, 2}
    DTasks = {1, 2, 3}
    DaemonOutcomes = {"completed"}
    MaxRegs = 1
    MaxSFaults = 1
    XTasks = {"b", "p", "r"}
    PathOf <- TaskPaths
    XAttempts = {"a1", "a2"}
    MaxExecs = 2
    MaxStops = 1
CHECK_DEADLOCK FALSE
INVARIANTS
    OneRunPerAgent
    ClaimedMessagesAreKept
    VisibleResultIsOwed
    StreamingPromise
PROPERTIES
    MutedAgentIsLeftAlone
