SPECIFICATION FairMCSpec
CONSTANTS
    Parts = {"wake", "stream", "exec"}
    Root = root
    Scopes = {root}
    Works = {work}
    Kinds = {TRUE}
    None = None
    MaxMessages = 2
    MaxFailures = 1
    MaxHealth = 0
    MaxPolicies = 0
    MaxEdits = 0
    MaxRestarts = 1
    VisibleContract = TRUE
    Consumers = {1, 2}
    DTasks = {1, 2, 3}
    DaemonOutcomes = {"failed"}
    MaxRegs = 1
    MaxSFaults = 1
    XTasks = {"b"}
    PathOf <- TaskPaths
    XAttempts = {"a1", "a2"}
    MaxExecs = 2
    MaxStops = 1
CHECK_DEADLOCK FALSE
PROPERTIES
    NobodyJumpsTheQueue
    RunsProgress
