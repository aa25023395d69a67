SPECIFICATION FairMCSpec
CONSTANTS
    Parts = {"board", "waits", "automation", "sends", "hub", "thinking", "pool"}
    None = None
    h1 = h1
    a2 = a2
    Users = {h1}
    Agents = {a1, a2}
    Owner <- MCOwner
    Sender <- MCSender
    TaskIds = {t1}
    Contracts <- AgentOnly
    Scopes = {x1}
    Messages = {}
    Subs = {s1}
    Keys = {k1}
    Handlers = {}
    MaxVersion = 4
    t1 = t1
    t2 = t2
    WTasks = {t1, t2}
    WAgents = {a1}
    WParent <- MCParent
    Waits = {w1}
    WaitKinds = {"task_done", "at_time"}
    WNull = WNull
    MaxWVersion = 2
    MaxWCrashes = 1
    MaxWFailures = 1
    Contracted = FALSE
    MaxARuns = 3
    MaxAEdits = 0
    MaxACrashes = 1
    SendIds = {1, 2}
    Menu <- TwoSends
    CRuns = {"r1", "r2"}
    RunScope <- RunScopes
    TaskRuns = {"r1"}
    HeldLimit = 1
    CacheCap = 1
    MaxEvents = 1
    Clients = {"x", "y"}
    SubScopes = {"channel", "thread"}
    SendCap = 1
    CastCap = 1
    MaxCasts = 1
    MaxSubs = 1
    MaxNodes = 3
    TeamSizes = {0, 1}
    MaxDepth = 2
    MaxChildren = 2
    MaxPosts = 2
    MaxAsks = 1
    MaxTFaults = 1
    DScopes = {"c", "n"}
    Nodes = {"n"}
    DReqs = {q1, q2}
    Configs = {"k1"}
    Observations <- WeakTurns
    MaxProcs = 2
    MaxIds = 1
CHECK_DEADLOCK FALSE
PROPERTIES
    
    RequestsAreServed
