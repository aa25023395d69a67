SPECIFICATION MCSpec
CONSTANTS
    Parts = {"sends", "hub", "thinking", "automation", "board",
             "pairing", "formation", "agreement"}
    SendIds = {1, 2, 3}
    Menu <- AllSends
    CRuns = {"r1", "r2"}
    RunScope <- RunScopes
    TaskRuns = {"r1"}
    HeldLimit = 1
    CacheCap = 1
    MaxEvents = 1
    Clients = {"x", "y"}
    SubScopes = {"channel", "thread"}
    SendCap = 2
    CastCap = 2
    MaxCasts = 2
    MaxSubs = 1
    MaxNodes = 4
    TeamSizes = {0, 1, 3}
    MaxDepth = 2
    MaxChildren = 2
    MaxPosts = 2
    MaxAsks = 2
    MaxTFaults = 1
    Contracted = FALSE
    MaxARuns = 4
    MaxAEdits = 1
    MaxACrashes = 1
    None = None
    h1 = h1
    Users = {h1}
    Agents = {a1}
    Owner <- MCOwner
    Sender <- MCSender
    TaskIds = {t1, t2}
    Contracts = {}
    Scopes = {x1}
    Messages = {m1}
    Subs = {}
    Keys = {}
    Handlers = {q1}
    MaxVersion = 2
    Machines = {1, 2}
    Owners = {"u1", "u2"}
    PHosts = {"h1"}
    Labels = {"d1", "d2"}
    Exchanges = {"x1", "x2"}
    PAgents = {"a1"}
    MaxTokens = 2
    MaxPActs = 3
    FormReqs = {"f1", "f2", "f3"}
    ApplyReqs = {"p1", "p2"}
    MaxLeases = 4
    MaxFFaults = 2
    TAgents = {"a", "b", "c"}
    TOwner <- MCTOwner
    ChOwner = "u1"
    Proposals = {"ba", "cb"}
    Directs = {"ac"}
    Ends <- MCEnds
    MaxVersions = 2
    MaxTActs = 2
CHECK_DEADLOCK FALSE
INVARIANTS
    HubPromise
    OneTaskPerMessage
    HistoryOlderThanRow
PROPERTIES
    
    ThinkingPromise
    AutomationPromise
    TeamsPromise
