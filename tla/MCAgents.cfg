SPECIFICATION MCSpec
CONSTANTS
    Parts = {"waits", "ledger", "sessions", "pool", "lark", "window"}
    t1 = t1
    t2 = t2
    WTasks = {t1, t2}
    WAgents = {a1}
    WParent <- MCParent
    Waits = {w1, w2}
    WaitKinds = {"task_done", "signal"}
    WNull = WNull
    MaxWVersion = 2
    MaxWCrashes = 1
    MaxWFailures = 1
    LRuns = {r1, r2}
    LAgents = {a1}
    LimitChoices = {1, 2}
    RunReserve = 1
    MaxTokens = 1
    MaxPolicyEdits = 1
    MaxMonths = 1
    MaxSRuns = 3
    MaxSessions = 3
    MaxForced = 1
    DScopes = {"c", "n"}
    Nodes = {"n"}
    DReqs = {q1, q2}
    Configs = {"k1", "k2"}
    Observations <- BothTurns
    MaxProcs = 2
    MaxIds = 2
    Regs = {"r1", "r2"}
    LEvents = {"e1"}
    Retries = {101, 102}
    LChannels = {"c1", "c2"}
    MaxBindings = 2
    MaxMsgs = 2
    MaxLSaves = 2
    MaxLFaults = 2
    Claimants = {"c1", "c2", "c3"}
    Mentioned = {"c1"}
    MaxClaims = 5
CHECK_DEADLOCK FALSE
PROPERTIES
    WaitsPromise
    
    BookedOnClose
    SessionsPromise
    PoolPromise
    ServicesPromise
