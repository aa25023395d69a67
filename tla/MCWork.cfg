SPECIFICATION MCSpec
CONSTANTS
    Parts = {"board", "provider", "codex", "oneshot", "lock", "departure",
             "selection"}
    None = None
    h1 = h1
    a2 = a2
    Users = {h1}
    Agents = {a1, a2}
    Owner <- MCOwner
    Sender <- MCSender
    TaskIds = {t1}
    Contracts <- EveryGate
    Scopes = {x1}
    Messages = {}
    Subs = {s1, s2}
    Keys = {k1, k2}
    Handlers = {q1}
    MaxVersion = 5
    Kinds = {"claude", "controller", "captured"}
    MaxTurns = 2
    MaxCalls = 2
    Protocols = {"raw", "legacy"}
    MaxCTurns = 2
    MaxStops = 2
    MaxLapses = 1
    Backends = {"gemini", "pi", "cursor", "copilot", "claude", "kimi", "kiro",
                "hermes", "codex", "opencode", "openclaw"}
    Daemons = {"k1", "k2", "k3"}
    MaxKills = 2
    MaxReused = 1
    WorkPlaces = {"home", "other", "node"}
    MaxWork = 2
    MaxJoins = 1
    MaxAttempts = 2
    MaxSubs = 1
    MaxOwner = 3
SYMMETRY Interchangeable
CHECK_DEADLOCK FALSE
INVARIANTS
    ReviewShowsCurrentWork
    DoneMeansAccepted
    OneFinalVerdict
    AgentReviewNotStranded
    BackendsPromise
PROPERTIES
    VersionIsALock
    VerdictHitsItsTask
    MembersPromise
