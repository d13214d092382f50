SPECIFICATION Spec
CONSTANTS
    Nonces = {p1, p2}
    NoNonce = NoNonce
    ResourceTypes = {"file:read", "shell:exec"}
    Targets = {"x"}
    Never = Never
    MaxTime = 1
    Grants <- SomeGrants
    Asks <- SomeAsks
    Calls = {c1}
    Listings = {l1}
    ControlFlow = {"shell:exec"}
    Provenances = {"trusted", "untrusted"}
    Processes = {p1, p2}
    NoKey = NoKey
    MaxEntries = 2
    MaxEdits = 1
    Events = {e1, e2}
    Alerts = {e1}
    Retention = 2
    CompressAfter = 1
    LastDay = 3
    Keys = {k1}
    Sources = {"user", "agent"}
    Threads = {q1}
    DefaultTerm = 1
    LastWeek = 2
    Recorders = {p1, p2}
    Checkers = {p1, p2}
    Resources = {"file:read", "shell:exec", "network:send"}
    WindowSize = 3
    MaxGap = 0
    Minute = 0
    MaxPerMinute = 2
    Thresholds <- TheThresholds
    MaxAutoLevel = 2
    Orders = {1, 4}
    MaxAlerts = 2
    LastTick = 1
    RiskScores = {0, 40, 70}
    Containment = {0, 2}
    MaxAge = 2
    Window = 3
    FinalDay = 4
    Files = {f1, f2}
    MaxWrites = 2
    Regexes = {x1, x2}
    Broad = {x2}
    Phrases = {y1, y2}
    MaxProposals = 2
    MaxCycles = 2
    Lists <- SearchedLists
    RuleScores <- TheRules
    BlockAt = 81
    MaxHits <- TheHits
    GuardFinds = {25}
    MaxMessages = 3
    MaxFinds = 3
    PinThreads = {p1, p2}
    PinnedTools = {tool1}
    Texts = {"a", "b"}
    Scanners = {p1, p2}
    Offered = {m1}
    Versions = {"plain", "hidden"}
    RiskOf <- TheRisks
    PowersOf <- ThePowers
    HookScores = {0, 79, 80}
    MaxRewrites = 1
SYMMETRY Symmetry
CONSTRAINT Unmisled
INVARIANTS
    TypeOK
    TamperEvident
    UntouchedVerifies
    KeptForRetention
    RecallIsVetted
    NoFalseChain
    LevelIsEarned
    CategoryIsCapped
    NoFalsePositives
    DestroyedMeansGone
    TrendIsReal
    VerdictsAreEarned
    ChangesAreReported
    KindsDecide
    CriticalIsStopped
    AuditTellsHeld
    NothingAfterTheEnd
    StaleGrantsStop
    ListingsAreActive
PROPERTIES
    KeepsTheBook
CHECK_DEADLOCK FALSE
