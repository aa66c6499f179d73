SPECIFICATION StoresSpec
CONSTANTS
    Memories = {1, 2}
    Twins = {1, 2}
    Decisions = {1, 2}
    Notes = {}
    Leaks = {}
    Promoters = {p1}
    Workers = {w1, w2}
    StaleAfter = 0
    MaxNow = 1
    MaxPromotions = 2
    MaxForgets = 1
    MaxRuns = 2
    NoWorker = NoWorker
    Origins = {o1, o2}
    NoOrigin = NoOrigin
    Aliases = {n}
    Worktrees = {d1}
    Registrars = {r1}
    IdentityCalls = {c}
    NoName = NoName
    MaxRemoteChanges = 1
    MaxIdentityCalls = 1
    MaxUpserts = 2
    MaxTargets = 2
    ArtifactFiles = {f1, f2, m}
    NameSakes = {f1, f2}
    Milestones = {m}
    Indexers = {p1, p2}
    MaxTexts = 2
    MaxDeaths = 1
    Branches = {b1}
    Anchors = {a1}
    CapsuleIssues = {7}
    NoIssue = NoIssue
    Facts = {f, x}
    SecretFacts = {x}
    CapsuleCalls = {c1, c2}
    MaxHeads = 2
    MaxSourceTexts = 2
    MaxBuilds = 2
    VaultPages = {i, a, b}
    IndexPage = i
    VaultRuns = {p, q}
    NoRun = NoRun
    MaxInits = 2
    MaxRefreshes = 2
    Issues = {1, 2}
    ResolverCalls = {c}
    Main = Main
    MaxRestores = 1
    Agents = {a, b}
    Models = {m1, m2}
    Builtin = Builtin
    OwnModel = OwnModel
    NoModel = NoModel
    EmptyModel = EmptyModel
    MaxEdits = 1
INVARIANTS
    MemoryInv   ArtifactInv CapsuleInv 
     AgentInv
CHECK_DEADLOCK FALSE
