SPECIFICATION PluginSpec
CONSTANTS
    Topics = {t1}
    NoTopic = NoTopic
    Issues = {7}
    Milestones = {1, 2}
    ChatFallback = TRUE
    MaxMilestones = 3
    Resources = {a, b}
    MaxEntries = 1
    MaxCalls = 2
    MaxVersion = 2
    Files = {a, b}
    Reviews = {1, 2}
    MaxRetries = 2
    MaxOverrides = 2
    Sessions = {s1, s2}
    Tasks = {t, u}
    Matching = {t}
    RootFiles = {x, y}
    MaxRequests = 3
    NoTask = NoTask
    ChatSessions = {s1}
    Handlers = {h1, h2}
    Paths = {a}
    MaxRatio = 1
    WarnAt = 1
    Cooldown = 1
    MaxChatTime = 3
    MaxHandlers = 2
    Triggers = {t}
    Procedures = {none, steps}
    NoSteps = none
    Unsafe = {}
    SkillIssues = {1, 2}
    Processes = {p, q}
    MinHits = 2
    MinIssues = 2
    MaxWrites = 2
    MaxCommits = 2
    MaxEdits = 1
    MaxSweeps = 1
    Free = Free
    NoticeKeys = {k1, k2, k3}
    Notifiers = {n1, n2}
    NoticeTtl = 2
    MaxNotices = 2
    MaxTime = 4
    MaxLosses = 1
    Terminals = {t1, t2}
    TerminalOwners = {o1, o2}
    MaxLines = 2
    PageSize = 1
    MaxPrinted = 3
INVARIANTS
     ServicesInv
PROPERTIES
    UserTextsKept
CHECK_DEADLOCK FALSE
