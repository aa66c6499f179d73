SPECIFICATION BrowserSpec
CONSTANTS
    PageSession = s1
    Sessions = {s1, s2}
    NoSession = NoSession
    Questions = {1, 2}
    MaxLoads = 1
    Agents = {a1, a2}
    NoAgent = NoAgent
    MaxRestarts = 1
    Instances = {i1, i2}
    NoInstance = NoInstance
    PortalSessions = {s1, s2}
    PortalQuestions = {q1, q2}
    Sockets = {k1}
    PortalToken = TRUE
    MaxPortalTime = 2
    FormQuestions = {1, 2}
    FormOptions = {1, 2}
    OptionInputs <- FormInputs
    FileSets <- FormFileSets
    Scales <- FormScales
INVARIANTS RatingsAreTheClicks
CHECK_DEADLOCK FALSE
