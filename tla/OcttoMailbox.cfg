SPECIFICATION FairSpec
CONSTANTS
    Sessions = {s1}
    Questions = {q1, q2}
    Tabs = {t1, t2}
    GetCalls = {g1}
    NextCalls = {n1, n2}
    MaxInitial = 1
    NoSession = NoSession
    NoQuestion = NoQuestion
    NoTab = NoTab
INVARIANTS StoreInv
PROPERTIES AnswersAreFinal CallsReturnOnce BlockedCallsReturn ImplementsMailbox
CHECK_DEADLOCK FALSE
