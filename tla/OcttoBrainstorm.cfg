SPECIFICATION BrainstormLive
CONSTANTS
    Browser = Browser
    Sessions = {Browser}
    NoSession = NoSession
    NumBranches = 2
    NoBranch = 0
    NoQuestion = 0
    Questions = {1, 2, 3, 4, 5}
    Awaits = {1, 2}
    MaxIterations = 2
INVARIANTS BrainstormInv
PROPERTIES EndedStaysDeleted AwaitReturns
CHECK_DEADLOCK FALSE
