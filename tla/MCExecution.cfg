SPECIFICATION ExecutionSpec
CONSTANTS
    e1 = e1
    e2 = e2
    p1 = p1
    p2 = p2
    NoOne = NoOne
    Executors = {e1, e2}
    Processes = {p1, p2}
    NumBatches = 2
    Ttl = 1
    MaxClock = 2
    MaxCrashes = 1
    MaxPlain = 1
    MaxEvents = 4
SYMMETRY Interchangeable
CONSTRAINT OneExcuse
INVARIANTS ExecutionInv
PROPERTIES CommittedNotRedone
CHECK_DEADLOCK FALSE
