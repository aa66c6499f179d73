SPECIFICATION MCSpec
CONSTANTS
    Calls = {c1, c2}
    Pointers = {plan}
    MaxCommits = 2
    MaxCrashes = 1
    NoFile = NoFile
    Torn = Torn
    Plain = Plain
SYMMETRY CallSymmetry
CHECK_DEADLOCK FALSE
INVARIANTS LifecycleInv
PROPERTIES RecordOnlyGrows LandsUnderMark
