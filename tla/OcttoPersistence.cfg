SPECIFICATION FairSpec
CONSTANTS
    Sessions = {s1, s2}
    Questions = {q1, q2}
    Idle = Idle
    NoFile = NoFile
    Torn = Torn
INVARIANTS PersistenceInv
PROPERTIES FileKeepsAnswers QueuesDrain
CHECK_DEADLOCK FALSE
