SPECIFICATION ProgressSpec
CONSTANTS
    None = None
    Calls = {c1}
    Owners = {o1}
    Tasks = {t1}
    Generations = {1, 2}
    CleanupMax = 2
    Retries = 2
    ErrorTypes = {missing, thinking}
    Recoveries = {1, 2}
    MaxScheduled = 2
    MaxRecovery = 1
    MaxTurns = 3
    Compactions = {1, 2, 3}
    NoCompaction = NoCompaction
INVARIANTS ProgressInv
PROPERTIES LaunchedCallsReturn UpstreamFailureResumes 
CHECK_DEADLOCK FALSE
