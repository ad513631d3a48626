\* Finding: a refresh gives a job that recovery has failed a position again.
SPECIFICATION Spec
CONSTANTS
    MaxJobs = 3
    JobQueueLimit = 2
    Web = {w1, w2}
    Workers = {k}
    Once = {}
    Smokes = {}
    Deletable = {}
    NoProc = NoProc
    MaxCrashes = 1
INVARIANTS
    RecoveredHasNoPosition
CHECK_DEADLOCK FALSE
