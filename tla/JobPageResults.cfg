\* A page and one job, nothing failing.
SPECIFICATION PageSpec
CONSTANTS
    MaxJobs = 1
    JobQueueLimit = 1
    Web = {w}
    Workers = {k}
    Once = {}
    Smokes = {}
    Deletable = {}
    NoProc = NoProc
    MaxCrashes = 0
    Pages = {t}
INVARIANTS
    ResultsRender
CHECK_DEADLOCK FALSE
