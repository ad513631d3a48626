\* Finding: a claim deadlocks with a submission, and the worker exits.
SPECIFICATION Spec
CONSTANTS
    MaxJobs = 4
    JobQueueLimit = 3
    Web = {w1, w2}
    Workers = {k}
    Once = {}
    Smokes = {}
    Deletable = {}
    NoProc = NoProc
    MaxCrashes = 0
PROPERTIES
    WorkerCatchesErrors
CHECK_DEADLOCK FALSE
