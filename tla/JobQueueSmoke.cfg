\* A smoke command run while the stack is up, with deadlocks, one crash and a deletion.
SPECIFICATION Spec
CONSTANTS
    MaxJobs = 3
    JobQueueLimit = 1
    Web = {w}
    Workers = {k}
    Once = {k}
    Smokes = {s}
    Deletable = {2}
    NoProc = NoProc
    MaxCrashes = 1
INVARIANTS
    QueueBound
    SingleExecutor
PROPERTIES
    ImplementsLifecycle
    StrandedByDeath
CHECK_DEADLOCK FALSE
