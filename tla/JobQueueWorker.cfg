\* One worker and two requests at once, as docker-compose.yml deploys them, and one crash.
SPECIFICATION Spec
CONSTANTS
    MaxJobs = 3
    JobQueueLimit = 2
    Web = {w1, w2}
    Workers = {k}
    Once = {}
    Smokes = {}
    Deletable = {2}
    NoProc = NoProc
    MaxCrashes = 1
INVARIANTS
    TypeOK
    Attended
    NeverOptimistic
PROPERTIES
    ImplementsLifecycle
    NoRerun
    DeletedIsGone
    TerminalIsFinal
    OvertakesOnlyHeld
    CompletedHasReport
SYMMETRY Symmetry
CHECK_DEADLOCK FALSE
