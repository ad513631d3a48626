\* Finding: worker start-up fails the job a live smoke command runs.
SPECIFICATION Spec
CONSTANTS
    MaxJobs = 1
    JobQueueLimit = 2
    Web = {}
    Workers = {k}
    Once = {}
    Smokes = {s}
    Deletable = {}
    NoProc = NoProc
    MaxCrashes = 0
PROPERTIES
    RecoversOnlyAbandoned
CHECK_DEADLOCK FALSE
