\* Progress of the deployed system, with one crash and a deletion.
SPECIFICATION FairSpec
CONSTANTS
    MaxJobs = 2
    JobQueueLimit = 2
    Web = {w1, w2}
    Workers = {k}
    Once = {}
    Smokes = {}
    Deletable = {1}
    NoProc = NoProc
    MaxCrashes = 1
PROPERTIES
    JobsFinish
CHECK_DEADLOCK FALSE
