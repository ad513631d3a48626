\* A page over a queue of two jobs and the files of their runs, with a crash and a
\* deletion, under fairness.
SPECIFICATION FairFilesSpec
CONSTANTS
    MaxJobs = 2
    JobQueueLimit = 2
    Web = {w}
    Workers = {k}
    Once = {}
    Smokes = {}
    Deletable = {1}
    NoProc = NoProc
    MaxCrashes = 1
    Pages = {t}
    Outputs = {{}, {"report", "plot"}}
INVARIANTS
    PageTypeOK
    LinksWork
PROPERTIES
    PanelAdvances
    PageReachesEnd
CHECK_DEADLOCK FALSE
