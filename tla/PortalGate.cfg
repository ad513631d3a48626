\* One user over two browsers, an administrator, and a queue of three jobs.
SPECIFICATION Spec
CONSTANTS
    Users = {u}
    Admins = {a}
    AdminEmails = {e}
    Browsers = {b1, b2}
    NoUser = NoUser
    MaxJobs = 3
    JobQueueLimit = 2
    NoProc = NoProc
INVARIANTS
    LateSubmissions
SYMMETRY Symmetry
CHECK_DEADLOCK FALSE
