\* Two users over two browsers and an administrator, under fairness.
SPECIFICATION FairSpec
CONSTANTS
    Users = {u1, u2}
    Admins = {a}
    AdminEmails = {e}
    Browsers = {b1, b2}
    NoUser = NoUser
INVARIANTS
    TypeOK
    DatesTellState
    PendingIsAnnounced
PROPERTIES
    DecisionsStick
    ImplementsMembership
    ApprovedGetIn
