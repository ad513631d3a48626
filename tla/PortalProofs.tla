---------------------------- MODULE PortalProofs ----------------------------
(***************************************************************************)
(* Theorems about Portal: the composition keeps the specifications of its  *)
(* parts, so that what is proved of them holds of the portal, and bounds   *)
(* the submissions that follow a withdrawn approval.                       *)
(***************************************************************************)
EXTENDS Portal, FiniteSetTheorems, TLAPS

\* Approval and JobQueue as Portal instantiates them, with their theorems.
SignIn == INSTANCE ApprovalProofs WITH pc <- page
Jobs   == INSTANCE PositionProofs
          WITH Web <- Browsers, Workers <- {}, Once <- {}, Smokes <- {},
               Deletable <- {}, MaxCrashes <- 0

LEMMA SignInAssumption == SignIn!AccountsAssumption /\ SignIn!RecipientsAssumption
  BY PortalAssumption
     DEF SignIn!AccountsAssumption, SignIn!Accounts, SignIn!RecipientsAssumption

\* Both modules extend FiniteSets.
LEMMA SameNotions == /\ \A S : Jobs!IsFiniteSet(S) <=> IsFiniteSet(S)
                     /\ \A S : Jobs!Cardinality(S) = Cardinality(S)
<1>1. \A S : Jobs!IsFiniteSet(S) <=> IsFiniteSet(S)
  BY DEF IsFiniteSet, Jobs!IsFiniteSet
<1>2. \A S : Jobs!Cardinality(S) = Cardinality(S)
  BY DEF Cardinality, Jobs!Cardinality
<1> QED
  BY <1>1, <1>2

LEMMA JobsAssumption == Jobs!BoundsAssumption /\ Jobs!ProcsAssumption
<1>1. IsFiniteSet({}) /\ IsFiniteSet(Browsers)
  BY FS_EmptySet, PortalAssumption
<1>0. Jobs!Creators = Browsers /\ Jobs!Executors = {} /\ Jobs!Procs = Browsers
  BY DEF Jobs!Creators, Jobs!Executors, Jobs!Procs
<1>2. Jobs!ProcsAssumption
  BY <1>0, <1>1, SameNotions, PortalAssumption DEF Jobs!ProcsAssumption
<1> QED
  BY <1>2, PortalAssumption DEF Jobs!BoundsAssumption

-----------------------------------------------------------------------------
(* The parts in the composition                                            *)

LEMMA SignInInit == Init => SignIn!Init
  BY DEF Init, Approval!Init, SignIn!Init, Approval!NoProfile, SignIn!NoProfile,
     Approval!SignedOut, SignIn!SignedOut, Approval!Accounts, SignIn!Accounts

LEMMA SignInNext == Approval!Next <=> SignIn!Next
<1> USE DEF Approval!Goto, SignIn!Goto
<1>1. ASSUME NEW b \in Browsers
      PROVE  /\ Approval!Visit(b) <=> SignIn!Visit(b)
             /\ Approval!Logout(b) <=> SignIn!Logout(b)
             /\ Approval!GithubLogin(b) <=> SignIn!GithubLogin(b)
  BY DEF Approval!Visit, SignIn!Visit, Approval!Logout, SignIn!Logout,
     Approval!GithubLogin, SignIn!GithubLogin, Approval!Admitted, SignIn!Admitted,
     Approval!SignedOut, SignIn!SignedOut
<1>2. \A u : Approval!GetOrCreateProfile(u) = SignIn!GetOrCreateProfile(u)
  BY DEF Approval!GetOrCreateProfile, SignIn!GetOrCreateProfile,
     Approval!NoProfile, SignIn!NoProfile
<1>3. ASSUME NEW b \in Browsers, NEW u \in Users
      PROVE  Approval!GithubCallback(b, u) <=> SignIn!GithubCallback(b, u)
  BY <1>2 DEF Approval!GithubCallback, SignIn!GithubCallback,
     Approval!Admitted, SignIn!Admitted
<1>4. ASSUME NEW b \in Browsers
      PROVE  Approval!Continue(b) <=> SignIn!Continue(b)
  BY DEF Approval!Continue, SignIn!Continue, Approval!Gate, SignIn!Gate,
     Approval!Admitted, SignIn!Admitted, Approval!Respond, SignIn!Respond,
     Approval!AuthStatus, SignIn!AuthStatus, Approval!NotifyAdmins,
     SignIn!NotifyAdmins, Approval!MarkNotified, SignIn!MarkNotified,
     Approval!LoginUser, SignIn!LoginUser, Approval!NoProfile, SignIn!NoProfile
<1>5. ASSUME NEW a \in Admins
      PROVE  Approval!AdminUsers(a) <=> SignIn!AdminUsers(a)
  BY <1>2 DEF Approval!AdminUsers, SignIn!AdminUsers
<1>6. ASSUME NEW a, NEW u, NEW d
      PROVE  Approval!AdminUserDecision(a, u, d) <=> SignIn!AdminUserDecision(a, u, d)
  BY <1>2 DEF Approval!AdminUserDecision, SignIn!AdminUserDecision,
     Approval!Decided, SignIn!Decided
<1>7. Approval!Accounts = SignIn!Accounts /\ Approval!Decisions = SignIn!Decisions
  BY DEF Approval!Accounts, SignIn!Accounts, Approval!Decisions, SignIn!Decisions
<1> QED
  BY <1>1, <1>3, <1>4, <1>5, <1>6, <1>7 DEF Approval!Next, SignIn!Next

LEMMA JobsInit == Init => Jobs!Init
<1>1. Queue!Jobs = Jobs!Jobs /\ Queue!Procs = Jobs!Procs /\ Queue!NoRow = Jobs!NoRow
  BY DEF Queue!Jobs, Jobs!Jobs, Queue!Procs, Jobs!Procs, Queue!NoRow, Jobs!NoRow,
     Queue!Creators, Jobs!Creators, Queue!Executors, Jobs!Executors
<1> QED
  BY <1>1 DEF Init, Queue!Init, Jobs!Init

\* The statements of a submission, in either instance of JobQueue.
LEMMA SameStatements ==
    ASSUME NEW b \in Browsers
    PROVE  /\ Queue!CountActiveJobs(b) <=> Jobs!CountActiveJobs(b)
           /\ Queue!RejectSubmission(b) <=> Jobs!RejectSubmission(b)
           /\ Queue!InsertJob(b) <=> Jobs!InsertJob(b)
           /\ Queue!SelectPositions(b) <=> Jobs!SelectPositions(b)
           /\ (\E j \in Queue!Jobs : Queue!UpdatePosition(b, j))
                 <=> (\E j \in Jobs!Jobs : Jobs!UpdatePosition(b, j))
           /\ Queue!Commit(b) <=> Jobs!Commit(b)
           /\ Queue!AbortDeadlocked(b) <=> Jobs!AbortDeadlocked(b)
<1> USE DEF Queue!Goto, Jobs!Goto, Queue!tables, Jobs!tables
<1>1. /\ Queue!Jobs = Jobs!Jobs /\ Queue!Procs = Jobs!Procs
      /\ Queue!Creators = Jobs!Creators
      /\ Queue!ActiveStatuses = Jobs!ActiveStatuses
  BY DEF Queue!Jobs, Jobs!Jobs, Queue!Procs, Jobs!Procs,
     Queue!Creators, Jobs!Creators, Queue!Executors, Jobs!Executors,
     Queue!ActiveStatuses, Jobs!ActiveStatuses
<1>2. \A S : Queue!Cardinality(S) = Jobs!Cardinality(S)
  BY DEF Queue!Cardinality, Jobs!Cardinality
<1>3. \A p, j : Queue!View(p, j) = Jobs!View(p, j)
  BY DEF Queue!View, Jobs!View
<1>4. \A p, j, row : Queue!Write(p, j, row) <=> Jobs!Write(p, j, row)
  BY DEF Queue!Write, Jobs!Write, Queue!InTransaction, Jobs!InTransaction
<1>5. \A p, j : Queue!Rank(p, j) = Jobs!Rank(p, j)
  BY <1>1, <1>2, <1>3 DEF Queue!Rank, Jobs!Rank
<1>6. Queue!ActiveJobCount = Jobs!ActiveJobCount
  BY <1>1, <1>2 DEF Queue!ActiveJobCount, Jobs!ActiveJobCount, Queue!ActiveJobs,
     Jobs!ActiveJobs
<1>7. Queue!CountActiveJobs(b) <=> Jobs!CountActiveJobs(b)
  BY <1>1, <1>6 DEF Queue!CountActiveJobs, Jobs!CountActiveJobs, Queue!QueueHasRoom,
     Jobs!QueueHasRoom
<1>8. Queue!RejectSubmission(b) <=> Jobs!RejectSubmission(b)
  BY DEF Queue!RejectSubmission, Jobs!RejectSubmission
<1>9. Queue!InsertJob(b) <=> Jobs!InsertJob(b)
  BY <1>1, <1>4 DEF Queue!InsertJob, Jobs!InsertJob
<1>10. Queue!SelectPositions(b) <=> Jobs!SelectPositions(b)
  BY <1>1, <1>3, <1>5 DEF Queue!SelectPositions, Jobs!SelectPositions
<1>11. \A p, j : Queue!NextUpdate(p, j) <=> Jobs!NextUpdate(p, j)
  BY DEF Queue!NextUpdate, Jobs!NextUpdate
<1>12. \A j : Queue!UpdatePosition(b, j) <=> Jobs!UpdatePosition(b, j)
  BY <1>3, <1>4, <1>11 DEF Queue!UpdatePosition, Jobs!UpdatePosition,
     Queue!Gone, Jobs!Gone
<1>13. Queue!Commit(b) <=> Jobs!Commit(b)
  BY <1>1, <1>3 DEF Queue!Commit, Jobs!Commit, Queue!NextOperation,
     Jobs!NextOperation, Queue!KeepsJob, Jobs!KeepsJob
<1>14. \A p : Queue!Rollback(p) <=> Jobs!Rollback(p)
  BY <1>1 DEF Queue!Rollback, Jobs!Rollback
<1>15. \A p, q : Queue!WaitsFor(p, q) <=> Jobs!WaitsFor(p, q)
  BY <1>1, <1>11 DEF Queue!WaitsFor, Jobs!WaitsFor, Queue!Needs, Jobs!Needs,
     Queue!NextStale, Jobs!NextStale
<1>16. Queue!AbortDeadlocked(b) <=> Jobs!AbortDeadlocked(b)
  BY <1>1, <1>14, <1>15 DEF Queue!AbortDeadlocked, Jobs!AbortDeadlocked,
     Queue!Deadlock, Jobs!Deadlock
<1> QED
  BY <1>1, <1>7, <1>8, <1>9, <1>10, <1>12, <1>13, <1>16

\* A statement of a submission is a step of the queue, and on the sign-in side the
\* end of a view or nothing.
LEMMA JobsStep == [Next]_portalVars => [Jobs!Next]_(Jobs!vars)
<1> SUFFICES ASSUME [Next]_portalVars PROVE [Jobs!Next]_(Jobs!vars)
  OBVIOUS
<1>0. Jobs!Procs = Browsers
  BY DEF Jobs!Procs, Jobs!Creators, Jobs!Executors
<1>1. ASSUME NEW b \in Browsers, BeginSubmission(b) PROVE Jobs!Next
  BY <1>0, <1>1, SameStatements DEF BeginSubmission, Jobs!Next
<1>2. ASSUME NEW b \in Browsers, InsertJob(b) PROVE Jobs!Next
  BY <1>0, <1>2, SameStatements DEF InsertJob, Jobs!Next, Jobs!Step
<1>3. ASSUME NEW b \in Browsers, ContinueSubmission(b) PROVE Jobs!Next
  BY <1>0, <1>3, SameStatements DEF ContinueSubmission, Jobs!Next, Jobs!Step
<1>4. ASSUME Elsewhere PROVE UNCHANGED Jobs!vars
  BY <1>4 DEF Elsewhere, queueVars, Jobs!vars
<1>5. ASSUME UNCHANGED portalVars PROVE UNCHANGED Jobs!vars
  BY <1>5 DEF portalVars, queueVars, Jobs!vars
<1> QED
  BY <1>1, <1>2, <1>3, <1>4, <1>5 DEF Next

\* While a process of create_job is under way its browser waits for the view.
AtView == \A b \in Browsers : pc[b] # "idle" => page[b] = "app" /\ session[b].user \in Users

PartsInv == /\ SignIn!TypeOK /\ Jobs!TypeOK
            /\ AtView

\* Where a submission goes on from, and where to.
LEMMA SubmissionUnderWay ==
    ASSUME Jobs!TypeOK, NEW b \in Browsers, ContinueSubmission(b)
    PROVE  /\ pc[b] # "idle" /\ pc'[b] # "insert"
           /\ \A c \in Browsers \ {b} : pc'[c] = pc[c]
<1>0. b \in Jobs!Procs /\ pc \in [Browsers -> Jobs!Statements]
      /\ lock \in [Jobs!Jobs -> Browsers \cup {NoProc}]
  BY DEF Jobs!TypeOK, Jobs!Procs, Jobs!Creators, Jobs!Executors
<1> DEFINE Q == /\ pc[b] # "idle" /\ pc'[b] # "insert"
                /\ \A c \in Browsers \ {b} : pc'[c] = pc[c]
<1>1. ASSUME Jobs!RejectSubmission(b) PROVE Q
  BY <1>0, <1>1 DEF Jobs!RejectSubmission, Jobs!Goto
<1>2. ASSUME Jobs!SelectPositions(b) PROVE Q
  BY <1>0, <1>2 DEF Jobs!SelectPositions, Jobs!Goto
<1>3. ASSUME NEW j \in Jobs!Jobs, Jobs!UpdatePosition(b, j) PROVE Q
  BY <1>0, <1>3 DEF Jobs!UpdatePosition, Jobs!NextUpdate
<1>4. ASSUME Jobs!Commit(b) PROVE Q
  BY <1>0, <1>4 DEF Jobs!Commit, Jobs!NextOperation
<1>5. ASSUME Jobs!AbortDeadlocked(b) PROVE Q
  <2>1. PICK q : Jobs!WaitsFor(b, q)
    BY <1>5 DEF Jobs!AbortDeadlocked, Jobs!Deadlock
  <2>2. pc[b] # "idle"
    BY <2>1 DEF Jobs!WaitsFor, Jobs!Needs, Jobs!NextUpdate, Jobs!NextStale
  <2>3. pc' = [pc EXCEPT ![b] = "idle"]
    BY <1>5 DEF Jobs!AbortDeadlocked, Jobs!Rollback
  <2> QED
    BY <1>0, <2>2, <2>3
<1> QED
  BY <1>1, <1>2, <1>3, <1>4, <1>5, SameStatements DEF ContinueSubmission

LEMMA SignInStep == PartsInv /\ [Next]_portalVars => [SignIn!Next]_(SignIn!vars)
<1> SUFFICES ASSUME PartsInv, [Next]_portalVars PROVE [SignIn!Next]_(SignIn!vars)
  OBVIOUS
<1>1. ASSUME NEW b \in Browsers, BeginSubmission(b) PROVE UNCHANGED SignIn!vars
  BY <1>1 DEF BeginSubmission, approvalVars, SignIn!vars
<1>2. ASSUME NEW b \in Browsers, InsertJob(b) PROVE UNCHANGED SignIn!vars
  BY <1>2 DEF InsertJob, approvalVars, SignIn!vars
<1>3. ASSUME NEW b \in Browsers, ContinueSubmission(b)
      PROVE  [SignIn!Next]_(SignIn!vars)
  <2>1. /\ page' = [page EXCEPT ![b] = IF pc'[b] = "idle" THEN "idle" ELSE @]
        /\ UNCHANGED <<profile, session, account, seen, announced>>
    BY <1>3 DEF ContinueSubmission
  <2>2. pc[b] # "idle"
    BY <1>3, SubmissionUnderWay DEF PartsInv
  <2>5. page = [page EXCEPT ![b] = page[b]]
    BY DEF PartsInv, SignIn!TypeOK
  <2>3. CASE pc'[b] = "idle"
    <3>1. page[b] = "app"
      BY <2>2 DEF PartsInv, AtView
    <3>2. SignIn!Respond(b)
      BY <2>1, <2>3, <3>1 DEF SignIn!Respond, SignIn!Goto
    <3> QED
      BY <3>2 DEF SignIn!Next, SignIn!Continue
  <2>4. CASE pc'[b] # "idle"
    BY <2>1, <2>4, <2>5 DEF SignIn!vars
  <2> QED
    BY <2>3, <2>4
<1>4. ASSUME Elsewhere PROVE SignIn!Next
  BY <1>4, SignInNext DEF Elsewhere
<1>5. ASSUME UNCHANGED portalVars PROVE UNCHANGED SignIn!vars
  BY <1>5 DEF portalVars, approvalVars, SignIn!vars
<1> QED
  BY <1>1, <1>2, <1>3, <1>4, <1>5 DEF Next

\* Sign-in leaves a browser at a view alone, and takes one there only through the
\* gate.
LEMMA ViewStep ==
    ASSUME SignIn!TypeOK, SignIn!Next, NEW b \in Browsers
    PROVE  /\ page[b] = "app" => session'[b] = session[b]
           /\ page[b] # "app" /\ page'[b] = "app" =>
                 session'[b] = session[b] /\ SignIn!Admitted(b)
<1> DEFINE Q == /\ page[b] = "app" => session'[b] = session[b]
                /\ page[b] # "app" /\ page'[b] = "app" =>
                      session'[b] = session[b] /\ SignIn!Admitted(b)
<1>0. b \in DOMAIN page /\ b \in DOMAIN session
      /\ DOMAIN page = Browsers /\ DOMAIN session = Browsers
  BY DEF SignIn!TypeOK
<1> USE DEF SignIn!Goto
<1>1. ASSUME NEW c \in Browsers,
             \/ SignIn!Visit(c) \/ SignIn!Logout(c) \/ SignIn!GithubLogin(c)
             \/ \E u \in Users : SignIn!GithubCallback(c, u)
      PROVE  Q
  BY <1>0, <1>1 DEF SignIn!Visit, SignIn!Logout, SignIn!GithubLogin,
     SignIn!GithubCallback
<1>2. ASSUME NEW c \in Browsers, SignIn!Gate(c) PROVE Q
  BY <1>0, <1>2 DEF SignIn!Gate
<1>3. ASSUME NEW c \in Browsers, SignIn!Respond(c) \/ SignIn!AuthStatus(c)
      PROVE  Q
  BY <1>0, <1>3 DEF SignIn!Respond, SignIn!AuthStatus
<1>4. ASSUME NEW c \in Browsers,
             SignIn!NotifyAdmins(c) \/ SignIn!MarkNotified(c) \/ SignIn!LoginUser(c)
      PROVE  Q
  BY <1>0, <1>4 DEF SignIn!NotifyAdmins, SignIn!MarkNotified, SignIn!LoginUser
<1>5. ASSUME UNCHANGED <<session, page>> PROVE Q
  BY <1>5
<1> QED
  BY <1>1, <1>2, <1>3, <1>4, <1>5
  DEF SignIn!Next, SignIn!Continue, SignIn!AdminUsers, SignIn!AdminUserDecision

\* Inserting is a step of the one browser, from "insert" on.
LEMMA InsertStep ==
    ASSUME Jobs!TypeOK, NEW b \in Browsers, InsertJob(b)
    PROVE  pc[b] = "insert" /\ pc' = [pc EXCEPT ![b] = "refresh"]
  BY SameStatements DEF InsertJob, Jobs!InsertJob, Jobs!Goto

LEMMA BeginStep ==
    ASSUME Jobs!TypeOK, NEW b \in Browsers, BeginSubmission(b)
    PROVE  pc[b] = "idle" /\ pc' = [pc EXCEPT ![b] = "insert"]
  BY SameStatements DEF BeginSubmission, Jobs!CountActiveJobs, Jobs!Goto

LEMMA AtViewStep ==
    ASSUME PartsInv, [Next]_portalVars
    PROVE  AtView'
<1>0. pc \in [Browsers -> Jobs!Statements] /\ DOMAIN page = Browsers
  BY DEF PartsInv, Jobs!TypeOK, SignIn!TypeOK, Jobs!Procs, Jobs!Creators,
     Jobs!Executors
<1>1. ASSUME NEW b \in Browsers, BeginSubmission(b) PROVE AtView'
  <2>1. pc' = [pc EXCEPT ![b] = "insert"]
    BY <1>1, BeginStep DEF PartsInv
  <2> QED
    BY <1>0, <1>1, <2>1 DEF PartsInv, AtView, BeginSubmission, approvalVars
<1>2. ASSUME NEW b \in Browsers, InsertJob(b) PROVE AtView'
  <2>1. pc[b] = "insert" /\ pc' = [pc EXCEPT ![b] = "refresh"]
    BY <1>2, InsertStep DEF PartsInv
  <2> QED
    BY <1>0, <1>2, <2>1 DEF PartsInv, AtView, InsertJob, approvalVars
<1>3. ASSUME NEW b \in Browsers, ContinueSubmission(b) PROVE AtView'
  <2>1. /\ page' = [page EXCEPT ![b] = IF pc'[b] = "idle" THEN "idle" ELSE @]
        /\ session' = session
    BY <1>3 DEF ContinueSubmission
  <2>2. pc[b] # "idle" /\ \A c \in Browsers \ {b} : pc'[c] = pc[c]
    BY <1>3, SubmissionUnderWay DEF PartsInv
  <2>3. ASSUME NEW c \in Browsers, pc'[c] # "idle"
        PROVE  page'[c] = "app" /\ session'[c].user \in Users
    BY <1>0, <2>1, <2>2, <2>3 DEF PartsInv, AtView
  <2> QED
    BY <2>3 DEF AtView
<1>4. ASSUME Elsewhere PROVE AtView'
  <2>1. SignIn!Next /\ pc' = pc
    BY <1>4, SignInNext DEF Elsewhere, queueVars
  <2>2. ASSUME NEW c \in Browsers, pc[c] # "idle"
        PROVE  page'[c] = "app" /\ session'[c].user \in Users
    <3>1. page[c] = "app" /\ session[c].user \in Users
      BY <2>2 DEF PartsInv, AtView
    <3>2. session'[c] = session[c]
      BY <2>1, <3>1, ViewStep DEF PartsInv
    <3> QED
      BY <1>4, <2>2, <3>1, <3>2 DEF Elsewhere
  <2> QED
    BY <2>1, <2>2 DEF AtView
<1>5. ASSUME UNCHANGED portalVars PROVE AtView'
  BY <1>5 DEF portalVars, approvalVars, queueVars, PartsInv, AtView
<1> QED
  BY <1>1, <1>2, <1>3, <1>4, <1>5 DEF Next

\* The queue of the portal behaves as JobQueue with the browsers as its submitters
\* and no executor.
THEOREM QueueKept == Spec => Jobs!Spec
<1> QED
  BY JobsInit, JobsStep, PTL DEF Spec, Jobs!Spec

LEMMA JobsTyped == Spec => []Jobs!TypeOK
<1>1. Jobs!Spec => []Jobs!TypeOK
  BY JobsAssumption, Jobs!TypeCorrect
<1> QED
  BY <1>1, QueueKept, PTL

\* The inductive invariant of the composition, beside the types of the queue.
JointInv == SignIn!IInv /\ AtView

LEMMA JointInit == Init => JointInv
<1> SUFFICES ASSUME Init PROVE JointInv
  OBVIOUS
<1>1. SignIn!IInv
  BY SignInAssumption, SignInInit, SignIn!InvInit
<1>2. \A b \in Browsers : pc[b] = "idle"
  BY JobsInit DEF Jobs!Init, Jobs!Procs, Jobs!Creators, Jobs!Executors
<1> QED
  BY <1>1, <1>2 DEF JointInv, AtView

LEMMA JointParts == JointInv /\ Jobs!TypeOK => PartsInv
  BY DEF JointInv, PartsInv, SignIn!IInv

LEMMA JointStep == JointInv /\ Jobs!TypeOK /\ [Next]_portalVars => JointInv'
<1> SUFFICES ASSUME JointInv, Jobs!TypeOK, [Next]_portalVars PROVE JointInv'
  OBVIOUS
<1>1. PartsInv
  BY JointParts
<1>2. [SignIn!Next]_(SignIn!vars)
  BY <1>1, SignInStep
<1>3. SignIn!IInv'
  BY <1>2, SignInAssumption, SignIn!InvStep DEF JointInv
<1> QED
  BY <1>1, <1>3, AtViewStep DEF JointInv

\* Both parts keep their types, and a submission under way has its view.
LEMMA PartsHold == Spec => []PartsInv
<1>1. Spec => []JointInv
  BY JointInit, JointStep, JobsTyped, PTL DEF Spec
<1> QED
  BY <1>1, JobsTyped, JointParts, PTL

\* Sign-in and approval behave in the portal as Approval specifies.
THEOREM ApprovalKept == Spec => SignIn!Spec
<1> QED
  BY PartsHold, SignInInit, SignInStep, PTL DEF Spec, SignIn!Spec

\* The queue passes its limit by less than the number of browsers, whoever comes
\* and goes (create_job).
THEOREM PortalBounded == Spec => []Jobs!QueueBound
<1>1. Jobs!Spec => []Jobs!QueueBound
  BY JobsAssumption, Jobs!QueueBounded
<1> QED
  BY <1>1, QueueKept, PTL

\* Administrators know of every user who waits (notify_admins_new_pending_user),
\* whatever the portal does besides.
THEOREM PortalAnnounces == Spec => []SignIn!PendingIsAnnounced
<1>1. SignIn!Spec => []SignIn!PendingIsAnnounced
  BY SignInAssumption, SignIn!Announced
<1> QED
  BY <1>1, ApprovalKept, PTL

\* With submissions under way, a user's standing is decided by administrators alone and
\* the application opens to whom they approved, as Membership promises.
THEOREM PortalMembership == Spec => SignIn!ImplementsMembership
<1>1. SignIn!Spec => SignIn!ImplementsMembership
  BY SignInAssumption, SignIn!RefinesMembership
<1> QED
  BY <1>1, ApprovalKept, PTL

\* The positions users of the portal see promise no shorter queue than there is, but
\* for the submissions of the other browsers.
THEOREM PortalPromises == Spec => []Jobs!NeverOptimistic
<1>1. Jobs!Spec => []Jobs!NeverOptimistic
  BY JobsAssumption, Jobs!PromisesHold
<1> QED
  BY <1>1, QueueKept, PTL

\* Requests alone never wait for each other in a circle (refresh_queue_positions
\* updates its rows in one order): PostgreSQL has none of them to abort.
THEOREM RequestsNeverDeadlock ==
    Spec => [](\A S \in SUBSET Browsers : S # {} => ~Jobs!Deadlock(S))
<1> DEFINE Circles == \A S \in SUBSET Jobs!Procs :
      S # {} /\ Jobs!Deadlock(S) => S \cap Jobs!Executors # {}
<1>1. Jobs!Spec => []Circles
  BY JobsAssumption, Jobs!DeadlocksTakeExecutors
<1>2. Jobs!Procs = Browsers /\ Jobs!Executors = {}
  BY DEF Jobs!Executors, Jobs!Procs, Jobs!Creators
<1>3. Circles => \A S \in SUBSET Browsers : S # {} => ~Jobs!Deadlock(S)
  BY <1>2
<1> QED
  BY <1>1, <1>3, QueueKept, PTL

-----------------------------------------------------------------------------
(* Submissions after a withdrawn approval                                  *)

\* The requests of u that are past the gate and have inserted nothing yet.
Past(u) == {b \in Browsers : /\ page[b] = "app" /\ session[b].user = u
                             /\ pc[b] \in {"idle", "insert"}}

LateInv ==
    /\ late \in [Users -> Nat]
    /\ \A u \in Users :
          IF Approved(u) THEN late[u] = 0
          ELSE late[u] + Cardinality(Past(u)) <= Cardinality(Browsers)

LEMMA PastFinite ==
    ASSUME NEW S \in SUBSET Browsers
    PROVE  IsFiniteSet(S) /\ Cardinality(S) \in Nat
           /\ Cardinality(S) <= Cardinality(Browsers) /\ Cardinality(Browsers) \in Nat
  BY FS_Subset, FS_CardinalityType, PortalAssumption

\* A user who is not approved brings no further request past the gate, and one
\* that inserts is past no longer.
LEMMA PastStep ==
    ASSUME PartsInv, [Next]_portalVars, NEW u \in Users, ~Approved(u)
    PROVE  /\ Past(u)' \subseteq Past(u)
           /\ \A b \in Browsers : InsertJob(b) /\ session[b].user = u =>
                 b \in Past(u) /\ b \notin Past(u)'
<1>0. pc \in [Browsers -> Jobs!Statements] /\ DOMAIN page = Browsers
  BY DEF PartsInv, Jobs!TypeOK, SignIn!TypeOK, Jobs!Procs, Jobs!Creators,
     Jobs!Executors
<1>1. \A b \in Browsers : InsertJob(b) /\ session[b].user = u =>
         b \in Past(u) /\ b \notin Past(u)'
  <2> SUFFICES ASSUME NEW b \in Browsers, InsertJob(b), session[b].user = u
               PROVE  b \in Past(u) /\ b \notin Past(u)'
    OBVIOUS
  <2>1. pc[b] = "insert" /\ pc'[b] = "refresh"
    BY <1>0, InsertStep DEF PartsInv
  <2>2. page[b] = "app"
    BY <2>1 DEF PartsInv, AtView
  <2> QED
    BY <2>1, <2>2 DEF Past
<1>2. ASSUME NEW b \in Browsers, BeginSubmission(b) PROVE Past(u)' \subseteq Past(u)
  <2>1. pc[b] = "idle" /\ pc' = [pc EXCEPT ![b] = "insert"]
    BY <1>2, BeginStep DEF PartsInv
  <2>2. UNCHANGED <<page, session>>
    BY <1>2 DEF BeginSubmission, approvalVars
  <2> QED
    BY <1>0, <2>1, <2>2 DEF Past
<1>3. ASSUME NEW b \in Browsers, InsertJob(b) PROVE Past(u)' \subseteq Past(u)
  <2>1. pc[b] = "insert" /\ pc' = [pc EXCEPT ![b] = "refresh"]
    BY <1>3, InsertStep DEF PartsInv
  <2>2. UNCHANGED <<page, session>>
    BY <1>3 DEF InsertJob, approvalVars
  <2> QED
    BY <1>0, <2>1, <2>2 DEF Past
<1>4. ASSUME NEW b \in Browsers, ContinueSubmission(b)
      PROVE  Past(u)' \subseteq Past(u)
  <2>1. /\ page' = [page EXCEPT ![b] = IF pc'[b] = "idle" THEN "idle" ELSE @]
        /\ session' = session
    BY <1>4 DEF ContinueSubmission
  <2>2. pc'[b] # "insert" /\ \A c \in Browsers \ {b} : pc'[c] = pc[c]
    BY <1>4, SubmissionUnderWay DEF PartsInv
  <2>3. b \notin Past(u)'
    BY <1>0, <2>1, <2>2 DEF Past
  <2>4. \A c \in Browsers \ {b} : c \in Past(u)' => c \in Past(u)
    BY <1>0, <2>1, <2>2 DEF Past
  <2>5. Past(u)' \subseteq Browsers
    BY DEF Past
  <2> QED
    BY <2>3, <2>4, <2>5
<1>5. ASSUME Elsewhere PROVE Past(u)' \subseteq Past(u)
  <2>1. SignIn!Next /\ pc' = pc
    BY <1>5, SignInNext DEF Elsewhere, queueVars
  <2>2. ASSUME NEW b \in Browsers, page'[b] = "app", session'[b].user = u
        PROVE  page[b] = "app" /\ session[b] = session'[b]
    <3>1. CASE page[b] = "app"
      BY <2>1, <3>1, ViewStep DEF PartsInv
    <3>2. CASE page[b] # "app"
      <4>1. session'[b] = session[b] /\ SignIn!Admitted(b)
        BY <2>1, <2>2, <3>2, ViewStep DEF PartsInv
      <4>2. u # NoUser
        BY PortalAssumption
      <4> QED
        BY <2>2, <4>1, <4>2 DEF SignIn!Admitted, Approved
    <3> QED
      BY <3>1, <3>2
  <2> QED
    BY <2>1, <2>2 DEF Past
<1>6. ASSUME UNCHANGED portalVars PROVE Past(u)' \subseteq Past(u)
  BY <1>6 DEF portalVars, approvalVars, queueVars, Past
<1> QED
  BY <1>1, <1>2, <1>3, <1>4, <1>5, <1>6 DEF Next

LEMMA LateInit == Init => LateInv
<1> SUFFICES ASSUME Init PROVE LateInv
  OBVIOUS
<1>1. \A u \in Users : Past(u) \in SUBSET Browsers
  BY DEF Past
<1>2. late = [u \in Users |-> 0]
  BY DEF Init
<1>3. \A u \in Users : late[u] = 0
                       /\ Cardinality(Past(u)) \in Nat /\ Cardinality(Browsers) \in Nat
                       /\ Cardinality(Past(u)) <= Cardinality(Browsers)
  BY <1>1, <1>2, PastFinite
<1> QED
  BY <1>2, <1>3 DEF LateInv

LEMMA LateStep == PartsInv /\ LateInv /\ [Next]_portalVars => LateInv'
<1> SUFFICES ASSUME PartsInv, LateInv, [Next]_portalVars PROVE LateInv'
  OBVIOUS
<1> DEFINE Kept == profile' = profile /\ late' = late
           Inserted(b) == /\ InsertJob(b) /\ profile' = profile
                          /\ session[b].user \in Users
                          /\ late' = [late EXCEPT ![session[b].user] =
                                IF Approved(session[b].user) THEN 0 ELSE @ + 1]
           Reset == late' = [u \in Users |-> IF Approved(u)' THEN 0 ELSE late[u]]
<1>1. Kept \/ (\E b \in Browsers : Inserted(b)) \/ Reset
  <2>1. ASSUME NEW b \in Browsers, BeginSubmission(b) \/ ContinueSubmission(b)
        PROVE  Kept
    BY <2>1 DEF BeginSubmission, ContinueSubmission, approvalVars
  <2>2. ASSUME NEW b \in Browsers, InsertJob(b) PROVE Inserted(b)
    <3>1. pc[b] = "insert"
      BY <2>2, InsertStep DEF PartsInv
    <3>2. session[b].user \in Users
      BY <3>1 DEF PartsInv, AtView
    <3> QED
      BY <2>2, <3>2 DEF InsertJob, approvalVars
  <2>3. ASSUME Elsewhere PROVE Reset
    BY <2>3 DEF Elsewhere
  <2>4. ASSUME UNCHANGED portalVars PROVE Kept
    BY <2>4 DEF portalVars, approvalVars
  <2> QED
    BY <2>1, <2>2, <2>3, <2>4 DEF Next
<1> HIDE DEF Kept, Inserted, Reset
<1>2. late' \in [Users -> Nat]
  BY <1>1 DEF Kept, Inserted, Reset, LateInv
<1>3. ASSUME NEW u \in Users
      PROVE  IF Approved(u)' THEN late'[u] = 0
             ELSE late'[u] + Cardinality(Past(u)') <= Cardinality(Browsers)
  <2> DEFINE P == Past(u)
             Q == Past(u)'
             n == Cardinality(Browsers)
  <2>1. P \in SUBSET Browsers /\ Q \in SUBSET Browsers
    BY DEF Past
  <2>2. /\ IsFiniteSet(P) /\ Cardinality(P) \in Nat /\ n \in Nat
        /\ IsFiniteSet(Q) /\ Cardinality(Q) \in Nat /\ Cardinality(Q) <= n
    BY <2>1, PastFinite
  <2>3. late[u] \in Nat /\ IF Approved(u) THEN late[u] = 0
                           ELSE late[u] + Cardinality(P) <= n
    BY DEF LateInv
  <2>4. ~Approved(u) => /\ Q \subseteq P
                        /\ \A b \in Browsers : InsertJob(b) /\ session[b].user = u =>
                              b \in P /\ b \notin Q
    BY PastStep
  <2> HIDE DEF P, Q, n
  <2>5. ~Approved(u) => Cardinality(Q) <= Cardinality(P)
    BY <2>2, <2>4, FS_Subset
  <2>6. CASE Kept
    <3>1. Approved(u)' = Approved(u) /\ late'[u] = late[u]
      BY <2>6 DEF Kept, Approved
    <3> QED
      BY <2>2, <2>3, <2>5, <3>1 DEF Q, n
  <2>7. CASE Reset
    <3>1. late'[u] = IF Approved(u)' THEN 0 ELSE late[u]
      BY <2>7 DEF Reset
    <3> QED
      BY <2>2, <2>3, <2>5, <3>1 DEF Q, n
  <2>8. ASSUME NEW b \in Browsers, Inserted(b), session[b].user # u
        PROVE  Approved(u)' = Approved(u) /\ late'[u] = late[u]
    BY <2>8 DEF Inserted, Approved, LateInv
  <2>9. ASSUME NEW b \in Browsers, Inserted(b), session[b].user = u
        PROVE  IF Approved(u)' THEN late'[u] = 0
               ELSE late'[u] + Cardinality(Q) <= n
    <3>1. /\ Approved(u)' = Approved(u)
          /\ late'[u] = IF Approved(u) THEN 0 ELSE late[u] + 1
      BY <2>9 DEF Inserted, Approved, LateInv
    <3>2. ASSUME ~Approved(u) PROVE Cardinality(Q) <= Cardinality(P) - 1
      <4>1. b \in P /\ Q \subseteq P \ {b}
        BY <2>4, <2>9, <3>2 DEF Inserted
      <4>2. IsFiniteSet(P \ {b}) /\ Cardinality(P \ {b}) = Cardinality(P) - 1
        BY <2>2, <4>1, FS_RemoveElement
      <4> QED
        BY <4>1, <4>2, FS_Subset
    <3> QED
      BY <2>2, <2>3, <3>1, <3>2
  <2> QED
    BY <1>1, <2>2, <2>3, <2>5, <2>6, <2>7, <2>8, <2>9 DEF Q, n
<1> QED
  BY <1>2, <1>3 DEF LateInv

\* A user whose approval was withdrawn submits at most what was past the gate by
\* then (submit_job behind ApprovalGateMiddleware).
THEOREM LateBounded == Spec => []LateSubmissions
<1>1. PartsInv /\ LateInv => LateSubmissions
  <2> SUFFICES ASSUME LateInv, NEW u \in Users
               PROVE  late[u] <= Cardinality(Browsers)
    BY DEF LateSubmissions
  <2>1. Past(u) \in SUBSET Browsers
    BY DEF Past
  <2>2. Cardinality(Past(u)) \in Nat /\ Cardinality(Browsers) \in Nat
    BY <2>1, PastFinite
  <2> QED
    BY <2>2 DEF LateInv
<1>2. Spec => []LateInv
  BY LateInit, LateStep, PartsHold, PTL DEF Spec
<1> QED
  BY <1>1, <1>2, PartsHold, PTL
=============================================================================
