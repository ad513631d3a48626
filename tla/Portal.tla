------------------------------- MODULE Portal -------------------------------
(***************************************************************************)
(* Sign-in, approval and submission together: the requests of Approval     *)
(* that pass the gate are the web processes of JobQueue.  submit_job       *)
(* (portal/views.py) runs create_job for the user of the session, a while  *)
(* after the gate (portal/middleware.py) has looked at the profile.        *)
(* Workers and smoke commands take no part here.                           *)
(***************************************************************************)
EXTENDS Naturals, FiniteSets

CONSTANTS Users, Admins, AdminEmails, Browsers, NoUser,  \* as in Approval
          MaxJobs, JobQueueLimit, NoProc                 \* as in JobQueue

ASSUME PortalAssumption ==
    /\ Users \cap Admins = {} /\ NoUser \notin Users \cup Admins
    /\ AdminEmails # {}
    /\ Browsers # {} /\ IsFiniteSet(Browsers) /\ NoProc \notin Browsers
    /\ MaxJobs \in Nat \ {0} /\ JobQueueLimit \in Nat

VARIABLES profile, session, page, account, seen, announced,
          db, new, lock, art, nextJob, crashes,
          pc, op, job, depth, found, todo, result,
          late    \* jobs a user has submitted since an approval was withdrawn

Approval == INSTANCE Approval WITH pc <- page
Queue    == INSTANCE JobQueue
            WITH Web <- Browsers, Workers <- {}, Once <- {}, Smokes <- {},
                 Deletable <- {}, MaxCrashes <- 0

approvalVars == <<profile, session, page, account, seen, announced>>
queueVars == <<db, new, lock, art, nextJob, crashes,
               pc, op, job, depth, found, todo, result>>
portalVars == <<approvalVars, queueVars, late>>

Init == /\ Approval!Init
        /\ Queue!Init
        /\ late = [u \in Users |-> 0]

Approved(u) == profile[u].approval_state = "approved"

\* submit_job: in a view behind the gate, for a user who is signed in
\* (login_required), create_job counts the active jobs.
BeginSubmission(b) ==
    /\ page[b] = "app" /\ session[b].user \in Users
    /\ Queue!CountActiveJobs(b)
    /\ UNCHANGED <<approvalVars, late>>

\* The row gets request.user as its owner.
InsertJob(b) ==
    /\ Queue!InsertJob(b)
    /\ late' = [late EXCEPT ![session[b].user] = IF Approved(session[b].user) THEN 0
                                                ELSE @ + 1]
    /\ UNCHANGED approvalVars

\* The other statements of create_job; once it is over the view redirects.
ContinueSubmission(b) ==
    /\ \/ Queue!RejectSubmission(b)
       \/ Queue!SelectPositions(b)
       \/ \E j \in Queue!Jobs : Queue!UpdatePosition(b, j)
       \/ Queue!Commit(b)
       \/ Queue!AbortDeadlocked(b)
    /\ page' = [page EXCEPT ![b] = IF pc'[b] = "idle" THEN "idle" ELSE @]
    /\ UNCHANGED <<profile, session, account, seen, announced, late>>

\* A request that submits nothing, a sign-in, or an administrator.
Elsewhere ==
    /\ Approval!Next
    /\ \A b \in Browsers : pc[b] # "idle" => page'[b] = page[b]
    /\ late' = [u \in Users |-> IF Approved(u)' THEN 0 ELSE late[u]]
    /\ UNCHANGED queueVars

Next == \/ \E b \in Browsers : \/ BeginSubmission(b)
                               \/ InsertJob(b)
                               \/ ContinueSubmission(b)
        \/ Elsewhere

Spec == Init /\ [][Next]_portalVars

-----------------------------------------------------------------------------
(* Properties                                                              *)

\* A user whose approval was withdrawn submits at most what was past the gate by
\* then, one job for each of the browsers, however often sessions come back.
LateSubmissions == \A u \in Users : late[u] <= Cardinality(Browsers)
=============================================================================
