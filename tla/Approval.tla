------------------------------ MODULE Approval ------------------------------
(***************************************************************************)
(* Who may use the portal: GitHub sign-in (portal/auth.py), the approval   *)
(* gate (portal/middleware.py), the account status page, and the decisions *)
(* of administrators (portal/views.py, portal/notifications.py).           *)
(*                                                                         *)
(* A browser is one Django session and sends one request at a time, whose  *)
(* redirects it follows; browsers, also of one user, and administrators    *)
(* are concurrent.  One action is one statement on portal_userprofile or   *)
(* one mail, with the code around it; the session is the browser's own.    *)
(*                                                                         *)
(* Administrators are staff accounts, which the gate lets through and      *)
(* which nothing in the code creates or demotes.                           *)
(***************************************************************************)
EXTENDS Naturals

CONSTANTS
    Users,        \* GitHub accounts
    Admins,       \* staff accounts
    AdminEmails,  \* settings.ADMIN_EMAILS
    Browsers,     \* sessions
    NoUser        \* nobody signed in

Accounts == Users \cup Admins

ASSUME AccountsAssumption == /\ Users \cap Admins = {}
                             /\ NoUser \notin Accounts
\* README.md: the minimum entries for login name ADMIN_EMAILS.
ASSUME RecipientsAssumption == AdminEmails # {}

VARIABLES
    profile,    \* portal_userprofile, one row per account
    session,    \* the session of each browser
    pc,         \* where the request of each browser is
    account,    \* callback: the GitHub account signing in
    seen,       \* callback: the profile as sync_github_user returned it
    announced   \* users whose sign-in was mailed to the administrators

vars == <<profile, session, pc, account, seen, announced>>

ApprovalStates == {"pending", "approved", "rejected"}
Decisions == {"approved", "rejected"}

\* Timestamps are TRUE once set; "none" is a row that does not exist.
UserProfile == [approval_state : ApprovalStates \cup {"none"},
                pending_notified_at : BOOLEAN, decided_at : BOOLEAN,
                approved_at : BOOLEAN, rejected_at : BOOLEAN]
NoProfile == [approval_state |-> "none",
              pending_notified_at |-> FALSE, decided_at |-> FALSE,
              approved_at |-> FALSE, rejected_at |-> FALSE]

\* user, portal_github_login_approved, and whether github_oauth_state is set.
Session == [user : Users \cup {NoUser}, approved : BOOLEAN, state : BOOLEAN]
SignedOut == [user |-> NoUser, approved |-> FALSE, state |-> FALSE]

-----------------------------------------------------------------------------
Goto(b, label) == pc' = [pc EXCEPT ![b] = label]

\* get_or_create_profile_for_user: a new row is approved for staff only.
GetOrCreateProfile(u) ==
    IF profile[u].approval_state # "none" THEN profile[u]
    ELSE [NoProfile EXCEPT !.approval_state =
            IF u \in Admins THEN "approved" ELSE "pending"]

\* profile_has_app_access, for whoever is signed in.
Admitted_TrustsSession(b) == session[b].user # NoUser => session[b].approved
Admitted(b) ==
    session[b].user # NoUser =>
        /\ profile[session[b].user].approval_state = "approved"
        /\ session[b].approved

-----------------------------------------------------------------------------
(* Pages behind the gate, and the account status page                      *)

Visit(b) ==
    /\ pc[b] = "idle"
    /\ Goto(b, "visit")
    /\ UNCHANGED <<profile, session, account, seen, announced>>

\* ApprovalGateMiddleware: the view, or a redirect to the status page.  The
\* GitHub views are behind it too: their paths are not its allowed_prefixes.
Gate(b) ==
    /\ pc[b] = "visit"
    /\ Goto(b, IF Admitted(b) THEN "app" ELSE "status")
    /\ UNCHANGED <<profile, session, account, seen, announced>>

\* The view itself; one that needs a user redirects when there is none.
Respond(b) ==
    /\ pc[b] = "app"
    /\ Goto(b, "idle")
    /\ UNCHANGED <<profile, session, account, seen, announced>>

AuthStatus_OnlyDemotes(b) ==
    /\ pc[b] = "status"
    /\ LET approved == profile[session[b].user].approval_state = "approved"
       IN session' = [session EXCEPT ![b].approved = @ /\ approved]
    /\ Goto(b, "idle")
    /\ UNCHANGED <<profile, account, seen, announced>>
\* auth_status: copies the state of the row into the session; a user it finds
\* newly approved is sent to the home page.
AuthStatus(b) ==
    /\ pc[b] = "status"
    /\ LET approved == profile[session[b].user].approval_state = "approved"
       IN /\ session' = [session EXCEPT ![b].approved = approved]
          /\ Goto(b, IF approved /\ ~session[b].approved THEN "visit" ELSE "idle")
    /\ UNCHANGED <<profile, account, seen, announced>>

Logout(b) ==
    /\ pc[b] = "idle"
    /\ session' = [session EXCEPT ![b] = SignedOut]
    /\ UNCHANGED <<profile, pc, account, seen, announced>>

-----------------------------------------------------------------------------
(* Signing in with GitHub                                                  *)

\* github_login: remember a fresh state and go to GitHub.
GithubLogin(b) ==
    /\ pc[b] = "idle" /\ Admitted(b)
    /\ session' = [session EXCEPT ![b].state = TRUE]
    /\ UNCHANGED <<profile, pc, account, seen, announced>>

\* github_callback up to sync_github_user: GitHub vouches for u and the state is
\* the remembered one.  A callback that fails any test, or is turned away by the
\* gate, changes nothing.
GithubCallback(b, u) ==
    /\ pc[b] = "idle" /\ Admitted(b)
    /\ session[b].state
    /\ LET p == GetOrCreateProfile(u)
       IN /\ profile' = [profile EXCEPT ![u] = p]
          /\ seen' = [seen EXCEPT ![b] = p]
          /\ Goto(b, IF p.approval_state = "pending" /\ ~p.pending_notified_at
                     THEN "notify" ELSE "login")
    /\ account' = [account EXCEPT ![b] = u]
    /\ UNCHANGED <<session, announced>>

NotifyAdmins_Silent(b) ==
    /\ pc[b] = "notify"
    /\ announced' \in {announced, announced \cup {account[b]}}
    /\ Goto(b, "mark")
    /\ UNCHANGED <<profile, session, account, seen>>
\* notify_admins_new_pending_user: the mail goes out to every address, to none if
\* there is none, or send_mail raises and the request ends there.
NotifyAdmins(b) ==
    /\ pc[b] = "notify"
    /\ \/ /\ announced' = announced \cup {account[b] : e \in AdminEmails}
          /\ Goto(b, "mark")
          /\ UNCHANGED <<account, seen>>
       \/ /\ AdminEmails # {}
          /\ Goto(b, "idle")
          /\ account' = [account EXCEPT ![b] = NoUser]
          /\ seen' = [seen EXCEPT ![b] = NoProfile]
          /\ UNCHANGED announced
    /\ UNCHANGED <<profile, session>>

MarkNotified_SavesAll(b) ==
    /\ pc[b] = "mark"
    /\ profile' = [profile EXCEPT ![account[b]] =
                     [seen[b] EXCEPT !.pending_notified_at = TRUE]]
    /\ Goto(b, "login")
    /\ UNCHANGED <<session, account, seen, announced>>
\* save(update_fields=["pending_notified_at"]): of the profile read before the
\* mail, only this field is written back.
MarkNotified(b) ==
    /\ pc[b] = "mark"
    /\ profile' = [profile EXCEPT ![account[b]].pending_notified_at = TRUE]
    /\ Goto(b, "login")
    /\ UNCHANGED <<session, account, seen, announced>>

\* login_user, with the approval read before the mail, and the redirect.
LoginUser(b) ==
    /\ pc[b] = "login"
    /\ LET approved == seen[b].approval_state = "approved"
       IN /\ session' = [session EXCEPT ![b] =
                [user |-> account[b], approved |-> approved, state |-> FALSE]]
          /\ Goto(b, IF approved THEN "visit" ELSE "status")
    /\ account' = [account EXCEPT ![b] = NoUser]
    /\ seen' = [seen EXCEPT ![b] = NoProfile]
    /\ UNCHANGED <<profile, announced>>

-----------------------------------------------------------------------------
(* Administrators                                                          *)

\* The user list; like every administrator's page it creates the row of a staff
\* account that has none.
AdminUsers(a) ==
    /\ profile' = [profile EXCEPT ![a] = GetOrCreateProfile(a)]
    /\ UNCHANGED <<session, pc, account, seen, announced>>

Decided_UrlWord(p, decision) ==
    [p EXCEPT !.approval_state = IF decision = "approved" THEN "approve" ELSE "reject",
              !.decided_at = TRUE,
              !.approved_at = decision = "approved",
              !.rejected_at = decision = "rejected"]
Decided_KeepsDates(p, decision) ==
    [p EXCEPT !.approval_state = decision, !.decided_at = TRUE,
              !.approved_at = @ \/ decision = "approved",
              !.rejected_at = @ \/ decision = "rejected"]
Decided(p, decision) ==
    [p EXCEPT !.approval_state = decision, !.decided_at = TRUE,
              !.approved_at = decision = "approved",
              !.rejected_at = decision = "rejected"]

\* admin_user_decision: save the four fields, whatever they were.  The mail to the
\* user follows; whether it is sent or raises, the decision stays.
AdminUserDecision(a, u, decision) ==
    /\ profile[u].approval_state # "none"
    /\ profile' = [profile EXCEPT ![a] = GetOrCreateProfile(a),
                                  ![u] = Decided(profile[u], decision)]
    /\ UNCHANGED <<session, pc, account, seen, announced>>

-----------------------------------------------------------------------------
Init ==
    /\ profile = [u \in Accounts |-> NoProfile]
    /\ session = [b \in Browsers |-> SignedOut]
    /\ pc = [b \in Browsers |-> "idle"]
    /\ account = [b \in Browsers |-> NoUser]
    /\ seen = [b \in Browsers |-> NoProfile]
    /\ announced = {}

\* A request in progress goes on.
Continue(b) ==
    \/ Gate(b)
    \/ Respond(b)
    \/ AuthStatus(b)
    \/ NotifyAdmins(b)
    \/ MarkNotified(b)
    \/ LoginUser(b)

Next ==
    \/ \E b \in Browsers :
          \/ Visit(b)
          \/ Logout(b)
          \/ GithubLogin(b)
          \/ \E u \in Users : GithubCallback(b, u)
          \/ Continue(b)
    \/ \E a \in Admins :
          \/ AdminUsers(a)
          \/ \E u \in Accounts, d \in Decisions : AdminUserDecision(a, u, d)

Spec == Init /\ [][Next]_vars

\* The server answers requests, and browsers follow redirects.
FairSpec == Spec /\ \A b \in Browsers : WF_vars(Continue(b))

-----------------------------------------------------------------------------
(* Properties                                                              *)

\* Every variable has its type (UserProfile in portal/models.py, the session
\* keys of portal/auth.py).
TypeOK ==
    /\ profile \in [Accounts -> UserProfile]
    /\ session \in [Browsers -> Session]
    /\ pc \in [Browsers ->
          {"idle", "visit", "app", "status", "notify", "mark", "login"}]
    /\ account \in [Browsers -> Users \cup {NoUser}]
    /\ seen \in [Browsers -> UserProfile]
    /\ announced \in SUBSET Users

\* Only a decision changes the approval state of an existing profile: a sign-in
\* that read the profile before the decision does not write it back.
DecisionsStick == [][\A u \in Accounts :
    \/ profile[u].approval_state = "none"
    \/ profile'[u].approval_state = profile[u].approval_state
    \/ \E a \in Admins, d \in Decisions : AdminUserDecision(a, u, d)]_vars

\* The dates of a profile tell its last decision and no other, in whatever order
\* administrators decide (admin_user_decision).
DatesTellState == \A u \in Accounts :
    profile[u].decided_at =>
        /\ profile[u].approved_at <=> profile[u].approval_state = "approved"
        /\ profile[u].rejected_at <=> profile[u].approval_state = "rejected"

\* Whoever is signed in and waits for approval, the administrators were told of:
\* a mail that fails keeps the user out until a later sign-in sends it.
PendingIsAnnounced == \A b \in Browsers :
    LET u == session[b].user
    IN u # NoUser /\ profile[u].approval_state = "pending" => u \in announced

\* Sign-in and approval implement their promise: a callback in several statements,
\* with a mail in the middle and a decision anywhere, is one sign-in, allowed when it
\* is done (github_callback, ApprovalGateMiddleware, admin_user_decision).
Standing == [u \in Accounts |-> profile[u].approval_state]
SignedIn == [b \in Browsers |-> session[b].user]
InApplication == {b \in Browsers : pc[b] = "app"}

Promise == INSTANCE Membership
           WITH standing <- Standing, told <- announced,
                user <- SignedIn, inside <- InApplication

ImplementsMembership == Promise!Spec

\* A visit of an approved user ends in the application, whatever the session
\* said: no redirect loop and no new sign-in.
ApprovedGetIn == \A b \in Browsers, u \in Users :
    pc[b] = "visit" /\ session[b].user = u /\ profile[u].approval_state = "approved"
        ~> pc[b] = "app" \/ profile[u].approval_state # "approved"
=============================================================================
