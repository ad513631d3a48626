--------------------------- MODULE ApprovalProofs ---------------------------
(***************************************************************************)
(* Proofs about Approval, for any accounts, administrators and browsers.   *)
(***************************************************************************)
EXTENDS Approval, TLAPS

\* A mark on the profile means the administrators' mail has gone out.
MarkInv == \A u \in Users : profile[u].pending_notified_at => u \in announced

\* A sign-in under way is that of a GitHub account with a profile, and gets past
\* its mail only with the mail sent or the account no longer pending.
SignInInv == \A b \in Browsers :
    pc[b] \in {"notify", "mark", "login"} =>
        /\ account[b] \in Users
        /\ profile[account[b]].approval_state # "none"
        /\ pc[b] = "mark" => account[b] \in announced
        /\ pc[b] = "login" /\ profile[account[b]].approval_state = "pending"
              => account[b] \in announced

\* Whoever is signed in has a profile.
SignedInInv == \A b \in Browsers :
    session[b].user # NoUser => profile[session[b].user].approval_state # "none"

IInv == /\ TypeOK
        /\ DatesTellState
        /\ MarkInv
        /\ SignInInv
        /\ SignedInInv
        /\ PendingIsAnnounced

\* The profile get_or_create_profile_for_user returns has its type and exists; it
\* is the one there was, or a new one nobody has decided on or announced.
LEMMA GetOrCreateType ==
    ASSUME TypeOK, NEW u \in Accounts
    PROVE  /\ GetOrCreateProfile(u) \in UserProfile
           /\ GetOrCreateProfile(u).approval_state # "none"
           /\ \/ GetOrCreateProfile(u) = profile[u]
              \/ /\ profile[u].approval_state = "none"
                 /\ ~GetOrCreateProfile(u).decided_at
                 /\ ~GetOrCreateProfile(u).pending_notified_at
<1>1. CASE profile[u].approval_state # "none"
  BY <1>1 DEF TypeOK, GetOrCreateProfile
<1>2. CASE profile[u].approval_state = "none"
  BY <1>2 DEF TypeOK, GetOrCreateProfile, UserProfile, NoProfile, ApprovalStates
<1> QED BY <1>1, <1>2

\* A decision keeps the type of a profile and dates it by what was decided.
LEMMA DecidedType ==
    ASSUME NEW p \in UserProfile, NEW d \in Decisions
    PROVE  /\ Decided(p, d) \in UserProfile
           /\ Decided(p, d).approval_state = d
           /\ Decided(p, d).pending_notified_at = p.pending_notified_at
           /\ Decided(p, d).approved_at <=> d = "approved"
           /\ Decided(p, d).rejected_at <=> d = "rejected"
<1>1. CASE d = "approved"
  <2>1. Decided(p, d) = [p EXCEPT !.approval_state = "approved", !.decided_at = TRUE,
                                  !.approved_at = TRUE, !.rejected_at = FALSE]
    BY <1>1, Zenon DEF Decided
  <2> QED BY <1>1, <2>1 DEF UserProfile, ApprovalStates
<1>2. CASE d = "rejected"
  <2>1. Decided(p, d) = [p EXCEPT !.approval_state = "rejected", !.decided_at = TRUE,
                                  !.approved_at = FALSE, !.rejected_at = TRUE]
    BY <1>2, Zenon DEF Decided
  <2> QED BY <1>2, <2>1 DEF UserProfile, ApprovalStates
<1> QED BY <1>1, <1>2 DEF Decisions

\* The portal starts with nobody known and nobody signed in.
LEMMA InvInit == Init => IInv
<1> SUFFICES ASSUME Init PROVE IInv
  OBVIOUS
<1>1. NoProfile \in UserProfile
  BY DEF NoProfile, UserProfile, ApprovalStates
<1>2. TypeOK
  BY <1>1 DEF Init, TypeOK, SignedOut, Session, Decisions
<1>3. /\ DatesTellState
      /\ MarkInv
  BY DEF Init, DatesTellState, MarkInv, Accounts, NoProfile
<1>4. SignInInv /\ SignedInInv /\ PendingIsAnnounced
  BY DEF Init, SignInInv, SignedInInv, PendingIsAnnounced, SignedOut
<1> QED BY <1>2, <1>3, <1>4 DEF IInv

-----------------------------------------------------------------------------
(* Types                                                                   *)

\* Every action keeps the types; a mail is announced for a GitHub account.
LEMMA TypeStep == TypeOK /\ SignInInv /\ [Next]_vars => TypeOK'
<1> SUFFICES ASSUME TypeOK, SignInInv, [Next]_vars PROVE TypeOK'
  OBVIOUS
<1> USE DEF Goto
<1>0. NoProfile \in UserProfile /\ SignedOut \in Session
  BY DEF NoProfile, UserProfile, ApprovalStates, SignedOut, Session
<1>1. ASSUME NEW b \in Browsers, Visit(b) PROVE TypeOK'
  BY <1>1 DEF TypeOK, Visit
<1>2. ASSUME NEW b \in Browsers, Logout(b) PROVE TypeOK'
  BY <1>2, <1>0 DEF TypeOK, Logout
<1>3. ASSUME NEW b \in Browsers, GithubLogin(b) PROVE TypeOK'
  BY <1>3 DEF TypeOK, GithubLogin, Session
<1>4. ASSUME NEW b \in Browsers, NEW u \in Users, GithubCallback(b, u) PROVE TypeOK'
  <2>1. GetOrCreateProfile(u) \in UserProfile
    BY GetOrCreateType DEF Accounts
  <2> QED BY <1>4, <2>1 DEF TypeOK, GithubCallback, Accounts
<1>5. ASSUME NEW b \in Browsers, Gate(b) PROVE TypeOK'
  BY <1>5 DEF TypeOK, Gate
<1>6. ASSUME NEW b \in Browsers, Respond(b) PROVE TypeOK'
  BY <1>6 DEF TypeOK, Respond
<1>7. ASSUME NEW b \in Browsers, AuthStatus(b) PROVE TypeOK'
  <2> DEFINE approved == profile[session[b].user].approval_state = "approved"
  <2>1. session' \in [Browsers -> Session]
    <3>1. CASE approved
      <4>1. session' = [session EXCEPT ![b].approved = TRUE]
        BY <1>7, <3>1, Zenon DEF AuthStatus
      <4> QED BY <4>1 DEF TypeOK, Session
    <3>2. CASE ~approved
      <4>1. session' = [session EXCEPT ![b].approved = FALSE]
        BY <1>7, <3>2, Zenon DEF AuthStatus
      <4> QED BY <4>1 DEF TypeOK, Session
    <3> QED BY <3>1, <3>2
  <2>2. \E l \in {"visit", "idle"} : pc' = [pc EXCEPT ![b] = l]
    BY <1>7, Zenon DEF AuthStatus
  <2>3. UNCHANGED <<profile, account, seen, announced>>
    BY <1>7, Zenon DEF AuthStatus
  <2> QED BY <2>1, <2>2, <2>3 DEF TypeOK
<1>8. ASSUME NEW b \in Browsers, NotifyAdmins(b) PROVE TypeOK'
  <2>1. account[b] \in Users
    BY <1>8 DEF SignInInv, NotifyAdmins
  <2> QED BY <1>8, <1>0, <2>1 DEF TypeOK, NotifyAdmins
<1>9. ASSUME NEW b \in Browsers, MarkNotified(b) PROVE TypeOK'
  <2>1. account[b] \in Accounts
    BY <1>9 DEF SignInInv, MarkNotified, Accounts
  <2>2. \A p \in UserProfile : [p EXCEPT !.pending_notified_at = TRUE] \in UserProfile
    BY DEF UserProfile
  <2> QED BY <1>9, <2>1, <2>2 DEF TypeOK, MarkNotified
<1>10. ASSUME NEW b \in Browsers, LoginUser(b) PROVE TypeOK'
  <2>1. session' \in [Browsers -> Session]
    <3>1. CASE seen[b].approval_state = "approved"
      <4>1. session' = [session EXCEPT ![b] =
                [user |-> account[b], approved |-> TRUE, state |-> FALSE]]
        BY <1>10, <3>1, Zenon DEF LoginUser
      <4> QED BY <4>1 DEF TypeOK, Session
    <3>2. CASE seen[b].approval_state # "approved"
      <4>1. session' = [session EXCEPT ![b] =
                [user |-> account[b], approved |-> FALSE, state |-> FALSE]]
        BY <1>10, <3>2, Zenon DEF LoginUser
      <4> QED BY <4>1 DEF TypeOK, Session
    <3> QED BY <3>1, <3>2
  <2>2. \E l \in {"visit", "status"} : pc' = [pc EXCEPT ![b] = l]
    BY <1>10, Zenon DEF LoginUser
  <2>3. /\ account' = [account EXCEPT ![b] = NoUser]
        /\ seen' = [seen EXCEPT ![b] = NoProfile]
        /\ UNCHANGED <<profile, announced>>
    BY <1>10, Zenon DEF LoginUser
  <2> QED BY <1>0, <2>1, <2>2, <2>3 DEF TypeOK
<1>11. ASSUME NEW a \in Admins, AdminUsers(a) PROVE TypeOK'
  <2>1. GetOrCreateProfile(a) \in UserProfile
    BY GetOrCreateType DEF Accounts
  <2> QED BY <1>11, <2>1 DEF TypeOK, AdminUsers
<1>12. ASSUME NEW a \in Admins, NEW u \in Accounts, NEW d \in Decisions,
              AdminUserDecision(a, u, d)
       PROVE  TypeOK'
  <2> DEFINE p == [profile EXCEPT ![a] = GetOrCreateProfile(a)]
  <2>1. p \in [Accounts -> UserProfile]
    BY GetOrCreateType DEF Accounts, TypeOK
  <2>2. Decided(profile[u], d) \in UserProfile
    BY DecidedType DEF TypeOK
  <2>3. profile' = [p EXCEPT ![u] = Decided(profile[u], d)]
    BY <1>12, Zenon DEF AdminUserDecision
  <2>4. profile' \in [Accounts -> UserProfile]
    <3> HIDE DEF p
    <3> QED BY <2>1, <2>2, <2>3
  <2> QED BY <1>12, <2>4 DEF TypeOK, AdminUserDecision
<1>13. CASE UNCHANGED vars
  BY <1>13 DEF TypeOK, vars
<1> QED
  BY <1>1, <1>2, <1>3, <1>4, <1>5, <1>6, <1>7, <1>8, <1>9, <1>10, <1>11, <1>12,
     <1>13, Zenon DEF Next, Continue

-----------------------------------------------------------------------------
(* What a step does to a profile                                           *)

\* A profile is left alone, created, marked as announced, or decided on.
Left(u)    == profile'[u] = profile[u]
Created(u) == /\ profile[u].approval_state = "none"
              /\ profile'[u].approval_state # "none"
              /\ ~profile'[u].decided_at /\ ~profile'[u].pending_notified_at
Marked(u)  == /\ u \in announced
              /\ profile[u].approval_state # "none"
              /\ profile'[u] = [profile[u] EXCEPT !.pending_notified_at = TRUE]
Judged(u)  == /\ profile[u].approval_state # "none"
              /\ \E a \in Admins, d \in Decisions :
                    /\ AdminUserDecision(a, u, d)
                    /\ profile'[u] = Decided(profile[u], d)

\* No other step touches a profile.
LEMMA ProfileStep ==
    ASSUME TypeOK, SignInInv, [Next]_vars, NEW u \in Accounts
    PROVE  Left(u) \/ Created(u) \/ Marked(u) \/ Judged(u)
<1> DEFINE P == Left(u) \/ Created(u) \/ Marked(u) \/ Judged(u)
<1> USE DEF Goto
<1>1. ASSUME UNCHANGED profile PROVE P
  BY <1>1 DEF Left
<1>2. ASSUME NEW b \in Browsers, NEW v \in Users, GithubCallback(b, v) PROVE P
  <2>1. profile' = [profile EXCEPT ![v] = GetOrCreateProfile(v)]
    BY <1>2, Zenon DEF GithubCallback
  <2>2. CASE u = v
    <3>1. profile'[u] = GetOrCreateProfile(u)
      BY <2>1, <2>2 DEF TypeOK
    <3> QED BY <3>1, GetOrCreateType DEF Left, Created
  <2>3. CASE u # v
    BY <2>1, <2>3 DEF TypeOK, Left
  <2> QED BY <2>2, <2>3
<1>3. ASSUME NEW a \in Admins, AdminUsers(a) PROVE P
  <2>1. profile' = [profile EXCEPT ![a] = GetOrCreateProfile(a)]
    BY <1>3, Zenon DEF AdminUsers
  <2>2. CASE u = a
    <3>1. profile'[u] = GetOrCreateProfile(u)
      BY <2>1, <2>2 DEF TypeOK
    <3> QED BY <3>1, GetOrCreateType DEF Left, Created
  <2>3. CASE u # a
    BY <2>1, <2>3 DEF TypeOK, Left
  <2> QED BY <2>2, <2>3
<1>4. ASSUME NEW b \in Browsers, MarkNotified(b) PROVE P
  <2>1. /\ account[b] \in announced
        /\ profile[account[b]].approval_state # "none"
    BY <1>4 DEF SignInInv, MarkNotified
  <2>2. profile' = [profile EXCEPT ![account[b]].pending_notified_at = TRUE]
    BY <1>4, Zenon DEF MarkNotified
  <2>3. CASE u = account[b]
    BY <2>1, <2>2, <2>3 DEF TypeOK, Marked
  <2>4. CASE u # account[b]
    BY <2>2, <2>4 DEF TypeOK, Left
  <2> QED BY <2>3, <2>4
<1>5. ASSUME NEW a \in Admins, NEW v \in Accounts, NEW d \in Decisions,
             AdminUserDecision(a, v, d)
      PROVE  P
  <2>1. profile' = [profile EXCEPT ![a] = GetOrCreateProfile(a),
                                   ![v] = Decided(profile[v], d)]
    BY <1>5, Zenon DEF AdminUserDecision
  <2>2. CASE u = v
    <3>1. profile'[u] = Decided(profile[u], d)
      BY <2>1, <2>2 DEF TypeOK
    <3>2. AdminUserDecision(a, u, d) /\ profile[u].approval_state # "none"
      BY <1>5, <2>2 DEF AdminUserDecision
    <3> QED BY <3>1, <3>2 DEF Judged
  <2>3. CASE u # v /\ u = a
    <3>1. profile'[u] = GetOrCreateProfile(u)
      BY <2>1, <2>3 DEF TypeOK
    <3> QED BY <3>1, GetOrCreateType DEF Left, Created
  <2>4. CASE u # v /\ u # a
    BY <2>1, <2>4 DEF TypeOK, Left
  <2> QED BY <2>2, <2>3, <2>4
<1>6. \/ UNCHANGED profile
      \/ \E b \in Browsers : \/ MarkNotified(b)
                             \/ \E v \in Users : GithubCallback(b, v)
      \/ \E a \in Admins : \/ AdminUsers(a)
                           \/ \E v \in Accounts, d \in Decisions :
                                 AdminUserDecision(a, v, d)
  <2>1. \A b \in Browsers : \/ Visit(b) \/ Logout(b) \/ GithubLogin(b) \/ Gate(b)
                           \/ Respond(b) \/ AuthStatus(b) \/ LoginUser(b)
          => UNCHANGED profile
    BY Zenon DEF Visit, Logout, GithubLogin, Gate, Respond, AuthStatus, LoginUser
  <2>2. \A b \in Browsers : NotifyAdmins(b) => UNCHANGED profile
    BY Zenon DEF NotifyAdmins
  <2>3. UNCHANGED vars => UNCHANGED profile
    BY DEF vars
  <2>4. CASE Next
    BY <2>1, <2>2, <2>4, Zenon DEF Next, Continue
  <2> QED BY <2>3, <2>4
<1> QED BY <1>1, <1>2, <1>3, <1>4, <1>5, <1>6

\* A mail is not taken back.
LEMMA AnnouncedStep == [Next]_vars => announced \subseteq announced'
  BY DEF Next, Continue, vars, Visit, Logout, GithubLogin, GithubCallback, Gate,
     Respond, AuthStatus, NotifyAdmins, MarkNotified, LoginUser, AdminUsers,
     AdminUserDecision

\* A profile stays in existence, never becomes pending again, is marked only once
\* announced, and its dates follow the decisions.
LEMMA ProfileEffect ==
    ASSUME TypeOK, SignInInv, [Next]_vars, NEW u \in Accounts
    PROVE  /\ profile[u].approval_state # "none" => profile'[u].approval_state # "none"
           /\ profile[u].approval_state # "none" /\ profile'[u].approval_state = "pending"
                 => profile[u].approval_state = "pending"
           /\ profile'[u].pending_notified_at =>
                 profile[u].pending_notified_at \/ u \in announced
           /\ DatesTellState =>
                 (profile'[u].decided_at =>
                     /\ profile'[u].approved_at <=> profile'[u].approval_state = "approved"
                     /\ profile'[u].rejected_at <=> profile'[u].approval_state = "rejected")
<1>0. profile[u] \in UserProfile
  BY DEF TypeOK
<1>1. CASE Left(u)
  BY <1>1 DEF Left, DatesTellState
<1>2. CASE Created(u)
  BY <1>2 DEF Created
<1>3. CASE Marked(u)
  <2>1. /\ profile'[u].approval_state = profile[u].approval_state
        /\ profile'[u].decided_at = profile[u].decided_at
        /\ profile'[u].approved_at = profile[u].approved_at
        /\ profile'[u].rejected_at = profile[u].rejected_at
    BY <1>0, <1>3 DEF Marked, UserProfile
  <2> QED BY <1>3, <2>1, Zenon DEF Marked, DatesTellState
<1>4. CASE Judged(u)
  <2>1. PICK d \in Decisions : profile'[u] = Decided(profile[u], d)
    BY <1>4 DEF Judged
  <2>2. /\ profile'[u].approval_state = d
        /\ profile'[u].pending_notified_at = profile[u].pending_notified_at
        /\ profile'[u].approved_at <=> d = "approved"
        /\ profile'[u].rejected_at <=> d = "rejected"
    BY <1>0, <2>1, DecidedType
  <2>3. d # "none" /\ d # "pending"
    BY DEF Decisions
  <2> QED BY <2>2, <2>3, Zenon
<1> QED BY <1>1, <1>2, <1>3, <1>4, ProfileStep

-----------------------------------------------------------------------------
(* The invariant                                                           *)

\* What the invariant says of one browser.
SignedInOK(b) ==
    session[b].user # NoUser =>
        /\ profile[session[b].user].approval_state # "none"
        /\ profile[session[b].user].approval_state = "pending"
              => session[b].user \in announced
SignInOK(b) ==
    pc[b] \in {"notify", "mark", "login"} =>
        /\ account[b] \in Users
        /\ profile[account[b]].approval_state # "none"
        /\ pc[b] = "mark" => account[b] \in announced
        /\ pc[b] = "login" /\ profile[account[b]].approval_state = "pending"
              => account[b] \in announced

\* A browser whose request does not move keeps its part of the invariant, whatever
\* anyone else does to the profiles.
LEMMA BrowserFrame ==
    ASSUME IInv, [Next]_vars, NEW b \in Browsers
    PROVE  /\ session'[b].user = session[b].user => SignedInOK(b)'
           /\ pc'[b] = pc[b] /\ account'[b] = account[b] => SignInOK(b)'
<1>1. SignedInOK(b) /\ SignInOK(b)
  BY DEF IInv, SignedInInv, PendingIsAnnounced, SignInInv, SignedInOK, SignInOK
<1>2. announced \subseteq announced'
  BY AnnouncedStep
<1>3. session[b].user \in Users \cup {NoUser}
  BY DEF IInv, TypeOK, Session
<1>4. \A u \in Users :
        /\ profile[u].approval_state # "none" => profile'[u].approval_state # "none"
        /\ profile[u].approval_state # "none" /\ profile'[u].approval_state = "pending"
              => profile[u].approval_state = "pending"
  BY ProfileEffect DEF IInv, Accounts
<1>5. ASSUME session'[b].user = session[b].user PROVE SignedInOK(b)'
  BY <1>1, <1>2, <1>3, <1>4, <1>5 DEF SignedInOK
<1>6. ASSUME pc'[b] = pc[b], account'[b] = account[b] PROVE SignInOK(b)'
  BY <1>1, <1>2, <1>4, <1>6 DEF SignInOK
<1> QED BY <1>5, <1>6

\* So does one whose request moves.
LEMMA BrowserStep ==
    ASSUME IInv, [Next]_vars, NEW b \in Browsers
    PROVE  SignedInOK(b)' /\ SignInOK(b)'
<1> DEFINE Q == SignedInOK(b)' /\ SignInOK(b)'
           Same == session'[b] = session[b] /\ pc'[b] = pc[b] /\ account'[b] = account[b]
<1> USE DEF Goto
<1>0. TypeOK /\ SignInOK(b) /\ \A c \in Browsers : session[c] \in Session
  BY DEF IInv, TypeOK, SignInInv, SignInOK
<1>a. ASSUME Same PROVE Q
  BY <1>a, BrowserFrame
<1>b. ASSUME session'[b].user = session[b].user,
             pc'[b] \notin {"notify", "mark", "login"}
      PROVE  Q
  <2>1. SignInOK(b)'
    BY <1>b DEF SignInOK
  <2> QED BY <1>b, <2>1, BrowserFrame
<1>1. ASSUME UNCHANGED <<session, pc, account>> PROVE Q
  BY <1>1, <1>a
<1>2. ASSUME NEW c \in Browsers, c # b,
             \/ Visit(c) \/ Logout(c) \/ GithubLogin(c)
             \/ \E u \in Users : GithubCallback(c, u)
             \/ Continue(c)
      PROVE  Q
  <2>1. CASE Visit(c) \/ Logout(c) \/ GithubLogin(c)
    BY <1>0, <1>2, <2>1, <1>a DEF TypeOK, Visit, Logout, GithubLogin
  <2>2. CASE \E u \in Users : GithubCallback(c, u)
    BY <1>0, <1>2, <2>2, <1>a DEF TypeOK, GithubCallback
  <2>3. CASE Gate(c) \/ Respond(c) \/ NotifyAdmins(c) \/ MarkNotified(c)
    BY <1>0, <1>2, <2>3, <1>a DEF TypeOK, Gate, Respond, NotifyAdmins, MarkNotified
  <2>4. CASE AuthStatus(c) \/ LoginUser(c)
    BY <1>0, <1>2, <2>4, <1>a DEF TypeOK, AuthStatus, LoginUser
  <2> QED BY <1>2, <2>1, <2>2, <2>3, <2>4 DEF Continue
<1>3. CASE Visit(b) \/ Gate(b) \/ Respond(b) \/ AuthStatus(b)
  <2>1. CASE Visit(b) \/ Gate(b) \/ Respond(b)
    BY <1>0, <2>1, <1>b DEF TypeOK, Visit, Gate, Respond
  <2>2. CASE AuthStatus(b)
    BY <1>0, <2>2, <1>b DEF TypeOK, AuthStatus, Session
  <2> QED BY <1>3, <2>1, <2>2
<1>4. CASE Logout(b) \/ GithubLogin(b)
  <2>1. pc'[b] = pc[b] /\ account'[b] = account[b]
    BY <1>4 DEF Logout, GithubLogin
  <2>2. session'[b].user \in {session[b].user, NoUser}
    BY <1>0, <1>4 DEF TypeOK, Logout, GithubLogin, Session, SignedOut
  <2>3. SignedInOK(b)'
    BY <2>2, BrowserFrame DEF SignedInOK
  <2> QED BY <2>1, <2>3, BrowserFrame
<1>5. ASSUME NEW u \in Users, GithubCallback(b, u) PROVE Q
  <2> DEFINE p == GetOrCreateProfile(u)
  <2>1. /\ pc'[b] = IF p.approval_state = "pending" /\ ~p.pending_notified_at
                    THEN "notify" ELSE "login"
        /\ account'[b] = u /\ profile'[u] = p
        /\ UNCHANGED <<session, announced>>
    BY <1>0, <1>5 DEF TypeOK, GithubCallback, Accounts
  <2>2. p.approval_state # "none" /\ (p.pending_notified_at => u \in announced)
    BY <1>0, GetOrCreateType DEF IInv, MarkInv, Accounts
  <2>3. SignInOK(b)'
    BY <2>1, <2>2 DEF SignInOK
  <2> QED BY <2>1, <2>3, BrowserFrame
<1>6. CASE NotifyAdmins(b)
  <2>1. UNCHANGED <<session, profile>> /\ pc[b] = "notify"
    BY <1>6 DEF NotifyAdmins
  <2>2. \/ pc'[b] = "idle"
        \/ pc'[b] = "mark" /\ account'[b] = account[b] /\ account[b] \in announced'
    BY <1>0, <1>6, RecipientsAssumption DEF TypeOK, NotifyAdmins
  <2>3. SignInOK(b)'
    BY <1>0, <2>1, <2>2 DEF SignInOK
  <2> QED BY <2>1, <2>3, BrowserFrame
<1>7. CASE MarkNotified(b)
  <2>1. /\ UNCHANGED <<session, account, announced>>
        /\ pc[b] = "mark" /\ pc'[b] = "login"
    BY <1>0, <1>7 DEF TypeOK, MarkNotified
  <2>2. profile'[account[b]].approval_state # "none"
    BY <1>0, <2>1, ProfileEffect DEF IInv, SignInOK, Accounts
  <2>3. SignInOK(b)'
    BY <1>0, <2>1, <2>2 DEF SignInOK
  <2> QED BY <2>1, <2>3, BrowserFrame
<1>8. CASE LoginUser(b)
  <2>1. /\ session'[b].user = account[b] /\ pc[b] = "login"
        /\ pc'[b] \in {"visit", "status"}
        /\ UNCHANGED <<profile, announced>>
    BY <1>0, <1>8 DEF TypeOK, LoginUser
  <2>2. SignedInOK(b)'
    BY <1>0, <2>1 DEF SignedInOK, SignInOK
  <2>3. SignInOK(b)'
    BY <2>1 DEF SignInOK
  <2> QED BY <2>2, <2>3
<1>9. ASSUME NEW a \in Admins,
             \/ AdminUsers(a)
             \/ \E u \in Accounts, d \in Decisions : AdminUserDecision(a, u, d)
      PROVE  Q
  BY <1>1, <1>9, Zenon DEF AdminUsers, AdminUserDecision
<1>10. CASE UNCHANGED vars
  BY <1>1, <1>10 DEF vars
<1> QED
  BY <1>2, <1>3, <1>4, <1>5, <1>6, <1>7, <1>8, <1>9, <1>10, Zenon DEF Next, Continue

\* The conjunction is inductive.
LEMMA InvStep == IInv /\ [Next]_vars => IInv'
<1> SUFFICES ASSUME IInv, [Next]_vars PROVE IInv'
  OBVIOUS
<1>1. TypeOK'
  BY TypeStep DEF IInv
<1>2. DatesTellState'
  BY ProfileEffect DEF IInv, DatesTellState
<1>3. MarkInv'
  BY ProfileEffect, AnnouncedStep DEF IInv, MarkInv, Accounts
<1>4. SignInInv' /\ SignedInInv' /\ PendingIsAnnounced'
  BY BrowserStep DEF SignInInv, SignedInInv, PendingIsAnnounced, SignInOK, SignedInOK
<1> QED BY <1>1, <1>2, <1>3, <1>4 DEF IInv

-----------------------------------------------------------------------------
(* The theorems                                                            *)

\* The invariant holds throughout, whoever signs in and decides.
THEOREM Invariance == Spec => []IInv
<1> QED BY InvInit, InvStep, PTL DEF Spec

\* Every variable keeps its type.
THEOREM TypeCorrect == Spec => []TypeOK
<1>1. IInv => TypeOK
  BY DEF IInv
<1> QED BY <1>1, Invariance, PTL

\* The dates of a profile tell its last decision and no other.
THEOREM DatesCorrect == Spec => []DatesTellState
<1>1. IInv => DatesTellState
  BY DEF IInv
<1> QED BY <1>1, Invariance, PTL

\* Nobody waits for approval unannounced.
THEOREM Announced == Spec => []PendingIsAnnounced
<1>1. IInv => PendingIsAnnounced
  BY DEF IInv
<1> QED BY <1>1, Invariance, PTL

\* No sign-in undoes a decision, however long its mail takes.
THEOREM DecisionsHold == Spec => DecisionsStick
<1> DEFINE A == \A u \in Accounts :
      \/ profile[u].approval_state = "none"
      \/ profile'[u].approval_state = profile[u].approval_state
      \/ \E a \in Admins, d \in Decisions : AdminUserDecision(a, u, d)
<1>1. ASSUME IInv, [Next]_vars PROVE A
  <2> SUFFICES ASSUME NEW u \in Accounts
               PROVE  \/ profile[u].approval_state = "none"
                      \/ profile'[u].approval_state = profile[u].approval_state
                      \/ \E a \in Admins, d \in Decisions : AdminUserDecision(a, u, d)
    OBVIOUS
  <2>1. profile[u] \in UserProfile
    BY <1>1 DEF IInv, TypeOK
  <2>2. CASE Left(u)
    BY <2>2 DEF Left
  <2>3. CASE Created(u)
    BY <2>3 DEF Created
  <2>4. CASE Marked(u)
    BY <2>1, <2>4 DEF Marked, UserProfile
  <2>5. CASE Judged(u)
    BY <2>5, Zenon DEF Judged
  <2> QED BY <1>1, <2>2, <2>3, <2>4, <2>5, ProfileStep DEF IInv
<1> QED BY <1>1, Invariance, PTL DEF Spec, DecisionsStick

-----------------------------------------------------------------------------
(* Sign-in and approval implement their promise                            *)

\* A step that changes no standing, tells nobody, signs nobody in or out and opens
\* and closes no view stutters.
LEMMA SeenKept ==
    ASSUME \A u \in Accounts : profile'[u].approval_state = profile[u].approval_state,
           UNCHANGED <<session, announced>>,
           \A b \in Browsers : pc'[b] = "app" <=> pc[b] = "app"
    PROVE  UNCHANGED Promise!membership
<1>1. Standing' = Standing
  BY DEF Standing
<1>2. SignedIn' = SignedIn
  BY DEF SignedIn
<1>3. InApplication' = InApplication
  BY DEF InApplication
<1> QED
  BY <1>1, <1>2, <1>3 DEF Promise!membership

\* get_or_create_profile_for_user registers an account, or finds it registered.
LEMMA KnownState ==
    ASSUME TypeOK, NEW u \in Accounts
    PROVE  GetOrCreateProfile(u).approval_state = Promise!Known(u)
<1>1. Standing[u] = profile[u].approval_state
  BY DEF Standing
<1> QED
  BY <1>1 DEF GetOrCreateProfile, Promise!Known, NoProfile

LEMMA RegisterStep ==
    ASSUME TypeOK, NEW u \in Accounts, UNCHANGED <<session, announced>>,
           profile' = [profile EXCEPT ![u] = GetOrCreateProfile(u)],
           \A b \in Browsers : pc'[b] = "app" <=> pc[b] = "app"
    PROVE  Promise!Next
<1>1. Standing' = [Standing EXCEPT ![u] = Promise!Known(u)]
  <2>1. \A v \in Accounts : profile'[v] = IF v = u THEN GetOrCreateProfile(u)
                                          ELSE profile[v]
    BY DEF TypeOK
  <2>2. GetOrCreateProfile(u).approval_state = Promise!Known(u)
    BY KnownState
  <2>3. \A v \in Accounts : profile'[v].approval_state =
          IF v = u THEN Promise!Known(u) ELSE profile[v].approval_state
    BY <2>1, <2>2
  <2> QED
    BY <2>3 DEF Standing
<1>2. SignedIn' = SignedIn /\ InApplication' = InApplication
  BY DEF SignedIn, InApplication
<1>3. Promise!Register(u)
  BY <1>1, <1>2 DEF Promise!Register
<1> QED
  BY <1>3 DEF Promise!Next, Promise!Members, Accounts

\* A decision, with the profile of the administrator it may create.
LEMMA DecideStep ==
    ASSUME TypeOK, NEW a \in Admins, NEW u \in Accounts, NEW d \in Decisions,
           AdminUserDecision(a, u, d)
    PROVE  Promise!Next
<1>0. a \in Accounts
  BY DEF Accounts
<1> DEFINE first == [profile EXCEPT ![a] = GetOrCreateProfile(a)]
<1>1. /\ profile[u].approval_state # "none"
      /\ profile' = [first EXCEPT ![u] = Decided(profile[u], d)]
      /\ UNCHANGED <<session, pc, account, seen, announced>>
  BY Zenon DEF AdminUserDecision
<1>2. \A v \in Accounts : first[v] = IF v = a THEN GetOrCreateProfile(a) ELSE profile[v]
  BY <1>0 DEF TypeOK
<1>3. DOMAIN first = Accounts
  BY DEF TypeOK
<1> HIDE DEF first
<1>4. \A v \in Accounts : profile'[v] = IF v = u THEN Decided(profile[u], d) ELSE first[v]
  BY <1>1, <1>3
<1>5. Decided(profile[u], d).approval_state = d
  BY DecidedType DEF TypeOK
<1>6. GetOrCreateProfile(a).approval_state = Promise!Known(a)
  BY <1>0, KnownState
<1>7. Standing' = [[Standing EXCEPT ![a] = Promise!Known(a)] EXCEPT ![u] = d]
  <2>1. \A v \in Accounts : profile'[v].approval_state =
          IF v = u THEN d ELSE IF v = a THEN Promise!Known(a)
          ELSE profile[v].approval_state
    BY <1>2, <1>4, <1>5, <1>6
  <2> QED
    BY <1>0, <2>1 DEF Standing
<1>8. SignedIn' = SignedIn /\ InApplication' = InApplication /\ Standing[u] # "none"
  BY <1>1 DEF SignedIn, InApplication, Standing
<1>9. Promise!Decide(a, u, d)
  BY <1>1, <1>7, <1>8 DEF Promise!Decide
<1> QED
  BY <1>9 DEF Promise!Next, Promise!Members, Accounts, Decisions

\* The last statement of a callback is the sign-in: by then the account is known, and
\* told of or no longer pending.
LEMMA LoginStep ==
    ASSUME IInv, NEW b \in Browsers, LoginUser(b)
    PROVE  Promise!Next
<1> DEFINE u == account[b]
<1>1. /\ u \in Users /\ profile[u].approval_state # "none"
      /\ profile[u].approval_state = "pending" => u \in announced
      /\ pc[b] = "login"
  BY DEF IInv, SignInInv, LoginUser
<1>2. UNCHANGED <<profile, announced>>
  BY DEF LoginUser
<1>3. SignedIn' = [SignedIn EXCEPT ![b] = u]
  <2>1. PICK approved : session' = [session EXCEPT ![b] =
           [user |-> u, approved |-> approved, state |-> FALSE]]
    BY Zenon DEF LoginUser
  <2>2. \A c \in Browsers : session'[c].user = IF c = b THEN u ELSE session[c].user
    BY <2>1 DEF IInv, TypeOK
  <2> QED
    BY <2>2 DEF SignedIn
<1>4. InApplication' = InApplication /\ b \notin InApplication
  <2>1. \E l \in {"visit", "status"} : pc' = [pc EXCEPT ![b] = l]
    BY Zenon DEF LoginUser, Goto
  <2>2. \A c \in Browsers : pc'[c] = "app" <=> pc[c] = "app"
    BY <1>1, <2>1 DEF IInv, TypeOK
  <2> QED
    BY <1>1, <2>2 DEF InApplication
<1>5. Standing' = Standing /\ Standing[u] = profile[u].approval_state
  BY <1>1, <1>2 DEF Standing, Accounts
<1>6. Promise!SignIn(b, u)
  BY <1>1, <1>2, <1>3, <1>4, <1>5 DEF Promise!SignIn
<1> QED
  BY <1>1, <1>6 DEF Promise!Next

LEMMA LogoutStep ==
    ASSUME IInv, NEW b \in Browsers, Logout(b)
    PROVE  Promise!Next
<1>1. UNCHANGED <<profile, pc, announced>> /\ pc[b] = "idle"
  BY DEF Logout
<1>2. SignedIn' = [SignedIn EXCEPT ![b] = NoUser]
  <2>1. \A c \in Browsers : session'[c].user = IF c = b THEN NoUser ELSE session[c].user
    BY DEF Logout, SignedOut, IInv, TypeOK
  <2> QED
    BY <2>1 DEF SignedIn
<1>3. Standing' = Standing /\ InApplication' = InApplication /\ b \notin InApplication
  BY <1>1 DEF Standing, InApplication
<1>4. Promise!SignOut(b)
  BY <1>1, <1>2, <1>3 DEF Promise!SignOut
<1> QED
  BY <1>4 DEF Promise!Next

\* The gate opens a view, or sends to the status page.
LEMMA GateStep ==
    ASSUME IInv, NEW b \in Browsers, Gate(b)
    PROVE  Promise!Next \/ UNCHANGED Promise!membership
<1>1. UNCHANGED <<profile, session, announced>> /\ pc[b] = "visit"
  BY DEF Gate
<1>2. Standing' = Standing /\ SignedIn' = SignedIn
  BY <1>1 DEF Standing, SignedIn
<1>3. CASE Admitted(b)
  <2>1. \A c \in Browsers : pc'[c] = IF c = b THEN "app" ELSE pc[c]
    BY <1>3 DEF Gate, Goto, IInv, TypeOK
  <2>2. InApplication' = InApplication \cup {b}
    BY <2>1 DEF InApplication
  <2>3. SignedIn[b] # NoUser => Standing[SignedIn[b]] = "approved"
    <3>1. SignedIn[b] = session[b].user /\ session[b].user \in Accounts \cup {NoUser}
      BY DEF SignedIn, IInv, TypeOK, Session, Accounts
    <3> QED
      BY <1>3, <3>1 DEF Admitted, Standing
  <2>4. Promise!Enter(b)
    BY <1>1, <1>2, <2>2, <2>3 DEF Promise!Enter
  <2> QED
    BY <2>4 DEF Promise!Next
<1>4. CASE ~Admitted(b)
  <2>1. \A c \in Browsers : pc'[c] = IF c = b THEN "status" ELSE pc[c]
    BY <1>4 DEF Gate, Goto, IInv, TypeOK
  <2> QED
    BY <1>1, <2>1, SeenKept
<1> QED
  BY <1>3, <1>4

LEMMA RespondStep ==
    ASSUME IInv, NEW b \in Browsers, Respond(b)
    PROVE  Promise!Next
<1>1. UNCHANGED <<profile, session, announced>>
  BY DEF Respond
<1>2. Standing' = Standing /\ SignedIn' = SignedIn
  BY <1>1 DEF Standing, SignedIn
<1>3. \A c \in Browsers : pc'[c] = IF c = b THEN "idle" ELSE pc[c]
  BY DEF Respond, Goto, IInv, TypeOK
<1>4. InApplication' = InApplication \ {b}
  BY <1>3 DEF InApplication
<1>5. Promise!Leave(b)
  BY <1>1, <1>2, <1>4 DEF Promise!Leave
<1> QED
  BY <1>5 DEF Promise!Next

\* The mail of a callback tells the administrators; one that fails tells nobody.
LEMMA NotifyStep ==
    ASSUME IInv, NEW b \in Browsers, NotifyAdmins(b)
    PROVE  Promise!Next \/ UNCHANGED Promise!membership
<1>1. /\ account[b] \in Users /\ profile[account[b]].approval_state # "none"
      /\ UNCHANGED <<profile, session>>
  BY DEF IInv, SignInInv, NotifyAdmins
<1>2. \A c \in Browsers : pc'[c] = "app" <=> pc[c] = "app"
  <2>1. pc[b] = "notify" /\ \E l \in {"mark", "idle"} : pc' = [pc EXCEPT ![b] = l]
    BY Zenon DEF NotifyAdmins, Goto
  <2> QED
    BY <2>1 DEF IInv, TypeOK
<1>3. CASE announced' = announced \cup {account[b]}
  <2>1. Standing' = Standing /\ SignedIn' = SignedIn /\ InApplication' = InApplication
    BY <1>1, <1>2 DEF Standing, SignedIn, InApplication
  <2>2. Standing[account[b]] # "none"
    BY <1>1 DEF Standing, Accounts
  <2>3. Promise!Tell(account[b])
    BY <1>3, <2>1, <2>2 DEF Promise!Tell
  <2> QED
    BY <1>1, <2>3 DEF Promise!Next
<1>4. CASE announced' = announced
  BY <1>1, <1>2, <1>4, SeenKept
<1> QED
  BY <1>3, <1>4, RecipientsAssumption DEF NotifyAdmins

LEMMA CallbackStep ==
    ASSUME IInv, NEW b \in Browsers, NEW u \in Users, GithubCallback(b, u)
    PROVE  Promise!Next
<1>1. /\ profile' = [profile EXCEPT ![u] = GetOrCreateProfile(u)]
      /\ UNCHANGED <<session, announced>> /\ pc[b] = "idle"
  BY Zenon DEF GithubCallback
<1>2. \A c \in Browsers : pc'[c] = "app" <=> pc[c] = "app"
  <2>1. \E l \in {"notify", "login"} : pc' = [pc EXCEPT ![b] = l]
    BY Zenon DEF GithubCallback, Goto
  <2> QED
    BY <1>1, <2>1 DEF IInv, TypeOK
<1> QED
  BY <1>1, <1>2, RegisterStep DEF IInv, Accounts

\* The other statements are invisible: requests that begin or end at the status page,
\* the state of a login, and the mark on an announced profile.
LEMMA QuietSteps ==
    ASSUME IInv, NEW b \in Browsers,
           Visit(b) \/ GithubLogin(b) \/ AuthStatus(b) \/ MarkNotified(b)
    PROVE  UNCHANGED Promise!membership
<1>t. TypeOK
  BY DEF IInv
<1>1. CASE Visit(b)
  <2>1. \A c \in Browsers : pc'[c] = "app" <=> pc[c] = "app"
    BY <1>1, <1>t DEF Visit, Goto, TypeOK
  <2> QED
    BY <1>1, <2>1, SeenKept DEF Visit
<1>2. CASE GithubLogin(b) \/ AuthStatus(b)
  <2>1. \A c \in Browsers : session'[c].user = session[c].user
    <3>1. CASE GithubLogin(b)
      <4>1. session' = [session EXCEPT ![b].state = TRUE]
        BY <3>1, Zenon DEF GithubLogin
      <4> QED
        BY <1>t, <4>1 DEF TypeOK, Session
    <3>2. CASE AuthStatus(b)
      <4>1. PICK approved \in BOOLEAN :
                session' = [session EXCEPT ![b].approved = approved]
        BY <3>2, Zenon DEF AuthStatus
      <4> QED
        BY <1>t, <4>1 DEF TypeOK, Session
    <3> QED
      BY <1>2, <3>1, <3>2
  <2>2. \A c \in Browsers : pc'[c] = "app" <=> pc[c] = "app"
    <3>1. CASE GithubLogin(b)
      BY <3>1 DEF GithubLogin
    <3>2. CASE AuthStatus(b)
      <4>1. pc[b] = "status" /\ \E l \in {"visit", "idle"} : pc' = [pc EXCEPT ![b] = l]
        BY <3>2, Zenon DEF AuthStatus, Goto
      <4> QED
        BY <1>t, <4>1 DEF TypeOK
    <3> QED
      BY <1>2, <3>1, <3>2
  <2>3. UNCHANGED <<profile, announced>>
    BY <1>2, Zenon DEF GithubLogin, AuthStatus
  <2>4. Standing' = Standing /\ SignedIn' = SignedIn /\ InApplication' = InApplication
    BY <2>1, <2>2, <2>3 DEF Standing, SignedIn, InApplication
  <2> QED
    BY <2>3, <2>4 DEF Promise!membership
<1>3. CASE MarkNotified(b)
  <2>1. \A c \in Browsers : pc'[c] = "app" <=> pc[c] = "app"
    BY <1>3, <1>t DEF MarkNotified, Goto, TypeOK
  <2>2. profile' = [profile EXCEPT ![account[b]].pending_notified_at = TRUE]
    BY <1>3, Zenon DEF MarkNotified
  <2>3. \A u \in Accounts : profile'[u].approval_state = profile[u].approval_state
    BY <1>t, <2>2 DEF TypeOK, UserProfile
  <2> QED
    BY <1>3, <2>1, <2>3, SeenKept DEF MarkNotified
<1> QED
  BY <1>1, <1>2, <1>3

\* Whatever requests, mails and decisions cross: sign-in and approval are what
\* Membership says.
THEOREM RefinesMembership == Spec => ImplementsMembership
<1>1. Init => Promise!Init
  <2> SUFFICES ASSUME Init PROVE Promise!Init
    OBVIOUS
  <2>1. Standing = [u \in Promise!Members |-> "none"]
    BY DEF Init, Standing, NoProfile, Promise!Members, Accounts
  <2>2. SignedIn = [b \in Browsers |-> NoUser] /\ InApplication = {}
    BY DEF Init, SignedIn, InApplication, SignedOut
  <2> QED
    BY <2>1, <2>2 DEF Init, Promise!Init
<1>2. IInv /\ [Next]_vars => [Promise!Next]_(Promise!membership)
  <2> SUFFICES ASSUME IInv, [Next]_vars
               PROVE  Promise!Next \/ UNCHANGED Promise!membership
    OBVIOUS
  <2>1. ASSUME NEW b \in Browsers, Continue(b)
        PROVE  Promise!Next \/ UNCHANGED Promise!membership
    BY <2>1, GateStep, RespondStep, NotifyStep, LoginStep, QuietSteps DEF Continue
  <2>2. ASSUME NEW b \in Browsers,
               \/ Visit(b) \/ Logout(b) \/ GithubLogin(b)
               \/ \E u \in Users : GithubCallback(b, u)
        PROVE  Promise!Next \/ UNCHANGED Promise!membership
    BY <2>2, LogoutStep, QuietSteps, CallbackStep
  <2>3. ASSUME NEW a \in Admins, AdminUsers(a) PROVE Promise!Next
    BY <2>3, RegisterStep DEF AdminUsers, IInv, Accounts
  <2>4. ASSUME NEW a \in Admins, NEW u \in Accounts, NEW d \in Decisions,
               AdminUserDecision(a, u, d)
        PROVE  Promise!Next
    BY <2>4, DecideStep DEF IInv
  <2>5. CASE UNCHANGED vars
    BY <2>5, SeenKept DEF vars
  <2> QED
    BY <2>1, <2>2, <2>3, <2>4, <2>5 DEF Next
<1> QED
  BY <1>1, <1>2, Invariance, PTL DEF Spec, ImplementsMembership, Promise!Spec
=============================================================================
