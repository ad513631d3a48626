----------------------------- MODULE Membership -----------------------------
(***************************************************************************)
(* What sign-in and approval promise, without profiles, session keys,      *)
(* redirects and the statements of a request: every account has one        *)
(* standing, decided by administrators alone; nobody is signed in while    *)
(* pending unless the administrators were told; and the application opens  *)
(* for a signed-in user only while the standing is "approved".  Approval   *)
(* implements it.                                                          *)
(***************************************************************************)
CONSTANTS Users, Admins, Browsers, NoUser

VARIABLES
    standing,   \* of each account; "none" before it is known
    told,       \* users the administrators were told of
    user,       \* who is signed in at each browser
    inside      \* browsers whose request is in a view of the application

membership == <<standing, told, user, inside>>

Members == Users \cup Admins

Init == /\ standing = [u \in Members |-> "none"]
        /\ told = {}
        /\ user = [b \in Browsers |-> NoUser]
        /\ inside = {}

\* The standing of u once the portal knows the account: staff need no decision.
Known(u) == IF standing[u] # "none" THEN standing[u]
            ELSE IF u \in Admins THEN "approved" ELSE "pending"

Register(u) ==
    /\ standing' = [standing EXCEPT ![u] = Known(u)]
    /\ UNCHANGED <<told, user, inside>>

Tell(u) ==
    /\ standing[u] # "none"
    /\ told' = told \cup {u}
    /\ UNCHANGED <<standing, user, inside>>

SignIn(b, u) ==
    /\ b \notin inside
    /\ standing[u] # "none"
    /\ standing[u] = "pending" => u \in told
    /\ user' = [user EXCEPT ![b] = u]
    /\ UNCHANGED <<standing, told, inside>>

SignOut(b) ==
    /\ b \notin inside
    /\ user' = [user EXCEPT ![b] = NoUser]
    /\ UNCHANGED <<standing, told, inside>>

\* A visitor who is not signed in gets the public part of the application.
Enter(b) ==
    /\ user[b] # NoUser => standing[user[b]] = "approved"
    /\ inside' = inside \cup {b}
    /\ UNCHANGED <<standing, told, user>>

Leave(b) ==
    /\ inside' = inside \ {b}
    /\ UNCHANGED <<standing, told, user>>

\* Administrator a decides on u, whatever was decided before.
Decide(a, u, decision) ==
    /\ standing[u] # "none"
    /\ standing' = [standing EXCEPT ![a] = Known(a), ![u] = decision]
    /\ UNCHANGED <<told, user, inside>>

Next ==
    \/ \E u \in Members : Register(u)
    \/ \E u \in Users : Tell(u)
    \/ \E b \in Browsers :
          \/ \E u \in Users : SignIn(b, u)
          \/ SignOut(b)
          \/ Enter(b)
          \/ Leave(b)
    \/ \E a \in Admins, u \in Members, decision \in {"approved", "rejected"} :
          Decide(a, u, decision)

Spec == Init /\ [][Next]_membership
=============================================================================
