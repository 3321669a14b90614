------------------------------ MODULE Accounts ------------------------------
(***************************************************************************)
(* Staff accounts and invitations (server/auth-pg.ts, routes/staff.ts,     *)
(* routes/invitations.ts, scripts/bootstrap-owner.ts).                     *)
(*                                                                         *)
(* A request awaits the database several times; the requests of several    *)
(* people interleave at every statement.  An account is known by its email *)
(* address, which is UNIQUE.  Roles other than the owner's behave alike    *)
(* here: "staff".                                                          *)
(***************************************************************************)
EXTENDS Naturals, FiniteSets

CONSTANTS
  Emails,    \* addresses
  Founders,  \* those with an active owner account at the start
  Invites,   \* ids of invitations (bound: how many are created)
  Requests,  \* slots: as many requests are answered at a time
  NoEmail, NoUser, NoInvite

ASSUME EmailsAssumption == Founders \subseteq Emails /\ NoEmail \notin Emails
ASSUME InvitesAssumption == NoInvite \notin Invites

VARIABLES
  users,       \* email -> row of users
  invitations, \* id -> row of staff_invitations
  requests     \* slot -> what the request knows and awaits

vars == <<users, invitations, requests>>

Roles == {"owner", "staff"}
Users == [role : Roles, active : BOOLEAN]
\* mailed: the invited person has the link.
Invitations == [email : Emails, role : Roles, mailed : BOOLEAN,
                accepted : BOOLEAN, revoked : BOOLEAN, expired : BOOLEAN]
Steps == {"idle", "checkUser", "checkInvite", "insertInvite", "mail", "insertUser",
          "readInvite", "revoke", "readTarget", "countOwners", "deactivate", "insertOwner"}
\* email: the address invited, the account to deactivate, or the new owner's.
RequestStates == [at : Steps, email : Emails \cup {NoEmail}, role : Roles,
                  invite : Invites \cup {NoInvite}]

TypeOK ==
  /\ users \in [Emails -> Users \cup {NoUser}]
  /\ invitations \in [Invites -> Invitations \cup {NoInvite}]
  /\ requests \in [Requests -> RequestStates]
  /\ \A q \in Requests :
       /\ requests[q].at \notin {"idle", "readInvite", "revoke"} => requests[q].email \in Emails
       /\ requests[q].at \in {"mail", "insertUser", "readInvite", "revoke"} =>
            /\ requests[q].invite \in Invites
            /\ invitations[requests[q].invite] # NoInvite
       /\ requests[q].at \in {"countOwners", "deactivate"} => users[requests[q].email] # NoUser

ASSUME NullsAssumption == NoUser \notin Users /\ NoInvite \notin Invitations

Idle == [at |-> "idle", email |-> NoEmail, role |-> "staff", invite |-> NoInvite]

Init ==
  /\ users = [e \in Emails |-> IF e \in Founders THEN [role |-> "owner", active |-> TRUE] ELSE NoUser]
  /\ invitations = [i \in Invites |-> NoInvite]
  /\ requests = [q \in Requests |-> Idle]

ActiveOwners == {e \in Emails : users[e] # NoUser /\ users[e].active /\ users[e].role = "owner"}
Exists(i) == invitations[i] # NoInvite
Pending(i) == Exists(i) /\ ~invitations[i].accepted /\ ~invitations[i].revoked /\ ~invitations[i].expired

At(q, step) == requests[q].at = step
GoTo(q, step) == requests' = [requests EXCEPT ![q].at = step]
Answer(q) == requests' = [requests EXCEPT ![q] = Idle]

-----------------------------------------------------------------------------
(* createStaffInvitation *)

\* requireAuth and requireRoles("owner"): the sender is an active owner now.
StartCreate(q, email, role) ==
  /\ At(q, "idle") /\ ActiveOwners # {}
  /\ requests' = [requests EXCEPT ![q] = [Idle EXCEPT !.at = "checkUser", !.email = email, !.role = role]]
  /\ UNCHANGED <<users, invitations>>

CheckUser(q) ==
  /\ At(q, "checkUser")
  /\ \/ users[requests[q].email] = NoUser /\ GoTo(q, "checkInvite")
     \/ users[requests[q].email] # NoUser /\ Answer(q)
  /\ UNCHANGED <<users, invitations>>

\* All live as long, so that the latest one expires last.
CheckInvite(q) ==
  /\ At(q, "checkInvite")
  /\ LET taken == \E i \in Invites : Pending(i) /\ invitations[i].email = requests[q].email
     IN  \/ ~taken /\ GoTo(q, "insertInvite")
         \/ taken /\ Answer(q)
  /\ UNCHANGED <<users, invitations>>

InsertInvite(q, i) ==
  /\ At(q, "insertInvite") /\ ~Exists(i)
  /\ invitations' = [invitations EXCEPT ![i] =
       [email |-> requests[q].email, role |-> requests[q].role, mailed |-> FALSE,
        accepted |-> FALSE, revoked |-> FALSE, expired |-> FALSE]]
  /\ requests' = [requests EXCEPT ![q].at = "mail", ![q].invite = i]
  /\ UNCHANGED users

\* sendInviteEmail: it arrives, reported as delivered or not, or it does not.
Mail(q) ==
  /\ At(q, "mail")
  /\ \E mailed \in BOOLEAN :
       invitations' = [invitations EXCEPT ![requests[q].invite].mailed = mailed]
  /\ Answer(q)
  /\ UNCHANGED users

-----------------------------------------------------------------------------
(* acceptStaffInvitation *)

\* Slip: a revoked invitation is found.
findRevokedToo(i) ==
  Exists(i) /\ ~invitations[i].accepted /\ ~invitations[i].expired

findInvitation(i) == Pending(i)

\* The row is read, then the password is hashed.
StartAccept(q, i) ==
  /\ At(q, "idle")
  /\ findInvitation(i) /\ invitations[i].mailed
  /\ requests' = [requests EXCEPT ![q] =
       [at |-> "insertUser", email |-> invitations[i].email, role |-> invitations[i].role, invite |-> i]]
  /\ UNCHANGED <<users, invitations>>

\* Slip: without the transaction, accepted_at is written although the INSERT fails.
AcceptAnyhow(q) ==
  /\ At(q, "insertUser")
  /\ \/ /\ users[requests[q].email] = NoUser
        /\ users' = [users EXCEPT ![requests[q].email] = [role |-> requests[q].role, active |-> TRUE]]
     \/ /\ users[requests[q].email] # NoUser
        /\ UNCHANGED users
  /\ invitations' = [invitations EXCEPT ![requests[q].invite].accepted = TRUE]
  /\ Answer(q)

\* One transaction; the second INSERT of an address fails and rolls it back.
Accept(q) ==
  /\ At(q, "insertUser")
  /\ \/ /\ users[requests[q].email] = NoUser
        /\ users' = [users EXCEPT ![requests[q].email] = [role |-> requests[q].role, active |-> TRUE]]
        /\ invitations' = [invitations EXCEPT ![requests[q].invite].accepted = TRUE]
     \/ /\ users[requests[q].email] # NoUser
        /\ UNCHANGED <<users, invitations>>
  /\ Answer(q)

-----------------------------------------------------------------------------
(* revokeInvitation, deactivateStaffAccount *)

\* Slip: an id that was not found.
StartRevokeUnknown(q, i) ==
  /\ At(q, "idle") /\ ActiveOwners # {}
  /\ requests' = [requests EXCEPT ![q] = [Idle EXCEPT !.at = "readInvite", !.invite = i]]
  /\ UNCHANGED <<users, invitations>>

StartRevoke(q, i) ==
  /\ At(q, "idle") /\ ActiveOwners # {} /\ Exists(i)
  /\ requests' = [requests EXCEPT ![q] = [Idle EXCEPT !.at = "readInvite", !.invite = i]]
  /\ UNCHANGED <<users, invitations>>

ReadInvite(q) ==
  /\ At(q, "readInvite")
  /\ \/ ~invitations[requests[q].invite].accepted /\ GoTo(q, "revoke")
     \/ invitations[requests[q].invite].accepted /\ Answer(q)
  /\ UNCHANGED <<users, invitations>>

Revoke(q) ==
  /\ At(q, "revoke")
  /\ invitations' = [invitations EXCEPT ![requests[q].invite].revoked = TRUE]
  /\ Answer(q)
  /\ UNCHANGED users

\* An owner deactivates somebody else.
StartDeactivate(q, actor, target) ==
  /\ At(q, "idle") /\ actor \in ActiveOwners /\ actor # target
  /\ requests' = [requests EXCEPT ![q] = [Idle EXCEPT !.at = "readTarget", !.email = target]]
  /\ UNCHANGED <<users, invitations>>

ReadTarget(q) ==
  /\ At(q, "readTarget")
  /\ LET target == users[requests[q].email]
     IN  \/ target = NoUser /\ Answer(q)
         \/ target # NoUser /\ target.role = "owner" /\ GoTo(q, "countOwners")
         \/ target # NoUser /\ target.role # "owner" /\ GoTo(q, "deactivate")
  /\ UNCHANGED <<users, invitations>>

CountOwners(q) ==
  /\ At(q, "countOwners")
  /\ \/ Cardinality(ActiveOwners) > 1 /\ GoTo(q, "deactivate")
     \/ Cardinality(ActiveOwners) <= 1 /\ Answer(q)
  /\ UNCHANGED <<users, invitations>>

Deactivate(q) ==
  /\ At(q, "deactivate")
  /\ users' = [users EXCEPT ![requests[q].email].active = FALSE]
  /\ Answer(q)
  /\ UNCHANGED invitations

-----------------------------------------------------------------------------
(* scripts/bootstrap-owner.ts *)

StartBootstrap(q, email) ==
  /\ At(q, "idle") /\ ActiveOwners = {}
  /\ requests' = [requests EXCEPT ![q] = [Idle EXCEPT !.at = "insertOwner", !.email = email, !.role = "owner"]]
  /\ UNCHANGED <<users, invitations>>

InsertOwner(q) ==
  /\ At(q, "insertOwner")
  /\ \/ /\ users[requests[q].email] = NoUser
        /\ users' = [users EXCEPT ![requests[q].email] = [role |-> "owner", active |-> TRUE]]
     \/ /\ users[requests[q].email] # NoUser
        /\ UNCHANGED users
  /\ Answer(q)
  /\ UNCHANGED invitations

-----------------------------------------------------------------------------
\* INVITE_LIFETIME_MS are over.
Expire(i) ==
  /\ Exists(i) /\ ~invitations[i].expired
  /\ invitations' = [invitations EXCEPT ![i].expired = TRUE]
  /\ UNCHANGED <<users, requests>>

\* A statement fails, or the process dies.
Fail(q) ==
  /\ ~At(q, "idle")
  /\ Answer(q)
  /\ UNCHANGED <<users, invitations>>

Next ==
  \/ \E q \in Requests :
       \/ \E email \in Emails, role \in Roles : StartCreate(q, email, role)
       \/ CheckUser(q) \/ CheckInvite(q) \/ Mail(q)
       \/ \E i \in Invites : InsertInvite(q, i) \/ StartAccept(q, i) \/ StartRevoke(q, i)
       \/ Accept(q) \/ ReadInvite(q) \/ Revoke(q)
       \/ \E actor, target \in Emails : StartDeactivate(q, actor, target)
       \/ ReadTarget(q) \/ CountOwners(q) \/ Deactivate(q)
       \/ \E email \in Emails : StartBootstrap(q, email)
       \/ InsertOwner(q) \/ Fail(q)
  \/ \E i \in Invites : Expire(i)

Spec == Init /\ [][Next]_vars

-----------------------------------------------------------------------------
\* A single-use invitation stands for one account, with its role: no two
\* invitations of one address are accepted, and none without its account.
SingleUse ==
  /\ \A i \in Invites :
       Exists(i) /\ invitations[i].accepted =>
         /\ users[invitations[i].email] # NoUser
         /\ users[invitations[i].email].role = invitations[i].role
  /\ \A i, j \in Invites :
       /\ Exists(i) /\ Exists(j) /\ invitations[i].email = invitations[j].email
       /\ invitations[i].accepted /\ invitations[j].accepted
       => i = j

\* An invitation is of no use any more: revoked or expired and not just being
\* accepted, or its address has an account.
Dead(i) ==
  /\ Exists(i) /\ ~invitations[i].accepted
  /\ \/ users[invitations[i].email] # NoUser
     \/ /\ invitations[i].revoked \/ invitations[i].expired
        /\ \A q \in Requests : ~(At(q, "insertUser") /\ requests[q].invite = i)

\* What is dead stays dead: a revoked invitation can be accepted only by a
\* request that had read it before.
DeadStaysDead == [][\A i \in Invites : Dead(i) => Dead(i)']_vars

\* "Keep at least one active Organisation Owner account" (auth-pg.ts).
OwnerRemains == ActiveOwners # {}
=============================================================================
