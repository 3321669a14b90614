--------------------------- MODULE AccountsProofs ---------------------------
(* Staff accounts and invitations, proved for any people, invitations and  *)
(* requests.                                                               *)
EXTENDS Accounts, TLAPS

Fresh(q) == [email |-> requests[q].email, role |-> requests[q].role, mailed |-> FALSE,
             accepted |-> FALSE, revoked |-> FALSE, expired |-> FALSE]

-----------------------------------------------------------------------------
(* Types *)

LEMMA IdleState == Idle \in RequestStates /\ Idle.at = "idle"
BY DEF Idle, RequestStates, Steps, Roles

LEMMA TypeInit == Init => TypeOK
BY EmailsAssumption, IdleState DEF Init, TypeOK, Users, Roles

\* A request moves on and the tables stay.
LEMMA TypeMove ==
  ASSUME TypeOK, NEW q \in Requests, NEW r \in RequestStates,
         requests' = [requests EXCEPT ![q] = r], UNCHANGED <<users, invitations>>,
         r.at \notin {"idle", "readInvite", "revoke"} => r.email \in Emails,
         r.at \in {"mail", "insertUser", "readInvite", "revoke"} =>
           r.invite \in Invites /\ invitations[r.invite] # NoInvite,
         r.at \in {"countOwners", "deactivate"} => users[r.email] # NoUser
  PROVE  TypeOK'
BY DEF TypeOK

LEMMA TypeGoTo ==
  ASSUME TypeOK, NEW q \in Requests, NEW step \in Steps,
         GoTo(q, step), UNCHANGED <<users, invitations>>,
         step \notin {"idle", "readInvite", "revoke"} => requests[q].email \in Emails,
         step \in {"mail", "insertUser", "readInvite", "revoke"} =>
           requests[q].invite \in Invites /\ invitations[requests[q].invite] # NoInvite,
         step \in {"countOwners", "deactivate"} => users[requests[q].email] # NoUser
  PROVE  TypeOK'
<1> DEFINE r == [requests[q] EXCEPT !.at = step]
<1>1. /\ r \in RequestStates /\ r.at = step
      /\ r.email = requests[q].email /\ r.invite = requests[q].invite
  BY DEF TypeOK, RequestStates
<1>2. requests' = [requests EXCEPT ![q] = r]
  BY DEF GoTo
<1> HIDE DEF r
<1> QED BY <1>1, <1>2, TypeMove

\* A request ends, and no row vanishes.
LEMMA TypeAnswer ==
  ASSUME TypeOK, NEW q \in Requests, Answer(q),
         users' \in [Emails -> Users \cup {NoUser}],
         invitations' \in [Invites -> Invitations \cup {NoInvite}],
         \A e \in Emails : users[e] # NoUser => users'[e] # NoUser,
         \A i \in Invites : invitations[i] # NoInvite => invitations'[i] # NoInvite
  PROVE  TypeOK'
BY IdleState DEF TypeOK, Answer

\* Who writes to a row leaves a row.
LEMMA RowUpdate ==
  ASSUME TypeOK, NEW i \in Invites, NEW row \in Invitations,
         invitations' = [invitations EXCEPT ![i] = row]
  PROVE  /\ invitations' \in [Invites -> Invitations \cup {NoInvite}]
         /\ \A j \in Invites : invitations[j] # NoInvite => invitations'[j] # NoInvite
BY NullsAssumption DEF TypeOK

LEMMA UserUpdate ==
  ASSUME TypeOK, NEW e \in Emails, NEW row \in Users,
         users' = [users EXCEPT ![e] = row]
  PROVE  /\ users' \in [Emails -> Users \cup {NoUser}]
         /\ \A f \in Emails : users[f] # NoUser => users'[f] # NoUser
BY NullsAssumption DEF TypeOK

LEMMA TypeStep == TypeOK /\ [Next]_vars => TypeOK'
<1> SUFFICES ASSUME TypeOK, [Next]_vars PROVE TypeOK'
  OBVIOUS
<1>1. ASSUME NEW q \in Requests, NEW email \in Emails, NEW role \in Roles, StartCreate(q, email, role)
      PROVE  TypeOK'
  <2> DEFINE r == [Idle EXCEPT !.at = "checkUser", !.email = email, !.role = role]
  <2>1. r \in RequestStates /\ r.at = "checkUser" /\ r.email \in Emails
    BY DEF Idle, RequestStates, Steps
  <2>2. requests' = [requests EXCEPT ![q] = r] /\ UNCHANGED <<users, invitations>>
    BY <1>1 DEF StartCreate
  <2> HIDE DEF r
  <2> QED BY <2>1, <2>2, TypeMove
<1>2. ASSUME NEW q \in Requests, CheckUser(q) PROVE TypeOK'
  <2>1. requests[q].email \in Emails /\ "checkInvite" \in Steps /\ UNCHANGED <<users, invitations>>
    BY <1>2 DEF CheckUser, At, TypeOK, Steps
  <2> QED BY <1>2, <2>1, TypeGoTo, TypeAnswer DEF CheckUser, TypeOK
<1>3. ASSUME NEW q \in Requests, CheckInvite(q) PROVE TypeOK'
  <2>1. requests[q].email \in Emails /\ "insertInvite" \in Steps /\ UNCHANGED <<users, invitations>>
    BY <1>3 DEF CheckInvite, At, TypeOK, Steps
  <2> QED BY <1>3, <2>1, TypeGoTo, TypeAnswer DEF CheckInvite, TypeOK
<1>4. ASSUME NEW q \in Requests, NEW i \in Invites, InsertInvite(q, i) PROVE TypeOK'
  <2>1. Fresh(q) \in Invitations
    BY <1>4 DEF InsertInvite, TypeOK, At, RequestStates, Invitations, Fresh
  <2>2. /\ users' = users
        /\ invitations' = [invitations EXCEPT ![i] = Fresh(q)]
        /\ requests' = [requests EXCEPT ![q].at = "mail", ![q].invite = i]
        /\ requests[q].at = "insertInvite"
    BY <1>4 DEF InsertInvite, At, Fresh
  <2>3. requests' \in [Requests -> RequestStates]
    BY <2>2 DEF TypeOK, RequestStates, Steps
  <2>4. /\ invitations' \in [Invites -> Invitations \cup {NoInvite}]
        /\ \A j \in Invites : invitations[j] # NoInvite => invitations'[j] # NoInvite
        /\ invitations'[i] # NoInvite
    BY <2>1, <2>2, RowUpdate, NullsAssumption DEF TypeOK
  <2> QED BY <2>2, <2>3, <2>4 DEF TypeOK
<1>5. ASSUME NEW q \in Requests, Mail(q) PROVE TypeOK'
  <2>1. PICK mailed \in BOOLEAN : invitations' = [invitations EXCEPT ![requests[q].invite].mailed = mailed]
    BY <1>5 DEF Mail
  <2> DEFINE i == requests[q].invite
             row == [invitations[i] EXCEPT !.mailed = mailed]
  <2>2. i \in Invites /\ row \in Invitations
    BY <1>5 DEF Mail, At, TypeOK, Invitations
  <2>3. invitations' = [invitations EXCEPT ![i] = row]
    BY <2>1
  <2> HIDE DEF i, row
  <2> QED BY <1>5, <2>2, <2>3, RowUpdate, TypeAnswer DEF Mail, TypeOK
<1>6. ASSUME NEW q \in Requests, NEW i \in Invites, StartAccept(q, i) PROVE TypeOK'
  <2> DEFINE r == [at |-> "insertUser", email |-> invitations[i].email, role |-> invitations[i].role, invite |-> i]
  <2>1. invitations[i] # NoInvite /\ invitations[i] \in Invitations
    BY <1>6 DEF StartAccept, findInvitation, Pending, Exists, TypeOK
  <2>2. r \in RequestStates /\ r.at = "insertUser" /\ r.email \in Emails /\ r.invite = i
    BY <2>1 DEF Invitations, RequestStates, Steps
  <2>3. requests' = [requests EXCEPT ![q] = r] /\ UNCHANGED <<users, invitations>>
    BY <1>6 DEF StartAccept
  <2> HIDE DEF r
  <2> QED BY <2>1, <2>2, <2>3, TypeMove
<1>7. ASSUME NEW q \in Requests, Accept(q) PROVE TypeOK'
  <2> DEFINE i == requests[q].invite
             row == [invitations[i] EXCEPT !.accepted = TRUE]
             user == [role |-> requests[q].role, active |-> TRUE]
  <2>1. /\ i \in Invites /\ row \in Invitations /\ user \in Users
        /\ requests[q].email \in Emails
    BY <1>7 DEF Accept, At, TypeOK, Invitations, RequestStates, Users
  <2>2. CASE users' = [users EXCEPT ![requests[q].email] = user] /\ invitations' = [invitations EXCEPT ![i] = row]
    <3> HIDE DEF i, row, user
    <3> QED BY <1>7, <2>1, <2>2, RowUpdate, UserUpdate, TypeAnswer DEF Accept
  <2>3. CASE UNCHANGED <<users, invitations>>
    BY <1>7, <2>3, TypeAnswer DEF Accept, TypeOK
  <2> QED BY <1>7, <2>2, <2>3 DEF Accept
<1>8. ASSUME NEW q \in Requests, NEW i \in Invites, StartRevoke(q, i) PROVE TypeOK'
  <2> DEFINE r == [Idle EXCEPT !.at = "readInvite", !.invite = i]
  <2>1. r \in RequestStates /\ r.at = "readInvite" /\ r.invite = i /\ invitations[i] # NoInvite
    BY <1>8 DEF Idle, RequestStates, Steps, Roles, StartRevoke, Exists
  <2>2. requests' = [requests EXCEPT ![q] = r] /\ UNCHANGED <<users, invitations>>
    BY <1>8 DEF StartRevoke
  <2> HIDE DEF r
  <2> QED BY <2>1, <2>2, TypeMove
<1>9. ASSUME NEW q \in Requests, ReadInvite(q) PROVE TypeOK'
  <2>1. /\ requests[q].invite \in Invites /\ invitations[requests[q].invite] # NoInvite
        /\ "revoke" \in Steps /\ UNCHANGED <<users, invitations>>
    BY <1>9 DEF ReadInvite, At, TypeOK, Steps
  <2>2. CASE GoTo(q, "revoke")
    BY <2>1, <2>2, TypeGoTo
  <2>3. CASE Answer(q)
    BY <2>1, <2>3, TypeAnswer DEF TypeOK
  <2> QED BY <1>9, <2>2, <2>3 DEF ReadInvite
<1>10. ASSUME NEW q \in Requests, Revoke(q) PROVE TypeOK'
  <2> DEFINE i == requests[q].invite
             row == [invitations[i] EXCEPT !.revoked = TRUE]
  <2>1. i \in Invites /\ row \in Invitations
    BY <1>10 DEF Revoke, At, TypeOK, Invitations
  <2>2. invitations' = [invitations EXCEPT ![i] = row]
    BY <1>10 DEF Revoke
  <2> HIDE DEF i, row
  <2>3. /\ users' \in [Emails -> Users \cup {NoUser}]
        /\ \A e \in Emails : users[e] # NoUser => users'[e] # NoUser
    BY <1>10 DEF Revoke, TypeOK
  <2> QED BY <1>10, <2>1, <2>2, <2>3, RowUpdate, TypeAnswer DEF Revoke
<1>11. ASSUME NEW q \in Requests, NEW actor \in Emails, NEW target \in Emails,
              StartDeactivate(q, actor, target)
       PROVE  TypeOK'
  <2> DEFINE r == [Idle EXCEPT !.at = "readTarget", !.email = target]
  <2>1. r \in RequestStates /\ r.at = "readTarget" /\ r.email \in Emails
    BY DEF Idle, RequestStates, Steps, Roles
  <2>2. requests' = [requests EXCEPT ![q] = r] /\ UNCHANGED <<users, invitations>>
    BY <1>11 DEF StartDeactivate
  <2> HIDE DEF r
  <2> QED BY <2>1, <2>2, TypeMove
<1>12. ASSUME NEW q \in Requests, ReadTarget(q) PROVE TypeOK'
  <2>1. /\ requests[q].email \in Emails /\ UNCHANGED <<users, invitations>>
        /\ "countOwners" \in Steps /\ "deactivate" \in Steps
    BY <1>12 DEF ReadTarget, At, TypeOK, Steps
  <2>2. CASE GoTo(q, "countOwners") /\ users[requests[q].email] # NoUser
    BY <2>1, <2>2, TypeGoTo
  <2>3. CASE GoTo(q, "deactivate") /\ users[requests[q].email] # NoUser
    BY <2>1, <2>3, TypeGoTo
  <2>4. CASE Answer(q)
    BY <2>1, <2>4, TypeAnswer DEF TypeOK
  <2> QED BY <1>12, <2>2, <2>3, <2>4 DEF ReadTarget
<1>13. ASSUME NEW q \in Requests, CountOwners(q) PROVE TypeOK'
  <2>1. /\ requests[q].email \in Emails /\ "deactivate" \in Steps /\ UNCHANGED <<users, invitations>>
        /\ users[requests[q].email] # NoUser
    BY <1>13 DEF CountOwners, At, TypeOK, Steps
  <2>2. CASE GoTo(q, "deactivate")
    BY <2>1, <2>2, TypeGoTo
  <2>3. CASE Answer(q)
    BY <2>1, <2>3, TypeAnswer DEF TypeOK
  <2> QED BY <1>13, <2>2, <2>3 DEF CountOwners
<1>14. ASSUME NEW q \in Requests, Deactivate(q) PROVE TypeOK'
  <2> DEFINE e == requests[q].email
             row == [users[e] EXCEPT !.active = FALSE]
  <2>1. e \in Emails /\ row \in Users
    BY <1>14 DEF Deactivate, At, TypeOK, Users
  <2>2. users' = [users EXCEPT ![e] = row]
    BY <1>14 DEF Deactivate
  <2> HIDE DEF e, row
  <2>3. /\ invitations' \in [Invites -> Invitations \cup {NoInvite}]
        /\ \A i \in Invites : invitations[i] # NoInvite => invitations'[i] # NoInvite
    BY <1>14 DEF Deactivate, TypeOK
  <2> QED BY <1>14, <2>1, <2>2, <2>3, UserUpdate, TypeAnswer DEF Deactivate
<1>15. ASSUME NEW q \in Requests, NEW email \in Emails, StartBootstrap(q, email) PROVE TypeOK'
  <2> DEFINE r == [Idle EXCEPT !.at = "insertOwner", !.email = email, !.role = "owner"]
  <2>1. r \in RequestStates /\ r.at = "insertOwner" /\ r.email \in Emails
    BY DEF Idle, RequestStates, Steps, Roles
  <2>2. requests' = [requests EXCEPT ![q] = r] /\ UNCHANGED <<users, invitations>>
    BY <1>15 DEF StartBootstrap
  <2> HIDE DEF r
  <2> QED BY <2>1, <2>2, TypeMove
<1>16. ASSUME NEW q \in Requests, InsertOwner(q) PROVE TypeOK'
  <2> DEFINE row == [role |-> "owner", active |-> TRUE]
  <2>1. requests[q].email \in Emails /\ row \in Users
    BY <1>16 DEF InsertOwner, At, TypeOK, Users, Roles
  <2>2. CASE users' = [users EXCEPT ![requests[q].email] = row]
    <3> HIDE DEF row
    <3> QED BY <1>16, <2>1, <2>2, UserUpdate, TypeAnswer DEF InsertOwner, TypeOK
  <2>3. CASE UNCHANGED users
    BY <1>16, <2>3, TypeAnswer DEF InsertOwner, TypeOK
  <2> QED BY <1>16, <2>2, <2>3 DEF InsertOwner
<1>17. ASSUME NEW q \in Requests, Fail(q) PROVE TypeOK'
  BY <1>17, TypeAnswer DEF Fail, TypeOK
<1>18. ASSUME NEW i \in Invites, Expire(i) PROVE TypeOK'
  <2> DEFINE row == [invitations[i] EXCEPT !.expired = TRUE]
  <2>1. row \in Invitations
    BY <1>18 DEF Expire, Exists, TypeOK, Invitations
  <2>2. invitations' = [invitations EXCEPT ![i] = row] /\ UNCHANGED <<users, requests>>
    BY <1>18 DEF Expire
  <2> HIDE DEF row
  <2> QED BY <2>1, <2>2, RowUpdate DEF TypeOK
<1>19. CASE UNCHANGED vars
  BY <1>19 DEF TypeOK, vars
<1> QED BY <1>1, <1>2, <1>3, <1>4, <1>5, <1>6, <1>7, <1>8, <1>9, <1>10, <1>11, <1>12, <1>13,
           <1>14, <1>15, <1>16, <1>17, <1>18, <1>19 DEF Next

\* Type correctness for any people, invitations and requests.
THEOREM TypeCorrect == Spec => []TypeOK
BY TypeInit, TypeStep, PTL DEF Spec

-----------------------------------------------------------------------------
(* Invitations *)

\* Whoever accepts an invitation knows its row, of which email and role never
\* change.
Informed ==
  \A q \in Requests : At(q, "insertUser") =>
    /\ requests[q].email = invitations[requests[q].invite].email
    /\ requests[q].role = invitations[requests[q].invite].role

AccountInv == Informed /\ SingleUse

\* Nobody starts to accept in this step.
NobodyNew ==
  \A p \in Requests : At(p, "insertUser")' => At(p, "insertUser") /\ UNCHANGED requests[p]

\* The steps that write no row and start no acceptance.
Move(q) ==
  \/ \E email \in Emails, role \in Roles : StartCreate(q, email, role)
  \/ \E email \in Emails : StartBootstrap(q, email)
  \/ \E actor, target \in Emails : StartDeactivate(q, actor, target)
  \/ \E i \in Invites : StartRevoke(q, i)
  \/ CheckUser(q) \/ CheckInvite(q) \/ ReadInvite(q) \/ ReadTarget(q) \/ CountOwners(q)
  \/ Fail(q)

\* The steps that mark an invitation, and what they write.
Mark ==
  \/ \E q \in Requests : Mail(q) \/ Revoke(q)
  \/ \E i \in Invites : Expire(i)
Marked(i, row) ==
  /\ Exists(i) /\ invitations' = [invitations EXCEPT ![i] = row]
  /\ row.email = invitations[i].email /\ row.role = invitations[i].role
  /\ row.accepted = invitations[i].accepted
  /\ invitations[i].revoked => row.revoked
  /\ invitations[i].expired => row.expired

LEMMA Answers == ASSUME TypeOK, NEW q \in Requests, Answer(q) PROVE NobodyNew
BY DEF Answer, TypeOK, At, Idle, NobodyNew

LEMMA Moves ==
  ASSUME TypeOK, NEW q \in Requests, Move(q)
  PROVE  UNCHANGED <<users, invitations>> /\ NobodyNew
<1>1. UNCHANGED <<users, invitations>>
  BY DEF Move, StartCreate, StartBootstrap, StartDeactivate, StartRevoke, CheckUser, CheckInvite,
         ReadInvite, ReadTarget, CountOwners, Fail
<1>2. CASE \/ \E email \in Emails, role \in Roles : StartCreate(q, email, role)
           \/ \E email \in Emails : StartBootstrap(q, email)
           \/ \E actor, target \in Emails : StartDeactivate(q, actor, target)
           \/ \E i \in Invites : StartRevoke(q, i)
  BY <1>2 DEF StartCreate, StartBootstrap, StartDeactivate, StartRevoke, Idle, TypeOK, At, NobodyNew
<1>3. ASSUME NEW step \in Steps \ {"insertUser"}, GoTo(q, step)
      PROVE  NobodyNew
  BY <1>3 DEF GoTo, TypeOK, RequestStates, At, NobodyNew
<1>4. CASE CheckUser(q) \/ CheckInvite(q) \/ ReadInvite(q) \/ ReadTarget(q) \/ CountOwners(q) \/ Fail(q)
  <2>1. Answer(q) \/ \E step \in Steps \ {"insertUser"} : GoTo(q, step)
    BY <1>4 DEF CheckUser, CheckInvite, ReadInvite, ReadTarget, CountOwners, Fail, Steps
  <2>2. NobodyNew
    BY <2>1, <1>3, Answers
  <2> QED BY <1>1, <2>2
<1> QED BY <1>1, <1>2, <1>4 DEF Move

LEMMA Marks ==
  ASSUME TypeOK, Mark
  PROVE  /\ UNCHANGED users /\ NobodyNew
         /\ \E i \in Invites, row \in Invitations : Marked(i, row)
<1>1. ASSUME NEW q \in Requests, Mail(q)
      PROVE  \E i \in Invites, row \in Invitations : Marked(i, row)
  <2>1. PICK i \in Invites : i = requests[q].invite /\ Exists(i) /\ invitations[i] \in Invitations
    BY <1>1 DEF Mail, At, TypeOK, Exists
  <2>2. PICK mailed \in BOOLEAN : invitations' = [invitations EXCEPT ![i].mailed = mailed]
    BY <1>1, <2>1 DEF Mail
  <2> DEFINE row == [invitations[i] EXCEPT !.mailed = mailed]
  <2>3. /\ row \in Invitations /\ row.email = invitations[i].email
        /\ row.role = invitations[i].role /\ row.accepted = invitations[i].accepted
        /\ row.revoked = invitations[i].revoked /\ row.expired = invitations[i].expired
    BY <2>1 DEF Invitations
  <2>4. invitations' = [invitations EXCEPT ![i] = row]
    BY <2>2
  <2> HIDE DEF row
  <2> QED BY <2>1, <2>3, <2>4 DEF Marked
<1>2. ASSUME NEW q \in Requests, Revoke(q)
      PROVE  \E i \in Invites, row \in Invitations : Marked(i, row)
  <2>1. PICK i \in Invites : i = requests[q].invite /\ Exists(i) /\ invitations[i] \in Invitations
    BY <1>2 DEF Revoke, At, TypeOK, Exists
  <2> DEFINE row == [invitations[i] EXCEPT !.revoked = TRUE]
  <2>2. /\ row \in Invitations /\ row.email = invitations[i].email
        /\ row.role = invitations[i].role /\ row.accepted = invitations[i].accepted
        /\ row.revoked /\ row.expired = invitations[i].expired
    BY <2>1 DEF Invitations
  <2>3. invitations' = [invitations EXCEPT ![i] = row]
    BY <1>2, <2>1 DEF Revoke
  <2> HIDE DEF row
  <2> QED BY <2>1, <2>2, <2>3 DEF Marked
<1>3. ASSUME NEW i \in Invites, Expire(i)
      PROVE  \E row \in Invitations : Marked(i, row)
  <2>1. Exists(i) /\ invitations[i] \in Invitations
    BY <1>3 DEF Expire, TypeOK, Exists
  <2> DEFINE row == [invitations[i] EXCEPT !.expired = TRUE]
  <2>2. /\ row \in Invitations /\ row.email = invitations[i].email
        /\ row.role = invitations[i].role /\ row.accepted = invitations[i].accepted
        /\ row.expired /\ row.revoked = invitations[i].revoked
    BY <2>1 DEF Invitations
  <2>3. invitations' = [invitations EXCEPT ![i] = row]
    BY <1>3 DEF Expire
  <2> HIDE DEF row
  <2> QED BY <2>1, <2>2, <2>3 DEF Marked
<1>4. UNCHANGED users /\ NobodyNew
  BY Answers DEF Mark, Mail, Revoke, Expire, NobodyNew, At
<1> QED BY <1>1, <1>2, <1>3, <1>4 DEF Mark

LEMMA AccountInit == Init => AccountInv
BY NullsAssumption DEF Init, AccountInv, Informed, SingleUse, Exists, At, Idle

\* Neither tables nor those who accept change.
LEMMA AccountMove ==
  ASSUME TypeOK, AccountInv, UNCHANGED <<users, invitations>>,
         NobodyNew
  PROVE  AccountInv'
BY DEF TypeOK, AccountInv, Informed, SingleUse, Exists, At, NobodyNew

\* A row is marked, and is not being accepted.
LEMMA AccountMark ==
  ASSUME TypeOK, AccountInv, NEW i \in Invites, Exists(i), Exists(i)', UNCHANGED users,
         NobodyNew,
         \A j \in Invites : j # i => UNCHANGED invitations[j],
         UNCHANGED <<invitations[i].email, invitations[i].role, invitations[i].accepted>>
  PROVE  AccountInv'
<1>1. \A j \in Invites : /\ Exists(j)' <=> Exists(j)
                        /\ UNCHANGED <<invitations[j].email, invitations[j].role, invitations[j].accepted>>
  BY DEF Exists
<1>2. Informed'
  BY <1>1 DEF AccountInv, Informed, TypeOK, At, NobodyNew
<1>3. SingleUse'
  BY <1>1 DEF AccountInv, SingleUse
<1> QED BY <1>2, <1>3 DEF AccountInv

LEMMA AccountStep == TypeOK /\ AccountInv /\ [Next]_vars => AccountInv'
<1> SUFFICES ASSUME TypeOK, AccountInv, [Next]_vars PROVE AccountInv'
  OBVIOUS
<1>1. ASSUME NEW q \in Requests, Move(q) PROVE AccountInv'
  BY <1>1, Moves, AccountMove
<1>2. ASSUME NEW q \in Requests, NEW i \in Invites, InsertInvite(q, i) PROVE AccountInv'
  <2>1. /\ ~Exists(i) /\ UNCHANGED users
        /\ invitations' = [invitations EXCEPT ![i] = Fresh(q)] /\ ~Fresh(q).accepted
        /\ requests' = [requests EXCEPT ![q].at = "mail", ![q].invite = i]
    BY <1>2 DEF InsertInvite, Fresh
  <2>2. Informed'
    <3> SUFFICES ASSUME NEW p \in Requests, At(p, "insertUser")'
                 PROVE  /\ requests'[p].email = invitations'[requests'[p].invite].email
                        /\ requests'[p].role = invitations'[requests'[p].invite].role
      BY DEF Informed, At
    <3>1. p # q /\ requests'[p] = requests[p] /\ At(p, "insertUser")
      BY <2>1 DEF TypeOK, At, RequestStates
    <3>2. requests[p].invite # i /\ requests[p].invite \in Invites
      BY <2>1, <3>1 DEF TypeOK, At, Exists
    <3> QED BY <2>1, <3>1, <3>2 DEF AccountInv, Informed, TypeOK
  <2>3. SingleUse'
    <3>1. \A j \in Invites : Exists(j)' /\ invitations'[j].accepted =>
            j # i /\ Exists(j) /\ invitations'[j] = invitations[j]
      BY <2>1 DEF TypeOK, Exists
    <3> QED BY <2>1, <3>1 DEF AccountInv, SingleUse
  <2> QED BY <2>2, <2>3 DEF AccountInv
<1>3. ASSUME NEW q \in Requests, NEW i \in Invites, StartAccept(q, i) PROVE AccountInv'
  <2>1. /\ UNCHANGED <<users, invitations>>
        /\ requests' = [requests EXCEPT ![q] =
             [at |-> "insertUser", email |-> invitations[i].email, role |-> invitations[i].role, invite |-> i]]
    BY <1>3 DEF StartAccept
  <2>2. Informed'
    BY <2>1 DEF AccountInv, Informed, TypeOK, At
  <2>3. SingleUse'
    BY <2>1 DEF AccountInv, SingleUse, Exists
  <2> QED BY <2>2, <2>3 DEF AccountInv
<1>4. ASSUME NEW q \in Requests, Accept(q) PROVE AccountInv'
  <2>0. PICK i \in Invites, e \in Emails : i = requests[q].invite /\ e = requests[q].email
    BY <1>4 DEF Accept, At, TypeOK
  <2>1. /\ i \in Invites /\ e \in Emails /\ Exists(i) /\ invitations[i] \in Invitations
        /\ requests[q].role \in Roles
    BY <1>4, <2>0 DEF Accept, At, TypeOK, Exists, RequestStates
  <2>2. e = invitations[i].email /\ requests[q].role = invitations[i].role
    BY <1>4, <2>0 DEF Accept, AccountInv, Informed
  <2>3. CASE UNCHANGED <<users, invitations>>
    <3>1. NobodyNew
      BY <1>4, Answers DEF Accept
    <3> QED BY <2>3, <3>1, AccountMove
  <2>4. CASE /\ users[e] = NoUser
             /\ users' = [users EXCEPT ![e] = [role |-> requests[q].role, active |-> TRUE]]
             /\ invitations' = [invitations EXCEPT ![i].accepted = TRUE]
    <3>1. \A j \in Invites :
            /\ Exists(j)' <=> Exists(j)
            /\ Exists(j) => /\ invitations'[j].email = invitations[j].email
                            /\ invitations'[j].role = invitations[j].role
                            /\ j # i => invitations'[j].accepted = invitations[j].accepted
      <4>1. invitations'[i] \in Invitations
        BY <2>1, <2>4 DEF TypeOK, Invitations
      <4>2. Exists(i)'
        BY <4>1, NullsAssumption DEF Exists
      <4> QED BY <2>1, <2>4, <4>2 DEF TypeOK, Exists, Invitations
    <3>2. \A p \in Requests : At(p, "insertUser")' =>
            At(p, "insertUser") /\ requests'[p] = requests[p]
      BY <1>4 DEF Accept, Answer, TypeOK, At, Idle
    <3>3. Informed'
      BY <3>1, <3>2 DEF AccountInv, Informed, TypeOK, At, Exists
    <3>4. users'[e] # NoUser /\ users'[e].role = requests[q].role
      <4>1. users'[e] = [role |-> requests[q].role, active |-> TRUE]
        BY <2>1, <2>4 DEF TypeOK
      <4>2. users'[e] \in Users
        BY <2>1, <4>1 DEF Users
      <4>3. users'[e].role = requests[q].role
        BY <4>1
      <4>4. users'[e] # NoUser
        BY <4>2, NullsAssumption
      <4> QED BY <4>3, <4>4
    <3>5. \A j \in Invites : Exists(j) /\ invitations[j].accepted => invitations[j].email # e
      BY <2>4 DEF AccountInv, SingleUse
    <3>6. \A f \in Emails : f # e => users'[f] = users[f]
      BY <2>1, <2>4 DEF TypeOK
    <3>7. \A j \in Invites : Exists(j) => invitations[j].email \in Emails
      BY DEF TypeOK, Exists, Invitations
    <3>8. SingleUse'
      BY <2>1, <2>2, <3>1, <3>4, <3>5, <3>6, <3>7 DEF AccountInv, SingleUse
    <3> QED BY <3>3, <3>8 DEF AccountInv
  <2> QED BY <1>4, <2>0, <2>3, <2>4 DEF Accept
<1>5. CASE Mark
  <2>1. PICK i \in Invites, row \in Invitations : Marked(i, row)
    BY <1>5, Marks
  <2>2. /\ Exists(i)' /\ \A j \in Invites : j # i => UNCHANGED invitations[j]
        /\ UNCHANGED <<invitations[i].email, invitations[i].role, invitations[i].accepted>>
    BY <2>1, NullsAssumption DEF Marked, TypeOK, Exists
  <2> QED BY <2>1, <2>2, AccountMark, <1>5, Marks DEF Marked
<1>6. ASSUME NEW q \in Requests, Deactivate(q) PROVE AccountInv'
  <2> DEFINE e == requests[q].email
  <2>1. /\ e \in Emails /\ users[e] # NoUser /\ users[e] \in Users
        /\ users' = [users EXCEPT ![e].active = FALSE]
        /\ UNCHANGED invitations /\ Answer(q)
    BY <1>6 DEF Deactivate, At, TypeOK
  <2>2. users'[e] \in Users /\ users'[e].role = users[e].role
    BY <2>1 DEF TypeOK, Users
  <2>3. \A f \in Emails : users[f] # NoUser => users'[f] # NoUser /\ users'[f].role = users[f].role
    BY <2>1, <2>2, NullsAssumption DEF TypeOK
  <2>4. \A j \in Invites : Exists(j) => invitations[j].email \in Emails
    BY DEF TypeOK, Exists, Invitations
  <2>5. Informed'
    BY <2>1 DEF AccountInv, Informed, Answer, TypeOK, At, Idle
  <2>6. SingleUse'
    <3> HIDE DEF e
    <3>1. \A j \in Invites : (Exists(j)' <=> Exists(j)) /\ invitations'[j] = invitations[j]
      BY <2>1 DEF Exists
    <3> QED BY <3>1, <2>3, <2>4 DEF AccountInv, SingleUse
  <2> QED BY <2>5, <2>6 DEF AccountInv
<1>7. ASSUME NEW q \in Requests, InsertOwner(q) PROVE AccountInv'
  <2> DEFINE e == requests[q].email
  <2>1. UNCHANGED invitations /\ Answer(q) /\ e \in Emails
    BY <1>7 DEF InsertOwner, At, TypeOK
  <2>2. \A f \in Emails : users[f] # NoUser => users'[f] = users[f]
    BY <1>7, <2>1 DEF InsertOwner, TypeOK
  <2>3. \A j \in Invites : Exists(j) => invitations[j].email \in Emails
    BY DEF TypeOK, Exists, Invitations
  <2>4. Informed'
    BY <2>1 DEF AccountInv, Informed, Answer, TypeOK, At, Idle
  <2>5. SingleUse'
    <3>1. \A j \in Invites : (Exists(j)' <=> Exists(j)) /\ invitations'[j] = invitations[j]
      BY <2>1 DEF Exists
    <3> HIDE DEF e
    <3> QED BY <3>1, <2>2, <2>3 DEF AccountInv, SingleUse
  <2> QED BY <2>4, <2>5 DEF AccountInv
<1>8. CASE UNCHANGED vars
  BY <1>8 DEF vars, AccountInv, Informed, SingleUse, Exists, At
<1> QED BY <1>1, <1>2, <1>3, <1>4, <1>5, <1>6, <1>7, <1>8 DEF Next, Move, Mark

\* An invitation is single-use: it is accepted together with its account, and at
\* most one of an address is, whatever requests race.
THEOREM AcceptedOnce == Spec => []SingleUse
<1>1. Init => AccountInv
  BY AccountInit
<1>2. TypeOK /\ AccountInv /\ [Next]_vars => AccountInv'
  BY AccountStep
<1>3. AccountInv => SingleUse
  BY DEF AccountInv
<1> QED BY <1>1, <1>2, <1>3, TypeCorrect, PTL DEF Spec

\* A step that does not accept leaves the dead dead.
LEMMA DeadStep ==
  ASSUME TypeOK, AccountInv, NEW i \in Invites, Dead(i), Exists(i)',
         UNCHANGED <<invitations[i].email, invitations[i].accepted>>,
         users[invitations[i].email] # NoUser => users'[invitations[i].email] # NoUser,
         invitations[i].revoked => invitations'[i].revoked,
         invitations[i].expired => invitations'[i].expired,
         \A q \in Requests : At(q, "insertUser")' /\ requests'[q].invite = i =>
            At(q, "insertUser") /\ requests[q].invite = i
  PROVE  Dead(i)'
BY DEF Dead

LEMMA DeadKept == TypeOK /\ AccountInv /\ [Next]_vars => \A i \in Invites : Dead(i) => Dead(i)'
<1> SUFFICES ASSUME TypeOK, AccountInv, [Next]_vars, NEW i \in Invites, Dead(i) PROVE Dead(i)'
  OBVIOUS
<1>0. /\ Exists(i) /\ ~invitations[i].accepted
      /\ invitations[i] \in Invitations /\ invitations[i].email \in Emails
  BY DEF Dead, Exists, TypeOK, Invitations
<1>a. ASSUME UNCHANGED invitations, NobodyNew,
             users[invitations[i].email] # NoUser => users'[invitations[i].email] # NoUser
      PROVE  Dead(i)'
  BY <1>0, <1>a, DeadStep DEF NobodyNew, Exists
<1>1. ASSUME NEW q \in Requests, Move(q) PROVE Dead(i)'
  BY <1>1, <1>a, Moves
<1>2. ASSUME NEW q \in Requests, NEW j \in Invites, InsertInvite(q, j) PROVE Dead(i)'
  <2>1. /\ j # i /\ UNCHANGED <<users, invitations[i]>>
        /\ requests' = [requests EXCEPT ![q].at = "mail", ![q].invite = j]
    BY <1>0, <1>2 DEF InsertInvite, TypeOK
  <2>2. NobodyNew
    BY <2>1 DEF NobodyNew, TypeOK, At, RequestStates
  <2> QED BY <1>0, <2>1, <2>2, DeadStep DEF NobodyNew, Exists
<1>3. ASSUME NEW q \in Requests, NEW j \in Invites, StartAccept(q, j) PROVE Dead(i)'
  <2>1. /\ Pending(j) /\ UNCHANGED <<users, invitations>>
        /\ requests' = [requests EXCEPT ![q] =
             [at |-> "insertUser", email |-> invitations[j].email, role |-> invitations[j].role, invite |-> j]]
    BY <1>3 DEF StartAccept, findInvitation
  <2>2. CASE j = i
    <3>1. users[invitations[i].email] # NoUser
      BY <2>1, <2>2 DEF Dead, Pending
    <3> QED BY <1>0, <2>1, <3>1 DEF Dead, Exists
  <2>3. CASE j # i
    <3>1. \A p \in Requests : At(p, "insertUser")' /\ requests'[p].invite = i =>
            At(p, "insertUser") /\ requests[p].invite = i
      BY <2>1, <2>3 DEF TypeOK, At
    <3> QED BY <1>0, <2>1, <3>1, DeadStep DEF Exists
  <2> QED BY <2>2, <2>3
<1>4. ASSUME NEW q \in Requests, Accept(q) PROVE Dead(i)'
  <2>1. NobodyNew
    BY <1>4, Answers DEF Accept
  <2>2. CASE UNCHANGED <<users, invitations>>
    BY <1>a, <2>1, <2>2
  <2>3. PICK j \in Invites, e \in Emails : /\ j = requests[q].invite /\ e = requests[q].email
                                          /\ e = invitations[j].email
    BY <1>4 DEF Accept, At, TypeOK, AccountInv, Informed
  <2>4. CASE /\ users[e] = NoUser
             /\ users' = [users EXCEPT ![e] = [role |-> requests[q].role, active |-> TRUE]]
             /\ invitations' = [invitations EXCEPT ![j].accepted = TRUE]
    <3>1. j # i
      BY <1>4, <2>3, <2>4 DEF Dead, Accept
    <3>2. UNCHANGED invitations[i]
      BY <2>4, <3>1 DEF TypeOK
    <3>3. users[invitations[i].email] # NoUser => users'[invitations[i].email] # NoUser
      BY <1>0, <2>4 DEF TypeOK
    <3> QED BY <1>0, <2>1, <3>2, <3>3, DeadStep DEF NobodyNew, Exists
  <2> QED BY <1>4, <2>2, <2>3, <2>4 DEF Accept
<1>5. CASE Mark
  <2>1. PICK j \in Invites, row \in Invitations : Marked(j, row)
    BY <1>5, Marks
  <2>2. /\ Exists(i)'
        /\ UNCHANGED <<invitations[i].email, invitations[i].accepted>>
        /\ invitations[i].revoked => invitations'[i].revoked
        /\ invitations[i].expired => invitations'[i].expired
    BY <1>0, <2>1, NullsAssumption DEF Marked, TypeOK, Exists
  <2> QED BY <1>5, <2>2, Marks, DeadStep DEF NobodyNew
<1>6. ASSUME NEW q \in Requests, Deactivate(q) PROVE Dead(i)'
  <2>1. NobodyNew /\ UNCHANGED invitations
    BY <1>6, Answers DEF Deactivate
  <2>2. PICK e \in Emails : e = requests[q].email /\ users[e] \in Users
    BY <1>6 DEF Deactivate, At, TypeOK
  <2>3. [users[e] EXCEPT !.active = FALSE] \in Users
    BY <2>2 DEF Users
  <2>4. users' = [users EXCEPT ![e] = [users[e] EXCEPT !.active = FALSE]]
    BY <1>6, <2>2 DEF Deactivate
  <2> QED BY <1>a, <1>0, <2>1, <2>3, <2>4, UserUpdate
<1>7. ASSUME NEW q \in Requests, InsertOwner(q) PROVE Dead(i)'
  <2>1. NobodyNew /\ UNCHANGED invitations
    BY <1>7, Answers DEF InsertOwner
  <2>2. users[invitations[i].email] # NoUser => users'[invitations[i].email] # NoUser
    BY <1>0, <1>7 DEF InsertOwner, TypeOK
  <2> QED BY <1>a, <2>1, <2>2
<1>8. CASE UNCHANGED vars
  BY <1>8 DEF vars, Dead, Exists, At
<1> QED BY <1>1, <1>2, <1>3, <1>4, <1>5, <1>6, <1>7, <1>8 DEF Next, Move, Mark

\* What is dead stays dead: after revokeInvitation only a request that had read
\* the invitation before can still accept it.
THEOREM NoResurrection == Spec => DeadStaysDead
<1>1. Init => AccountInv
  BY AccountInit
<1>2. TypeOK /\ AccountInv /\ [Next]_vars => AccountInv'
  BY AccountStep
<1>3. TypeOK /\ AccountInv /\ [Next]_vars => [\A i \in Invites : Dead(i) => Dead(i)']_vars
  BY DeadKept
<1> QED BY <1>1, <1>2, <1>3, TypeCorrect, PTL DEF Spec, DeadStaysDead
=============================================================================
