--------------------------------- MODULE Mfa ---------------------------------
(***************************************************************************)
(* The second factor of one member of staff: server/auth-pg.ts (TOTP and   *)
(* recovery codes), services/passkeys.ts, http/guards.ts and the handlers  *)
(* of routes/auth.ts, statement by statement where they interleave, and    *)
(* the pages that call them in several browsers: features/auth and the     *)
(* security card of features/settings/SettingsPage.tsx.                    *)
(*                                                                         *)
(* TOTP secrets and batches of recovery codes are numbered in the order of *)
(* their making.  The right code of a secret is the secret's number.       *)
(* Whether a passkey answers the session's challenge is for the library to *)
(* say.  The password is right; wrong ones change nothing.                 *)
(***************************************************************************)
EXTENDS Naturals, FiniteSets

CONSTANTS
  Browsers,
  Slots,       \* requests under way at a time
  CodeCount,   \* RECOVERY_CODE_COUNT
  MaxSecrets,  \* bound: secrets ever made
  MaxBatches,  \* bound: batches of recovery codes ever made
  MaxPosts     \* bound: things the user asks for

ASSUME MfaAssumption ==
  /\ CodeCount \in Nat \ {0} /\ MaxSecrets \in Nat \ {0} /\ MaxBatches \in Nat \ {0}
  /\ MaxPosts \in Nat /\ IsFiniteSet(Slots)

None == 0
NoSlot == "noSlot"
NoBrowser == "noBrowser"
Batches == 1 .. MaxBatches
Batch(b) == {b} \X (1 .. CodeCount)
Codes == Batches \X (1 .. CodeCount)
NoCode == <<None, None>>
Ceremonies == {"primary", "second", "register"}

VARIABLES
  user,     \* the row of users
  rows,     \* mfa_recovery_codes
  spent,    \* those with used_at
  passkeys, \* rows of passkeys
  session,  \* of the cookie of each browser
  request, page,
  phone,    \* secrets scanned by the authenticator app
  secrets, batches, posts,
  uses,     \* ghost: how often each recovery code signed somebody in
  crossed   \* ghost: batches whose transaction met another one, not both of confirmations

server == <<user, rows, spent, passkeys>>
made == <<secrets, batches>>
vars == <<server, session, request, page, phone, made, posts, uses, crossed>>

NoSession == [stage |-> "none", ceremonies |-> {}]
Full == [stage |-> "full", ceremonies |-> {}]
SignIn == [at |-> "signin", secret |-> None, batch |-> None, busy |-> NoSlot]
Idle == [of |-> NoBrowser, kind |-> "login", at |-> "idle", typed |-> None, code |-> NoCode, ceremony |-> "second",
         pre |-> FALSE, seen |-> {}, cross |-> FALSE, made |-> None, answer |-> "none"]
Kinds == {"login", "start", "confirm", "verify", "recover", "regenerate", "options", "passkey"}
\* posted; its guards passed; the first statement of its transaction done;
\* committed; answered.
Steps == {"idle", "posted", "checked", "deleted", "committed", "answered"}
Answers == {"none", "enrol", "challenge", "home", "done", "refused", "unauthorized", "failed"}

TypeOK ==
  /\ user \in [required : BOOLEAN, secret : 0 .. MaxSecrets, pending : 0 .. MaxSecrets, passkey : BOOLEAN]
  /\ rows \subseteq Codes /\ spent \subseteq rows
  /\ passkeys \in Nat
  /\ session \in [Browsers -> [stage : {"none", "password", "full"}, ceremonies : SUBSET Ceremonies]]
  /\ request \in [Slots -> [of : Browsers \cup {NoBrowser}, kind : Kinds, at : Steps, typed : 0 .. MaxSecrets,
                            code : Codes \cup {NoCode}, ceremony : Ceremonies, pre : BOOLEAN,
                            seen : SUBSET Codes, cross : BOOLEAN,
                            made : 0 .. MaxSecrets \cup 0 .. MaxBatches, answer : Answers]]
  /\ page \in [Browsers -> [at : {"signin", "challenge", "enrol", "codes", "home"}, secret : 0 .. MaxSecrets,
                            batch : 0 .. MaxBatches, busy : Slots \cup {NoSlot}]]
  /\ phone \subseteq 1 .. MaxSecrets
  /\ secrets \in 0 .. MaxSecrets /\ batches \in 0 .. MaxBatches /\ posts \in 0 .. MaxPosts
  /\ uses \in [Codes -> Nat] /\ crossed \subseteq Batches

-----------------------------------------------------------------------------
(* The pages *)

\* A button disables the page's other ones until its request is answered.
Post(s, b, r) ==
  /\ request[s] = Idle /\ posts < MaxPosts
  /\ page[b].busy = NoSlot
  /\ posts' = posts + 1
  /\ request' = [request EXCEPT ![s] = [r EXCEPT !.of = b, !.at = "posted"]]
  /\ page' = [page EXCEPT ![b].busy = s]
  /\ UNCHANGED <<server, session, made, uses, crossed>>

\* LoginPage: the password, or a passkey at once.
PostLogin(s, b) ==
  /\ page[b].at = "signin"
  /\ \/ Post(s, b, [Idle EXCEPT !.kind = "login"])
     \/ Post(s, b, [Idle EXCEPT !.kind = "options", !.ceremony = "primary"])
  /\ UNCHANGED phone

\* MfaChallenge: a code of the phone or a wrong one, a recovery code that was
\* on the screen once, a passkey.
PostChallenge(s, b) ==
  /\ page[b].at = "challenge"
  /\ \/ \E x \in phone \cup {None} : Post(s, b, [Idle EXCEPT !.kind = "verify", !.typed = x])
     \/ \E c \in Codes : c[1] <= batches /\ Post(s, b, [Idle EXCEPT !.kind = "recover", !.code = c])
     \/ Post(s, b, [Idle EXCEPT !.kind = "options", !.ceremony = "second"])
  /\ UNCHANGED phone

\* MfaEnrollment: the code of the secret on the screen, now on the phone too,
\* or another one of the phone; or a passkey instead.
PostEnrol(s, b) ==
  /\ page[b].at = "enrol" /\ page[b].secret # None
  /\ \/ /\ phone' = phone \cup {page[b].secret}
        /\ \E x \in phone' : Post(s, b, [Idle EXCEPT !.kind = "confirm", !.typed = x])
     \/ /\ Post(s, b, [Idle EXCEPT !.kind = "options", !.ceremony = "register"])
        /\ UNCHANGED phone

\* SettingsPage: regenerate and addPasskey.
PostSettings(s, b) ==
  /\ page[b].at = "home"
  /\ \/ \E x \in phone \cup {None} : Post(s, b, [Idle EXCEPT !.kind = "regenerate", !.typed = x])
     \/ Post(s, b, [Idle EXCEPT !.kind = "options", !.ceremony = "register"])
  /\ UNCHANGED phone

\* "Continue to the dashboard", once the codes are said to be stored.
Continue(b) ==
  /\ page[b].at = "codes"
  /\ page' = [page EXCEPT ![b] = [SignIn EXCEPT !.at = "home"]]
  /\ UNCHANGED <<server, session, request, phone, made, posts, uses, crossed>>

\* The page is loaded anew; what it had asked for runs on, unheard.
Reload(b) ==
  /\ page' = [page EXCEPT ![b] = IF session[b].stage = "full" THEN [SignIn EXCEPT !.at = "home"] ELSE SignIn]
  /\ page' # page
  /\ UNCHANGED <<server, session, request, phone, made, posts, uses, crossed>>

\* A logout, or the session or its fifteen minutes before the second factor
\* are over.
SessionEnds(b) ==
  /\ session[b] # NoSession
  /\ session' = [session EXCEPT ![b] = NoSession]
  /\ \/ page[b].at = "home" /\ page' = [page EXCEPT ![b] = SignIn]
     \/ UNCHANGED page
  /\ UNCHANGED <<server, request, phone, made, posts, uses, crossed>>

\* A slip: the page goes where the answer to the password says, an error too.
AfterVerbatim(r, p) ==
  LET rest == [p EXCEPT !.busy = NoSlot]
  IN  IF r.kind = "login" THEN [rest EXCEPT !.at = r.answer] ELSE rest

\* What the page does with an answer.  After the password it starts the
\* enrolment by itself, after the options it prompts for the passkey.  A 401
\* takes the workspace off the screen, whatever it was about (api/client.ts).
After(r, p) ==
  LET rest == [p EXCEPT !.busy = NoSlot]
  IN  CASE r.answer = "unauthorized" -> IF p.at = "home" THEN SignIn ELSE rest
        [] r.answer \in {"refused", "failed", "done"} /\ r.kind \notin {"start", "confirm"} -> rest
        [] r.kind = "login" /\ r.answer \in {"enrol", "challenge"} -> [rest EXCEPT !.at = r.answer]
        [] r.kind = "start" /\ r.answer # "unauthorized" -> [rest EXCEPT !.secret = r.made]
        [] r.kind = "confirm" /\ r.answer # "unauthorized" -> IF r.answer = "done" THEN [rest EXCEPT !.at = "codes", !.batch = r.made] ELSE rest
        [] r.answer = "home" -> [SignIn EXCEPT !.at = "home"]

Told(s) ==
  LET r == request[s]
      b == r.of
      heard == page[b].busy = s
  IN  /\ r.at = "answered"
      /\ \/ /\ heard /\ r.kind = "login" /\ r.answer = "enrol"
            /\ request' = [request EXCEPT ![s] = [Idle EXCEPT !.of = b, !.kind = "start", !.at = "posted"]]
            /\ page' = [page EXCEPT ![b].at = "enrol"]
         \/ /\ heard /\ r.kind = "options" /\ r.answer = "done"
            /\ request' = [request EXCEPT ![s] = [Idle EXCEPT !.of = b, !.kind = "passkey",
                                                  !.ceremony = r.ceremony, !.at = "posted"]]
            /\ UNCHANGED page
         \/ /\ ~(r.kind = "login" /\ r.answer = "enrol") \/ ~heard
            /\ request' = [request EXCEPT ![s] = Idle]
            /\ page' = IF heard THEN [page EXCEPT ![b] = After(r, @)] ELSE page
      /\ UNCHANGED <<server, session, phone, made, posts, uses, crossed>>

-----------------------------------------------------------------------------
(* The handlers *)

At(s, kind, step) == request[s].kind = kind /\ request[s].at = step
Here(s) == session[request[s].of]

Answered(r, answer, n) ==
  [r EXCEPT !.at = "answered", !.answer = answer, !.made = n, !.typed = None, !.code = NoCode, !.seen = {}]
AnswerWith(s, answer, n) == request' = [request EXCEPT ![s] = Answered(@, answer, n)]

\* establishSession, establishPreMfaSession: a new session takes the place of
\* the browser's, its ceremonies forgotten.
Establish(s, stage) == session' = [session EXCEPT ![request[s].of] = [Full EXCEPT !.stage = stage]]

\* hasEnrolledMfa
Enrolled == user.secret # None \/ user.passkey

Login(s) ==
  /\ At(s, "login", "posted")
  /\ IF user.required
     THEN Establish(s, "password") /\ AnswerWith(s, IF Enrolled THEN "challenge" ELSE "enrol", None)
     ELSE Establish(s, "full") /\ AnswerWith(s, "home", None)
  /\ UNCHANGED <<server, page, phone, made, posts, uses, crossed>>

\* Refused by requireAuth, requireMfaSetup or preMfaUser.
TurnedAway(s) ==
  /\ request[s].at = "posted"
  /\ \/ request[s].kind \in {"start", "confirm"} /\ Here(s).stage = "none"
     \/ request[s].kind \in {"verify", "recover"} /\ Here(s).stage # "password"
     \/ request[s].kind = "regenerate" /\ Here(s).stage # "full"
  /\ AnswerWith(s, "unauthorized", None)
  /\ UNCHANGED <<server, session, page, phone, made, posts, uses, crossed>>

\* The UPDATE of users in a confirmation locks the row until its commit.
UserLocked == \E t \in Slots : At(t, "confirm", "deleted")

\* beginTotpEnrollment
Start(s) ==
  /\ At(s, "start", "posted") /\ Here(s).stage # "none" /\ ~UserLocked
  /\ secrets < MaxSecrets /\ secrets' = secrets + 1
  /\ user' = [user EXCEPT !.pending = secrets']
  /\ AnswerWith(s, "done", secrets')
  /\ UNCHANGED <<rows, spent, passkeys, session, page, phone, batches, posts, uses, crossed>>

\* The fifteen minutes of a pending secret are over.
PendingExpires ==
  /\ user.pending # None /\ ~UserLocked
  /\ user' = [user EXCEPT !.pending = None]
  /\ UNCHANGED <<rows, spent, passkeys, session, request, page, phone, made, posts, uses, crossed>>

Accept(s) == request' = [request EXCEPT ![s].at = "checked", ![s].pre = Here(s).stage = "password"]

\* confirmTotpEnrollment reads the pending secret and compares the code with it.
CheckConfirm(s) ==
  /\ At(s, "confirm", "posted") /\ Here(s).stage # "none"
  /\ IF request[s].typed # None /\ request[s].typed = user.pending THEN Accept(s) ELSE AnswerWith(s, "refused", None)
  /\ UNCHANGED <<server, session, page, phone, made, posts, uses, crossed>>

\* regenerateRecoveryCodes compares it with the enrolled secret.
CheckRegenerate(s) ==
  /\ At(s, "regenerate", "posted") /\ Here(s).stage = "full"
  /\ IF request[s].typed # None /\ request[s].typed = user.secret THEN Accept(s) ELSE AnswerWith(s, "refused", None)
  /\ UNCHANGED <<server, session, page, phone, made, posts, uses, crossed>>

Deleting(t) == request[t].at = "deleted"

\* A slip: the codes are deleted before the row of the user is written.
DeleteUnlocked(s) ==
  LET r == request[s]
      others == {t \in Slots : Deleting(t)}
      meets(t) == "regenerate" \in {r.kind, request[t].kind}
  IN  /\ r.at = "checked" /\ r.kind \in {"confirm", "regenerate"}
      /\ request' = [t \in Slots |->
           IF t = s THEN [r EXCEPT !.at = "deleted", !.cross = \E o \in others : meets(o),
                                   !.seen = IF r.kind = "confirm" THEN rows \ spent ELSE rows]
           ELSE IF t \in others THEN [request[t] EXCEPT !.cross = @ \/ meets(t)]
           ELSE request[t]]
      /\ UNCHANGED <<server, session, page, phone, made, posts, uses, crossed>>

\* The DELETE of a transaction sees the codes that are committed; that of a
\* confirmation comes after its UPDATE of the user and spares the spent ones.
Delete(s) ==
  LET r == request[s]
      others == {t \in Slots : Deleting(t)}
      meets(t) == "regenerate" \in {r.kind, request[t].kind}
  IN  /\ r.at = "checked" /\ r.kind \in {"confirm", "regenerate"}
      /\ r.kind = "confirm" => ~UserLocked
      /\ request' = [t \in Slots |->
           IF t = s THEN [r EXCEPT !.at = "deleted", !.cross = \E o \in others : meets(o),
                                   !.seen = IF r.kind = "confirm" THEN rows \ spent ELSE rows]
           ELSE IF t \in others THEN [request[t] EXCEPT !.cross = @ \/ meets(t)]
           ELSE request[t]]
      /\ UNCHANGED <<server, session, page, phone, made, posts, uses, crossed>>

\* A slip: the secret that is pending now is enrolled.
CommitPending(s) ==
  LET r == request[s]
      gone == IF r.kind = "confirm" THEN r.seen \ spent ELSE r.seen
  IN  /\ r.at = "deleted" /\ batches < MaxBatches
      /\ batches' = batches + 1
      /\ rows' = (rows \ gone) \cup Batch(batches')
      /\ spent' = spent \ gone
      /\ user' = IF r.kind = "confirm" THEN [user EXCEPT !.secret = user.pending, !.pending = None, !.required = TRUE]
                 ELSE user
      /\ crossed' = IF r.cross THEN crossed \cup {batches'} ELSE crossed
      /\ request' = [request EXCEPT ![s].at = "committed", ![s].made = batches', ![s].seen = {}]
      /\ UNCHANGED <<passkeys, session, page, phone, secrets, posts, uses>>

\* The INSERTs and the commit.  The secret of the confirmation is the one that
\* was compared, whatever is pending by now.
Commit(s) ==
  LET r == request[s]
      gone == IF r.kind = "confirm" THEN r.seen \ spent ELSE r.seen
  IN  /\ r.at = "deleted" /\ batches < MaxBatches
      /\ batches' = batches + 1
      /\ rows' = (rows \ gone) \cup Batch(batches')
      /\ spent' = spent \ gone
      /\ user' = IF r.kind = "confirm" THEN [user EXCEPT !.secret = r.typed, !.pending = None, !.required = TRUE]
                 ELSE user
      /\ crossed' = IF r.cross THEN crossed \cup {batches'} ELSE crossed
      /\ request' = [request EXCEPT ![s].at = "committed", ![s].made = batches', ![s].seen = {}]
      /\ UNCHANGED <<passkeys, session, page, phone, secrets, posts, uses>>

\* The session of who enrolled before a second factor becomes a full one, with
\* the codes still to be shown.
Finish(s) ==
  /\ request[s].at = "committed"
  /\ IF request[s].pre THEN Establish(s, "full") ELSE UNCHANGED session
  /\ AnswerWith(s, "done", request[s].made)
  /\ UNCHANGED <<server, page, phone, made, posts, uses, crossed>>

\* verifyTotpCode
Verify(s) ==
  /\ At(s, "verify", "posted") /\ Here(s).stage = "password"
  /\ IF request[s].typed # None /\ request[s].typed = user.secret
     THEN Establish(s, "full") /\ AnswerWith(s, "home", None)
     ELSE AnswerWith(s, "refused", None) /\ UNCHANGED session
  /\ UNCHANGED <<server, page, phone, made, posts, uses, crossed>>

\* The SELECT of useRecoveryCode.
Recover(s) ==
  /\ At(s, "recover", "posted") /\ Here(s).stage = "password"
  /\ IF request[s].code \in rows \ spent
     THEN request' = [request EXCEPT ![s].at = "checked"]
     ELSE AnswerWith(s, "refused", None)
  /\ UNCHANGED <<server, session, page, phone, made, posts, uses, crossed>>

\* A slip: the UPDATE trusts the SELECT.
SpendAnyway(s) ==
  LET c == request[s].code
  IN  /\ At(s, "recover", "checked")
      /\ spent' = spent \cup ({c} \cap rows) /\ uses' = [uses EXCEPT ![c] = @ + 1]
      /\ Establish(s, "full") /\ AnswerWith(s, "home", None)
      /\ UNCHANGED <<user, rows, passkeys, page, phone, made, posts, crossed>>

\* Its UPDATE, which asks again whether the code is unused.
Spend(s) ==
  LET c == request[s].code
  IN  /\ At(s, "recover", "checked")
      /\ IF c \in rows \ spent
         THEN /\ spent' = spent \cup {c} /\ uses' = [uses EXCEPT ![c] = @ + 1]
              /\ Establish(s, "full") /\ AnswerWith(s, "home", None)
         ELSE AnswerWith(s, "refused", None) /\ UNCHANGED <<spent, uses, session>>
      /\ UNCHANGED <<user, rows, passkeys, page, phone, made, posts, crossed>>

Challenge(s, k) ==
  /\ session' = [session EXCEPT ![request[s].of].ceremonies = @ \cup {k}]
  /\ AnswerWith(s, "done", None)

\* beginPasskeyAuthentication: one challenge of a kind per session, and none to
\* who has no passkey or does not stand between password and second factor.
BeginAuthentication(s) ==
  LET k == request[s].ceremony
  IN  /\ At(s, "options", "posted") /\ k # "register"
      /\ IF passkeys > 0 /\ (k = "second" => Here(s).stage = "password") THEN Challenge(s, k)
         ELSE /\ AnswerWith(s, IF k = "second" /\ Here(s).stage = "none" THEN "unauthorized" ELSE "refused", None)
              /\ UNCHANGED session
      /\ UNCHANGED <<server, page, phone, made, posts, uses, crossed>>

\* beginPasskeyRegistration
BeginRegistration(s) ==
  /\ At(s, "options", "posted") /\ request[s].ceremony = "register"
  /\ IF Here(s).stage # "none" THEN Challenge(s, "register")
     ELSE AnswerWith(s, "unauthorized", None) /\ UNCHANGED session
  /\ UNCHANGED <<server, page, phone, made, posts, uses, crossed>>

\* The response may also be cancelled, late or wrong.
Declined(s) ==
  /\ At(s, "passkey", "posted")
  /\ \E answer \in {"refused", "unauthorized"} : AnswerWith(s, answer, None)
  /\ UNCHANGED <<server, session, page, phone, made, posts, uses, crossed>>

\* completePasskeyAuthentication and the handler, which signs the user in.
CompleteAuthentication(s) ==
  LET k == request[s].ceremony
  IN  /\ At(s, "passkey", "posted") /\ k # "register" /\ k \in Here(s).ceremonies
      /\ k = "second" => Here(s).stage = "password"
      /\ Establish(s, "full") /\ AnswerWith(s, "home", None)
      /\ UNCHANGED <<server, page, phone, made, posts, uses, crossed>>

\* completePasskeyRegistration, whose transaction adds the passkey and marks
\* the user; a session before the second factor becomes a full one.
CompleteRegistration(s) ==
  /\ At(s, "passkey", "posted") /\ request[s].ceremony = "register"
  /\ "register" \in Here(s).ceremonies /\ Here(s).stage # "none"
  /\ passkeys' = passkeys + 1
  /\ user' = [user EXCEPT !.passkey = TRUE, !.required = TRUE]
  /\ IF Here(s).stage = "password" THEN Establish(s, "full") ELSE UNCHANGED session
  /\ AnswerWith(s, "home", None)
  /\ UNCHANGED <<rows, spent, page, phone, made, posts, uses, crossed>>

\* A statement fails, a transaction is rolled back, or the process stops.
Break(s) ==
  /\ request[s].at \notin {"idle", "answered"}
  /\ AnswerWith(s, "failed", None)
  /\ UNCHANGED <<server, session, page, phone, made, posts, uses, crossed>>

-----------------------------------------------------------------------------

\* An account without a second factor, or with the phone and a batch of codes.
Init ==
  /\ \E required, enrolled \in BOOLEAN :
       /\ enrolled => required
       /\ user = [required |-> required, secret |-> IF enrolled THEN 1 ELSE None, pending |-> None, passkey |-> FALSE]
       /\ rows = IF enrolled THEN Batch(1) ELSE {}
       /\ phone = IF enrolled THEN {1} ELSE {}
       /\ secrets = IF enrolled THEN 1 ELSE 0
       /\ batches = secrets
  /\ spent = {} /\ passkeys = 0
  /\ session = [b \in Browsers |-> NoSession] /\ page = [b \in Browsers |-> SignIn]
  /\ request = [s \in Slots |-> Idle]
  /\ posts = 0 /\ uses = [c \in Codes |-> 0] /\ crossed = {}

Asks(s, b) == PostLogin(s, b) \/ PostChallenge(s, b) \/ PostEnrol(s, b) \/ PostSettings(s, b)
Handles(s) ==
  \/ Login(s) \/ TurnedAway(s) \/ Start(s) \/ CheckConfirm(s) \/ CheckRegenerate(s) \/ Delete(s) \/ Commit(s) \/ Finish(s)
  \/ Verify(s) \/ Recover(s) \/ Spend(s) \/ Break(s)
  \/ BeginAuthentication(s) \/ BeginRegistration(s)
  \/ CompleteAuthentication(s) \/ CompleteRegistration(s) \/ Declined(s)

Next ==
  \/ \E b \in Browsers : Continue(b) \/ Reload(b) \/ SessionEnds(b)
  \/ \E s \in Slots : Handles(s) \/ Told(s) \/ \E b \in Browsers : Asks(s, b)
  \/ PendingExpires

Spec == Init /\ [][Next]_vars

-----------------------------------------------------------------------------

\* A recovery code signs its owner in once, however many requests bring it at
\* the same time (useRecoveryCode).
OneCodeOneUse == \A c \in Codes : uses[c] <= 1

\* Whoever must pass a second factor has one: the secret that was enrolled is
\* on the phone, whatever other enrolments were begun meanwhile, or there is a
\* passkey (confirmTotpEnrollment, completePasskeyRegistration).
NeverLockedOut ==
  /\ user.secret # None => user.secret \in phone
  /\ user.passkey => passkeys > 0

\* New codes have replaced the unused ones before them, except where a
\* regeneration ran at the same time as another transaction: two enrolments
\* confirmed at once do not leave two batches (the message of
\* /mfa/recovery-codes, confirmTotpEnrollment).
Unused == {b \in Batches : Batch(b) \cap (rows \ spent) # {}}
OneBatch == \A a, b \in Unused : a # b => a \in crossed /\ b \in crossed
=============================================================================
