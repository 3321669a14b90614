------------------------------ MODULE MfaProofs ------------------------------
(***************************************************************************)
(* Proofs about Mfa, for any number of browsers and requests at a time and *)
(* any number of secrets and batches of codes: type correctness, that a    *)
(* recovery code is good for one sign-in, that nobody is locked out, and   *)
(* that new codes replace the old ones.                                    *)
(***************************************************************************)
EXTENDS Mfa, TLAPS

\* What a request is by the step it has reached.
Shape(r) ==
  /\ r.at # "idle" => r.of \in Browsers
  /\ r.made \in IF r.kind = "start" THEN 0 .. MaxSecrets ELSE 0 .. MaxBatches
  /\ r.kind = "recover" /\ r.at \in {"posted", "checked"} => r.code \in Codes
  /\ r.at = "checked" => r.kind \in {"confirm", "regenerate", "recover"}
  /\ r.at \in {"deleted", "committed"} => r.kind \in {"confirm", "regenerate"}
  /\ r.at = "answered" => /\ r.answer # "none"
                          /\ r.answer \in {"enrol", "challenge"} => r.kind = "login"
Shapes == \A s \in Slots : Shape(request[s])

Inv == TypeOK /\ Shapes

-----------------------------------------------------------------------------
(* Requests *)

Requests ==
  [of : Browsers \cup {NoBrowser}, kind : Kinds, at : Steps, typed : 0 .. MaxSecrets,
   code : Codes \cup {NoCode}, ceremony : Ceremonies, pre : BOOLEAN,
   seen : SUBSET Codes, cross : BOOLEAN,
   made : 0 .. MaxSecrets \cup 0 .. MaxBatches, answer : Answers]
Sessions == [stage : {"none", "password", "full"}, ceremonies : SUBSET Ceremonies]
Pages ==
  [at : {"signin", "challenge", "enrol", "codes", "home"}, secret : 0 .. MaxSecrets,
   batch : 0 .. MaxBatches, busy : Slots \cup {NoSlot}]

LEMMA Numbers ==
  /\ None \in 0 .. MaxSecrets /\ None \in 0 .. MaxBatches
  /\ Batches \X (1 .. CodeCount) = Codes
BY MfaAssumption DEF None, Codes

LEMMA IdleType ==
  /\ Idle \in Requests /\ Idle.kind = "login" /\ Idle.made = None /\ Idle.at = "idle"
  /\ Idle.cross = FALSE /\ SignIn \in Pages /\ Full \in Sessions /\ NoSession \in Sessions
BY Numbers DEF Idle, Requests, Kinds, Steps, Ceremonies, Answers, SignIn, Pages, Full, NoSession, Sessions

\* A request that is answered, here with the number of what was made for it.
LEMMA AnsweredIs ==
  ASSUME NEW r \in Requests, NEW answer \in Answers, NEW n \in 0 .. MaxSecrets \cup 0 .. MaxBatches
  PROVE  /\ Answered(r, answer, n) \in Requests
         /\ Answered(r, answer, n).of = r.of /\ Answered(r, answer, n).kind = r.kind
         /\ Answered(r, answer, n).at = "answered" /\ Answered(r, answer, n).answer = answer
         /\ Answered(r, answer, n).made = n
BY Numbers DEF Answered, Requests, Steps

LEMMA AnswerStep ==
  ASSUME Inv, NEW s \in Slots, request[s].at # "idle",
         NEW answer \in Answers \ {"none"},
         answer \in {"enrol", "challenge"} => request[s].kind = "login",
         NEW n, n \in IF request[s].kind = "start" THEN 0 .. MaxSecrets ELSE 0 .. MaxBatches,
         AnswerWith(s, answer, n)
  PROVE  /\ request' \in [Slots -> Requests] /\ Shapes'
         /\ \A t \in Slots : t # s => request'[t] = request[t]
         /\ request'[s].at = "answered"
<1> DEFINE q == Answered(request[s], answer, n)
<1>1. request \in [Slots -> Requests]
  BY DEF Inv, TypeOK, Requests
<1>2. /\ q \in Requests /\ q.of = request[s].of /\ q.kind = request[s].kind
      /\ q.at = "answered" /\ q.answer = answer /\ q.made = n
  BY <1>1, AnsweredIs
<1>3. request' = [request EXCEPT ![s] = q]
  BY DEF AnswerWith
<1> HIDE DEF q
<1>4. Shape(q)
  BY <1>2 DEF Inv, Shapes, Shape
<1>5. /\ \A t \in Slots : t # s => request'[t] = request[t]
      /\ request'[s] = q
  BY <1>1, <1>3
<1>6. Shapes'
  BY <1>4, <1>5 DEF Shapes, Inv
<1> QED BY <1>1, <1>2, <1>3, <1>5, <1>6

\* A request of the page.
LEMMA PostStep ==
  ASSUME Inv, NEW s \in Slots, NEW b \in Browsers, NEW r \in Requests,
         r.made = None, r.kind = "recover" => r.code \in Codes, Post(s, b, r)
  PROVE  /\ request' \in [Slots -> Requests] /\ Shapes'
         /\ \A t \in Slots : t # s => request'[t] = request[t]
         /\ request'[s].at = "posted" /\ request'[s].kind = r.kind /\ request'[s].typed = r.typed
         /\ page' \in [Browsers -> Pages] /\ posts' \in 0 .. MaxPosts
         /\ UNCHANGED <<server, session, made, uses, crossed>>
<1> DEFINE q == [r EXCEPT !.of = b, !.at = "posted"]
<1>1. request \in [Slots -> Requests] /\ page \in [Browsers -> Pages]
  BY DEF Inv, TypeOK, Requests, Pages
<1>2. /\ q \in Requests /\ q.of = b /\ q.kind = r.kind /\ q.at = "posted" /\ q.made = None
      /\ q.code = r.code /\ q.typed = r.typed
  BY DEF Requests, Steps
<1>3. /\ request' = [request EXCEPT ![s] = q]
      /\ page' = [page EXCEPT ![b].busy = s] /\ posts' = posts + 1 /\ posts < MaxPosts
      /\ UNCHANGED <<server, session, made, uses, crossed>>
  BY DEF Post
<1> HIDE DEF q
<1>4. Shape(q)
  BY <1>2, Numbers DEF Shape
<1>5. (\A t \in Slots : t # s => request'[t] = request[t]) /\ request'[s] = q
  BY <1>1, <1>3
<1>6. Shapes'
  BY <1>4, <1>5 DEF Shapes, Inv
<1>7. page' \in [Browsers -> Pages]
  BY <1>1, <1>3 DEF Pages
<1>8. posts' \in 0 .. MaxPosts
  BY <1>3, MfaAssumption DEF Inv, TypeOK
<1> QED BY <1>1, <1>2, <1>3, <1>5, <1>6, <1>7, <1>8

\* What a page may ask for: the code of a confirmation is then on the phone.
LEMMA AsksStep ==
  ASSUME Inv, NEW s \in Slots, NEW b \in Browsers, Asks(s, b)
  PROVE  /\ request' \in [Slots -> Requests] /\ Shapes'
         /\ \A t \in Slots : t # s => request'[t] = request[t]
         /\ request'[s].at = "posted" /\ (request'[s].kind = "confirm" => request'[s].typed \in phone')
         /\ page' \in [Browsers -> Pages] /\ posts' \in 0 .. MaxPosts
         /\ phone \subseteq phone' /\ phone' \subseteq 1 .. MaxSecrets
         /\ UNCHANGED <<server, session, made, uses, crossed>>
<1>1. PICK r \in Requests :
        /\ Post(s, b, r) /\ r.made = None /\ (r.kind = "recover" => r.code \in Codes)
        /\ r.kind = "confirm" => r.typed \in phone'
  <2> DEFINE Asked(r) == /\ r \in Requests /\ Post(s, b, r) /\ r.made = None
                         /\ (r.kind = "recover" => r.code \in Codes)
                         /\ (r.kind = "confirm" => r.typed \in phone')
  <2> SUFFICES \E r : Asked(r)
    OBVIOUS
  <2>1. \A k \in {"primary", "second", "register"} :
          /\ [Idle EXCEPT !.kind = "options", !.ceremony = k] \in Requests
          /\ [Idle EXCEPT !.kind = "options", !.ceremony = k].made = None
          /\ [Idle EXCEPT !.kind = "options", !.ceremony = k].kind = "options"
    BY IdleType DEF Requests, Kinds, Ceremonies
  <2>2. /\ [Idle EXCEPT !.kind = "login"] \in Requests
        /\ [Idle EXCEPT !.kind = "login"].made = None /\ [Idle EXCEPT !.kind = "login"].kind = "login"
    BY IdleType DEF Requests, Kinds
  <2>3. \A x \in 0 .. MaxSecrets, k \in {"verify", "confirm", "regenerate"} :
          /\ [Idle EXCEPT !.kind = k, !.typed = x] \in Requests
          /\ [Idle EXCEPT !.kind = k, !.typed = x].made = None
          /\ [Idle EXCEPT !.kind = k, !.typed = x].kind = k
          /\ [Idle EXCEPT !.kind = k, !.typed = x].typed = x
    BY IdleType DEF Requests, Kinds
  <2>4. \A c \in Codes :
          /\ [Idle EXCEPT !.kind = "recover", !.code = c] \in Requests
          /\ [Idle EXCEPT !.kind = "recover", !.code = c].made = None
          /\ [Idle EXCEPT !.kind = "recover", !.code = c].kind = "recover"
          /\ [Idle EXCEPT !.kind = "recover", !.code = c].code = c
    BY IdleType DEF Requests, Kinds
  <2>5. phone \cup {None} \subseteq 0 .. MaxSecrets /\ phone \subseteq 0 .. MaxSecrets
        /\ page[b].secret \in 0 .. MaxSecrets
    BY Numbers DEF Inv, TypeOK
  <2>6. CASE PostLogin(s, b)
    BY <2>1, <2>2, <2>6 DEF PostLogin
  <2>7. CASE PostChallenge(s, b)
    <3>1. ASSUME NEW x \in phone \cup {None}, Post(s, b, [Idle EXCEPT !.kind = "verify", !.typed = x])
          PROVE  \E r : Asked(r)
      BY <2>3, <2>5, <3>1
    <3>2. ASSUME NEW c \in Codes, Post(s, b, [Idle EXCEPT !.kind = "recover", !.code = c])
          PROVE  \E r : Asked(r)
      BY <2>4, <3>2
    <3>3. ASSUME Post(s, b, [Idle EXCEPT !.kind = "options", !.ceremony = "second"])
          PROVE  \E r : Asked(r)
      BY <2>1, <3>3
    <3> QED BY <2>7, <3>1, <3>2, <3>3 DEF PostChallenge
  <2>8. CASE PostEnrol(s, b)
    <3>1. ASSUME phone' = phone \cup {page[b].secret},
                 NEW x \in phone', Post(s, b, [Idle EXCEPT !.kind = "confirm", !.typed = x])
          PROVE  \E r : Asked(r)
      <4>1. x \in 0 .. MaxSecrets
        BY <2>5, <3>1
      <4>2. Asked([Idle EXCEPT !.kind = "confirm", !.typed = x])
        BY <2>3, <3>1, <4>1
      <4> QED BY <4>2
    <3>2. ASSUME Post(s, b, [Idle EXCEPT !.kind = "options", !.ceremony = "register"])
          PROVE  \E r : Asked(r)
      BY <2>1, <3>2
    <3> QED BY <2>8, <3>1, <3>2 DEF PostEnrol
  <2>9. CASE PostSettings(s, b)
    <3>1. ASSUME NEW x \in phone \cup {None}, Post(s, b, [Idle EXCEPT !.kind = "regenerate", !.typed = x])
          PROVE  \E r : Asked(r)
      BY <2>3, <2>5, <3>1
    <3>2. ASSUME Post(s, b, [Idle EXCEPT !.kind = "options", !.ceremony = "register"])
          PROVE  \E r : Asked(r)
      BY <2>1, <3>2
    <3> QED BY <2>9, <3>1, <3>2 DEF PostSettings
  <2> QED BY <2>6, <2>7, <2>8, <2>9 DEF Asks
<1>2. phone \subseteq phone' /\ phone' \subseteq 1 .. MaxSecrets
  <2>1. phone' = phone \/ (phone' = phone \cup {page[b].secret} /\ page[b].secret # None)
    BY DEF Asks, PostLogin, PostChallenge, PostEnrol, PostSettings
  <2>2. phone \subseteq 1 .. MaxSecrets /\ page[b].secret \in 0 .. MaxSecrets
    BY DEF Inv, TypeOK
  <2>3. page[b].secret # None => page[b].secret \in 1 .. MaxSecrets
    BY <2>2, MfaAssumption DEF None
  <2> QED BY <2>1, <2>2, <2>3
<1> QED BY <1>1, <1>2, PostStep

\* The page hears an answer, or nobody does: the request is over, or it is
\* followed by the next one of a sign-in, which is no confirmation.
LEMMA ToldStep ==
  ASSUME Inv, NEW s \in Slots, Told(s)
  PROVE  /\ request' \in [Slots -> Requests] /\ Shapes'
         /\ \A t \in Slots : t # s => request'[t] = request[t]
         /\ request'[s].at = "idle" \/ (request'[s].at = "posted" /\ request'[s].kind # "confirm")
         /\ page' \in [Browsers -> Pages]
         /\ UNCHANGED <<server, session, phone, made, posts, uses, crossed>>
<1> DEFINE r == request[s]  b == r.of
<1>1. /\ request \in [Slots -> Requests] /\ page \in [Browsers -> Pages]
      /\ r \in Requests /\ b \in Browsers /\ r.at = "answered" /\ Shape(r)
  BY DEF Inv, TypeOK, Requests, Pages, Told, Shapes, Shape
<1>2. UNCHANGED <<server, session, phone, made, posts, uses, crossed>>
  BY DEF Told
<1>3. PICK q \in Requests :
        /\ request' = [request EXCEPT ![s] = q] /\ Shape(q)
        /\ q.at = "idle" \/ (q.at = "posted" /\ q.kind # "confirm")
  <2>1. ASSUME request' = [request EXCEPT ![s] = Idle]
        PROVE  /\ Idle \in Requests /\ Shape(Idle) /\ Idle.at = "idle"
               /\ request' = [request EXCEPT ![s] = Idle]
    BY <2>1, IdleType, Numbers DEF Shape
  <2> DEFINE q1 == [Idle EXCEPT !.of = b, !.kind = "start", !.at = "posted"]
             q2 == [Idle EXCEPT !.of = b, !.kind = "passkey", !.ceremony = r.ceremony, !.at = "posted"]
  <2>2. /\ q1 \in Requests /\ q1.of = b /\ q1.kind = "start" /\ q1.at = "posted" /\ q1.made = None
        /\ q2 \in Requests /\ q2.of = b /\ q2.kind = "passkey" /\ q2.at = "posted" /\ q2.made = None
    BY <1>1, IdleType DEF Requests, Kinds, Steps
  <2>3. \/ request' = [request EXCEPT ![s] = q1] \/ request' = [request EXCEPT ![s] = q2]
        \/ request' = [request EXCEPT ![s] = Idle]
    BY DEF Told
  <2> HIDE DEF q1, q2
  <2>4. Shape(q1) /\ Shape(q2)
    BY <1>1, <2>2, Numbers DEF Shape
  <2> QED BY <2>1, <2>2, <2>3, <2>4
<1>4. /\ request' \in [Slots -> Requests] /\ request'[s] = q
      /\ \A t \in Slots : t # s => request'[t] = request[t]
  BY <1>1, <1>3
<1>5. Shapes'
  BY <1>3, <1>4 DEF Shapes, Inv
<1>6. page' \in [Browsers -> Pages]
  <2>1. [page[b] EXCEPT !.at = "enrol"] \in Pages /\ page[b] \in Pages
    BY <1>1 DEF Pages
  <2>2. After(r, page[b]) \in Pages
    <3> DEFINE rest == [page[b] EXCEPT !.busy = NoSlot]
    <3>1. rest \in Pages
      BY <1>1 DEF Pages
    <3>2. /\ r.kind = "start" => r.made \in 0 .. MaxSecrets
          /\ r.kind # "start" => r.made \in 0 .. MaxBatches
          /\ r.answer \in {"enrol", "challenge", "home", "done", "refused", "unauthorized", "failed"}
          /\ r.answer \in {"enrol", "challenge"} => r.kind = "login"
          /\ r.kind \in Kinds
      BY <1>1 DEF Shape, Requests, Answers
    <3> HIDE DEF rest, r
    <3>3. /\ r.answer \in {"enrol", "challenge"} => [rest EXCEPT !.at = r.answer] \in Pages
          /\ r.kind = "start" => [rest EXCEPT !.secret = r.made] \in Pages
          /\ r.kind = "confirm" => [rest EXCEPT !.at = "codes", !.batch = r.made] \in Pages
          /\ [SignIn EXCEPT !.at = "home"] \in Pages /\ SignIn \in Pages
      BY <3>1, <3>2, IdleType DEF Pages
    <3> QED BY <3>1, <3>2, <3>3 DEF After, rest
  <2> HIDE DEF r
  <2>3. \/ page' = [page EXCEPT ![b].at = "enrol"] \/ page' = page
        \/ page' = [page EXCEPT ![b] = After(r, @)]
    BY DEF Told, r
  <2> QED BY <1>1, <2>1, <2>2, <2>3
<1> QED BY <1>2, <1>3, <1>4, <1>5, <1>6

\* Handlers that answer at once, whatever else they write.
Answering(s) ==
  /\ request[s].at \notin {"idle", "answered"}
  /\ \E answer \in Answers \ {"none"}, n \in 0 .. MaxSecrets \cup 0 .. MaxBatches :
       /\ answer \in {"enrol", "challenge"} => request[s].kind = "login"
       /\ n \in IF request[s].kind = "start" THEN 0 .. MaxSecrets ELSE 0 .. MaxBatches
       /\ AnswerWith(s, answer, n)

LEMMA AnsweringStep ==
  ASSUME Inv, NEW s \in Slots, Answering(s)
  PROVE  /\ request' \in [Slots -> Requests] /\ Shapes'
         /\ \A t \in Slots : t # s => request'[t] = request[t]
         /\ request'[s].at = "answered"
BY AnswerStep DEF Answering

LEMMA HandlersAnswer ==
  ASSUME Inv, NEW s \in Slots,
         \/ Login(s) \/ TurnedAway(s) \/ Start(s) \/ Finish(s) \/ Verify(s) \/ Spend(s) \/ Break(s)
         \/ BeginAuthentication(s) \/ BeginRegistration(s)
         \/ CompleteAuthentication(s) \/ CompleteRegistration(s) \/ Declined(s)
  PROVE  Answering(s)
<1> USE Numbers DEF Answering, Answers, At
<1>1. CASE Login(s)
  BY <1>1 DEF Login
<1>2. CASE TurnedAway(s)
  BY <1>2 DEF TurnedAway
<1>3. CASE Start(s)
  <2>1. secrets' \in 0 .. MaxSecrets
    BY <1>3, MfaAssumption DEF Start, Inv, TypeOK
  <2> QED BY <1>3, <2>1 DEF Start
<1>4. CASE Finish(s)
  <2>1. /\ request[s].kind # "start" /\ request[s].made \in 0 .. MaxBatches
        /\ request[s].at = "committed" /\ AnswerWith(s, "done", request[s].made)
    BY <1>4 DEF Finish, Inv, Shapes, Shape
  <2> QED BY <2>1
<1>5. CASE Verify(s)
  BY <1>5 DEF Verify
<1>6. CASE Spend(s)
  BY <1>6 DEF Spend
<1>7. CASE Break(s)
  BY <1>7 DEF Break
<1>8. CASE BeginAuthentication(s) \/ BeginRegistration(s)
  BY <1>8 DEF BeginAuthentication, BeginRegistration, Challenge
<1>9. CASE CompleteAuthentication(s) \/ CompleteRegistration(s) \/ Declined(s)
  BY <1>9 DEF CompleteAuthentication, CompleteRegistration, Declined
<1> QED BY <1>1, <1>2, <1>3, <1>4, <1>5, <1>6, <1>7, <1>8, <1>9

\* The handlers that look before they write: the request goes on as it is, or
\* is refused.
LEMMA ChecksStep ==
  ASSUME Inv, NEW s \in Slots, CheckConfirm(s) \/ CheckRegenerate(s) \/ Recover(s)
  PROVE  /\ request' \in [Slots -> Requests] /\ Shapes'
         /\ \A t \in Slots : t # s => request'[t] = request[t]
         /\ request[s].at = "posted"
         /\ \/ request'[s].at = "answered"
            \/ /\ request'[s].at = "checked" /\ request'[s].kind = request[s].kind
               /\ request'[s].typed = request[s].typed
         /\ UNCHANGED <<server, session, page, phone, made, posts, uses, crossed>>
<1> DEFINE r == request[s]
           q1 == [r EXCEPT !.at = "checked", !.pre = (Here(s).stage = "password")]
           q2 == [r EXCEPT !.at = "checked"]
<1>1. request \in [Slots -> Requests] /\ r \in Requests /\ Shape(r)
  BY DEF Inv, TypeOK, Requests, Shapes
<1>2. /\ r.at = "posted" /\ r.kind \in {"confirm", "regenerate", "recover"}
      /\ UNCHANGED <<server, session, page, phone, made, posts, uses, crossed>>
  BY DEF CheckConfirm, CheckRegenerate, Recover, At
<1>3. \/ AnswerWith(s, "refused", None)
      \/ request' = [request EXCEPT ![s] = q1]
      \/ request' = [request EXCEPT ![s] = q2]
  BY <1>1 DEF CheckConfirm, CheckRegenerate, Recover, Accept
<1>4. CASE AnswerWith(s, "refused", None)
  <2>1. Answering(s)
    BY <1>2, <1>4, Numbers DEF Answering, Answers
  <2> QED BY <1>2, <2>1, AnsweringStep
<1>5. /\ q1 \in Requests /\ q1.of = r.of /\ q1.kind = r.kind /\ q1.at = "checked" /\ q1.made = r.made
      /\ q1.code = r.code /\ q1.typed = r.typed
      /\ q2 \in Requests /\ q2.of = r.of /\ q2.kind = r.kind /\ q2.at = "checked" /\ q2.made = r.made
      /\ q2.code = r.code /\ q2.typed = r.typed
  BY <1>1 DEF Requests, Steps
<1> HIDE DEF q1, q2
<1>6. Shape(q1) /\ Shape(q2)
  BY <1>1, <1>2, <1>5 DEF Shape
<1>7. ASSUME NEW q \in {q1, q2}, request' = [request EXCEPT ![s] = q]
      PROVE  /\ request' \in [Slots -> Requests] /\ Shapes' /\ request'[s] = q
             /\ \A t \in Slots : t # s => request'[t] = request[t]
  <2>1. /\ request' \in [Slots -> Requests] /\ request'[s] = q
        /\ \A t \in Slots : t # s => request'[t] = request[t]
    BY <1>1, <1>5, <1>7
  <2>2. Shapes'
    BY <1>6, <1>7, <2>1 DEF Shapes, Inv
  <2> QED BY <2>1, <2>2
<1> QED BY <1>2, <1>3, <1>4, <1>5, <1>7

\* The DELETE of a transaction: it has seen what is committed, and knows of the
\* other transactions as they know of it.
LEMMA DeleteStep ==
  ASSUME Inv, NEW s \in Slots, Delete(s)
  PROVE  /\ request' \in [Slots -> Requests] /\ Shapes'
         /\ request[s].at = "checked" /\ request'[s].at = "deleted" /\ rows \ spent \subseteq request'[s].seen
         /\ \A t \in Slots : /\ request'[t].kind = request[t].kind /\ request'[t].typed = request[t].typed
                             /\ t # s => request'[t].at = request[t].at /\ request'[t].seen = request[t].seen
                             /\ request[t].cross /\ t # s => request'[t].cross
         /\ \A t \in Slots : Deleting(t) /\ "regenerate" \in {request[s].kind, request[t].kind}
                               => request'[s].cross /\ request'[t].cross
         /\ request[s].kind = "confirm" => ~UserLocked
         /\ UNCHANGED <<server, session, page, phone, made, posts, uses, crossed>>
<1> DEFINE r == request[s]
           others == {t \in Slots : Deleting(t)}
           meets(t) == "regenerate" \in {r.kind, request[t].kind}
           q == [r EXCEPT !.at = "deleted", !.cross = (\E o \in others : meets(o)),
                          !.seen = IF r.kind = "confirm" THEN rows \ spent ELSE rows]
           o(t) == [request[t] EXCEPT !.cross = @ \/ meets(t)]
<1>1. request \in [Slots -> Requests] /\ rows \subseteq Codes /\ \A t \in Slots : Shape(request[t])
  BY DEF Inv, TypeOK, Requests, Shapes
<1>2. /\ r.at = "checked" /\ r.kind \in {"confirm", "regenerate"}
      /\ r.kind = "confirm" => ~UserLocked
      /\ request' = [t \in Slots |-> IF t = s THEN q ELSE IF t \in others THEN o(t) ELSE request[t]]
      /\ UNCHANGED <<server, session, page, phone, made, posts, uses, crossed>>
  BY DEF Delete
<1>3. /\ q \in Requests /\ q.of = r.of /\ q.kind = r.kind /\ q.at = "deleted" /\ q.made = r.made
      /\ q.typed = r.typed /\ rows \ spent \subseteq q.seen
      /\ q.cross = \E t \in others : meets(t)
  BY <1>1 DEF Requests, Steps
<1>4. ASSUME NEW t \in Slots
      PROVE  /\ o(t) \in Requests /\ o(t).of = request[t].of /\ o(t).kind = request[t].kind
             /\ o(t).at = request[t].at /\ o(t).made = request[t].made /\ o(t).code = request[t].code
             /\ o(t).typed = request[t].typed /\ o(t).seen = request[t].seen
             /\ o(t).answer = request[t].answer
             /\ o(t).cross = (request[t].cross \/ meets(t))
  BY <1>1 DEF Requests
<1> HIDE DEF q, o
<1>5. Shape(q) /\ \A t \in Slots : Shape(o(t))
  BY <1>1, <1>2, <1>3, <1>4 DEF Shape
<1>6. \A t \in Slots : request'[t] = IF t = s THEN q ELSE IF t \in others THEN o(t) ELSE request[t]
  BY <1>2
<1>7. request' \in [Slots -> Requests] /\ Shapes'
  BY <1>1, <1>2, <1>3, <1>4, <1>5, <1>6 DEF Shapes
<1>8. s \notin others
  BY <1>2 DEF Deleting
<1>9. \A t \in Slots : Deleting(t) /\ meets(t) => request'[s].cross /\ request'[t].cross
  BY <1>3, <1>4, <1>6, <1>8
<1>10. \A t \in Slots : /\ request'[t].kind = request[t].kind /\ request'[t].typed = request[t].typed
                        /\ t # s => request'[t].at = request[t].at /\ request'[t].seen = request[t].seen
                        /\ request[t].cross /\ t # s => request'[t].cross
  <2> TAKE t \in Slots
  <2>1. CASE t = s
    BY <1>3, <1>6, <2>1
  <2>2. CASE t \in others /\ t # s
    BY <1>4, <1>6, <2>2
  <2>3. CASE t \notin others /\ t # s
    BY <1>6, <2>3
  <2> QED BY <2>1, <2>2, <2>3
<1> QED BY <1>2, <1>3, <1>6, <1>7, <1>9, <1>10

\* Codes come from batches that were drawn, and one that was used is spent or gone.
Drawn == \A c \in rows : c[1] <= batches
UsedOnce ==
  \A c \in Codes :
    /\ uses[c] <= 1
    /\ uses[c] = 1 => c \in spent \/ (c \notin rows /\ c[1] <= batches)
UseInv == Drawn /\ UsedOnce

\* The end of a transaction.
LEMMA CommitStep ==
  ASSUME Inv, Drawn, NEW s \in Slots, Commit(s)
  PROVE  /\ request' \in [Slots -> Requests] /\ Shapes'
         /\ \A t \in Slots : t # s => request'[t] = request[t]
         /\ request[s].at = "deleted" /\ request'[s].at = "committed"
         /\ batches' = batches + 1 /\ batches' \in 1 .. MaxBatches
         /\ Batch(batches') \subseteq Codes /\ Batch(batches') \cap rows = {}
         /\ \E gone \in SUBSET request[s].seen :
              /\ rows' = (rows \ gone) \cup Batch(batches') /\ spent' = spent \ gone
              /\ rows' \ spent' = ((rows \ spent) \ request[s].seen) \cup Batch(batches')
         /\ crossed' = IF request[s].cross THEN crossed \cup {batches'} ELSE crossed
         /\ UNCHANGED <<passkeys, session, page, phone, secrets, posts, uses>>
<1> DEFINE r == request[s]
           gone == IF r.kind = "confirm" THEN r.seen \ spent ELSE r.seen
           q == [r EXCEPT !.at = "committed", !.made = batches', !.seen = {}]
<1>1. request \in [Slots -> Requests] /\ r \in Requests /\ Shape(r) /\ spent \subseteq rows
      /\ batches \in 0 .. MaxBatches
  BY DEF Inv, TypeOK, Requests, Shapes
<1>2. /\ r.at = "deleted" /\ batches < MaxBatches /\ batches' = batches + 1
      /\ rows' = (rows \ gone) \cup Batch(batches') /\ spent' = spent \ gone
      /\ crossed' = IF r.cross THEN crossed \cup {batches'} ELSE crossed
      /\ request' = [request EXCEPT ![s].at = "committed", ![s].made = batches', ![s].seen = {}]
      /\ UNCHANGED <<passkeys, session, page, phone, secrets, posts, uses>>
  BY DEF Commit
<1>3. batches' \in 1 .. MaxBatches /\ batches' \in 0 .. MaxBatches
  BY <1>1, <1>2, MfaAssumption
<1>4. Batch(batches') \subseteq Codes /\ \A c \in Batch(batches') : c[1] = batches'
  BY <1>3 DEF Batch, Codes, Batches
<1>5. Batch(batches') \cap rows = {}
  <2>1. \A c \in rows : c[1] # batches'
    BY <1>1, <1>2, MfaAssumption DEF Drawn, Inv, TypeOK, Codes, Batches
  <2> QED BY <1>4, <2>1
<1>6. /\ gone \in SUBSET r.seen
      /\ rows' \ spent' = ((rows \ spent) \ r.seen) \cup Batch(batches')
  BY <1>1, <1>2, <1>5
<1>7. /\ q \in Requests /\ q.of = r.of /\ q.kind = r.kind /\ q.at = "committed" /\ q.made = batches'
      /\ request' = [request EXCEPT ![s] = q]
  BY <1>1, <1>2, <1>3 DEF Requests, Steps
<1> HIDE DEF q
<1>8. Shape(q)
  BY <1>1, <1>2, <1>3, <1>7 DEF Shape
<1>9. /\ request' \in [Slots -> Requests] /\ request'[s] = q
      /\ \A t \in Slots : t # s => request'[t] = request[t]
  BY <1>1, <1>7
<1>10. Shapes'
  BY <1>8, <1>9 DEF Shapes, Inv
<1> QED BY <1>2, <1>3, <1>4, <1>5, <1>6, <1>7, <1>9, <1>10

-----------------------------------------------------------------------------
(* Types *)

\* A session that is established, or given a challenge.
LEMMA EstablishStep ==
  ASSUME Inv, NEW s \in Slots, request[s].at # "idle",
         NEW stage \in {"none", "password", "full"}, Establish(s, stage)
  PROVE  session' \in [Browsers -> Sessions]
<1>1. [Full EXCEPT !.stage = stage] \in Sessions
  BY IdleType DEF Sessions
<1>2. request[s].of \in Browsers /\ session \in [Browsers -> Sessions]
  BY DEF Inv, TypeOK, Sessions, Shapes, Shape
<1> QED BY <1>1, <1>2 DEF Establish

LEMMA ChallengeStep ==
  ASSUME Inv, NEW s \in Slots, request[s].at # "idle", NEW k \in Ceremonies, Challenge(s, k)
  PROVE  session' \in [Browsers -> Sessions]
<1>1. request[s].of \in Browsers /\ session \in [Browsers -> Sessions]
  BY DEF Inv, TypeOK, Sessions, Shapes, Shape
<1>2. [session[request[s].of] EXCEPT !.ceremonies = @ \cup {k}] \in Sessions
  BY <1>1 DEF Sessions
<1>3. session' = [session EXCEPT ![request[s].of] = [session[request[s].of] EXCEPT !.ceremonies = @ \cup {k}]]
  BY <1>1 DEF Challenge, Sessions
<1> QED BY <1>1, <1>2, <1>3

\* The codes, the sign-ins with them and the batches stay as they are.
LEMMA UseByUnchanged ==
  ASSUME UseInv, UNCHANGED <<rows, spent, uses, batches>>
  PROVE  UseInv'
BY DEF UseInv, Drawn, UsedOnce

\* The handlers that answer at once.
LEMMA AnswerTypes ==
  ASSUME Inv, UseInv, NEW s \in Slots,
         \/ Login(s) \/ TurnedAway(s) \/ Start(s) \/ Finish(s) \/ Verify(s) \/ Spend(s) \/ Break(s)
         \/ BeginAuthentication(s) \/ BeginRegistration(s)
         \/ CompleteAuthentication(s) \/ CompleteRegistration(s) \/ Declined(s)
  PROVE  Inv' /\ UseInv'
<1> DEFINE Rest == /\ user' \in [required : BOOLEAN, secret : 0 .. MaxSecrets, pending : 0 .. MaxSecrets, passkey : BOOLEAN]
                   /\ spent' \subseteq rows /\ passkeys' \in Nat
                   /\ session' \in [Browsers -> Sessions]
                   /\ secrets' \in 0 .. MaxSecrets /\ uses' \in [Codes -> Nat]
                   /\ UseInv'
                   /\ UNCHANGED <<rows, page, phone, batches, posts, crossed>>
<1>1. request' \in [Slots -> Requests] /\ Shapes'
  BY HandlersAnswer, AnsweringStep
<1>2. /\ user \in [required : BOOLEAN, secret : 0 .. MaxSecrets, pending : 0 .. MaxSecrets, passkey : BOOLEAN]
      /\ spent \subseteq rows /\ passkeys \in Nat /\ session \in [Browsers -> Sessions]
      /\ secrets \in 0 .. MaxSecrets /\ uses \in [Codes -> Nat]
  BY DEF Inv, TypeOK, Sessions
<1>3. Rest
  <2> USE DEF server, made, At
  <2>1. ASSUME NEW stage \in {"none", "password", "full"}, request[s].at # "idle",
               Establish(s, stage)
        PROVE  session' \in [Browsers -> Sessions]
    BY <2>1, EstablishStep
  <2>2. CASE Login(s)
    <3>1. session' \in [Browsers -> Sessions]
      BY <2>1, <2>2 DEF Login
    <3>2. UNCHANGED <<server, page, phone, made, posts, uses, crossed>>
      BY <2>2 DEF Login
    <3> QED BY <1>2, <3>1, <3>2, UseByUnchanged
  <2>3. CASE TurnedAway(s) \/ Break(s) \/ Declined(s)
    <3>1. UNCHANGED <<server, session, page, phone, made, posts, uses, crossed>>
      BY <2>3 DEF TurnedAway, Break, Declined
    <3> QED BY <1>2, <3>1, UseByUnchanged
  <2>4. CASE Start(s)
    <3>1. /\ secrets < MaxSecrets /\ secrets' = secrets + 1
          /\ user' = [user EXCEPT !.pending = secrets']
          /\ UNCHANGED <<rows, spent, passkeys, session, page, phone, batches, posts, uses, crossed>>
      BY <2>4 DEF Start
    <3>2. secrets' \in 0 .. MaxSecrets
      BY <1>2, <3>1, MfaAssumption
    <3> HIDE DEF Rest
    <3>3. user' \in [required : BOOLEAN, secret : 0 .. MaxSecrets, pending : 0 .. MaxSecrets, passkey : BOOLEAN]
      <4> DEFINE n == secrets'
      <4>1. n \in 0 .. MaxSecrets /\ user' = [user EXCEPT !.pending = n]
        BY <3>1, <3>2
      <4> HIDE DEF n
      <4> QED BY <1>2, <4>1
    <3> QED BY <1>2, <3>1, <3>2, <3>3, UseByUnchanged DEF Rest
  <2>5. CASE Finish(s)
    <3>1. session' \in [Browsers -> Sessions]
      BY <1>2, <2>1, <2>5 DEF Finish
    <3>2. UNCHANGED <<server, page, phone, made, posts, uses, crossed>>
      BY <2>5 DEF Finish
    <3> QED BY <1>2, <3>1, <3>2, UseByUnchanged
  <2>6. CASE Verify(s)
    <3>1. session' \in [Browsers -> Sessions]
      BY <1>2, <2>1, <2>6 DEF Verify
    <3>2. UNCHANGED <<server, page, phone, made, posts, uses, crossed>>
      BY <2>6 DEF Verify
    <3> QED BY <1>2, <3>1, <3>2, UseByUnchanged
  <2>7. CASE Spend(s)
    <3> DEFINE c == request[s].code
    <3>1. session' \in [Browsers -> Sessions]
      BY <1>2, <2>1, <2>7 DEF Spend
    <3>2. UNCHANGED <<user, rows, passkeys, page, phone, made, posts, crossed>>
      BY <2>7 DEF Spend
    <3>3. c \in Codes
      BY <2>7 DEF Spend, Inv, Shapes, Shape
    <3>4. \/ c \in rows \ spent /\ spent' = spent \cup {c} /\ uses' = [uses EXCEPT ![c] = @ + 1]
          \/ UNCHANGED <<spent, uses>>
      BY <2>7 DEF Spend
    <3> HIDE DEF c
    <3>5. CASE UNCHANGED <<spent, uses>>
      BY <1>2, <3>1, <3>2, <3>5, UseByUnchanged
    <3>6. CASE c \in rows \ spent /\ spent' = spent \cup {c} /\ uses' = [uses EXCEPT ![c] = @ + 1]
      <4>1. uses[c] = 0
        BY <1>2, <3>3, <3>6 DEF UseInv, UsedOnce
      <4>2. /\ uses' \in [Codes -> Nat] /\ uses'[c] = 1
            /\ \A d \in Codes : d # c => uses'[d] = uses[d]
        BY <1>2, <3>3, <3>6, <4>1
      <4>3. UsedOnce'
        BY <3>2, <3>6, <4>2 DEF UseInv, UsedOnce
      <4>4. Drawn'
        BY <3>2 DEF UseInv, Drawn
      <4> QED BY <1>2, <3>1, <3>2, <3>6, <4>2, <4>3, <4>4 DEF UseInv
    <3> QED BY <3>4, <3>5, <3>6
  <2>8. CASE BeginAuthentication(s) \/ BeginRegistration(s)
    <3>1. /\ request[s].at # "idle" /\ request[s].ceremony \in Ceremonies /\ "register" \in Ceremonies
          /\ \/ UNCHANGED session
             \/ Challenge(s, request[s].ceremony) \/ Challenge(s, "register")
      BY <2>8 DEF BeginAuthentication, BeginRegistration, Inv, TypeOK, Ceremonies
    <3>2. session' \in [Browsers -> Sessions]
      BY <1>2, <3>1, ChallengeStep
    <3>3. UNCHANGED <<server, page, phone, made, posts, uses, crossed>>
      BY <2>8 DEF BeginAuthentication, BeginRegistration
    <3> QED BY <1>2, <3>2, <3>3, UseByUnchanged
  <2>9. CASE CompleteAuthentication(s)
    <3>1. session' \in [Browsers -> Sessions]
      BY <1>2, <2>1, <2>9 DEF CompleteAuthentication
    <3>2. UNCHANGED <<server, page, phone, made, posts, uses, crossed>>
      BY <2>9 DEF CompleteAuthentication
    <3> QED BY <1>2, <3>1, <3>2, UseByUnchanged
  <2>10. CASE CompleteRegistration(s)
    <3>1. session' \in [Browsers -> Sessions]
      BY <1>2, <2>1, <2>10 DEF CompleteRegistration
    <3>2. /\ passkeys' = passkeys + 1
          /\ user' = [user EXCEPT !.passkey = TRUE, !.required = TRUE]
          /\ UNCHANGED <<rows, spent, page, phone, made, posts, uses, crossed>>
      BY <2>10 DEF CompleteRegistration
    <3>3. user' \in [required : BOOLEAN, secret : 0 .. MaxSecrets, pending : 0 .. MaxSecrets, passkey : BOOLEAN]
      BY <1>2, <3>2
    <3> QED BY <1>2, <3>1, <3>2, <3>3, UseByUnchanged
  <2> QED BY <2>2, <2>3, <2>4, <2>5, <2>6, <2>7, <2>8, <2>9, <2>10
<1>4. TypeOK'
  BY <1>1, <1>3 DEF Inv, TypeOK, Requests, Sessions
<1> QED BY <1>1, <1>3, <1>4 DEF Inv

\* The initial states.
LEMMA TypeInit ==
  ASSUME Init
  PROVE  Inv /\ UseInv
<1>1. 1 \in 0 .. MaxSecrets /\ 1 \in 1 .. MaxSecrets /\ 1 \in 0 .. MaxBatches /\ 1 \in Batches /\ 0 \in 0 .. MaxPosts
  BY MfaAssumption DEF Batches
<1>2. Batch(1) \subseteq Codes /\ \A c \in Batch(1) : c[1] = 1
  BY <1>1 DEF Batch, Codes
<1>3. \/ /\ user.secret = 1 /\ rows = Batch(1) /\ phone = {1} /\ secrets = 1 /\ batches = 1
      \/ /\ user.secret = None /\ rows = {} /\ phone = {} /\ secrets = 0 /\ batches = 0
  BY DEF Init
<1>4. user \in [required : BOOLEAN, secret : 0 .. MaxSecrets, pending : 0 .. MaxSecrets, passkey : BOOLEAN]
  BY <1>1, Numbers DEF Init
<1>5. /\ request \in [Slots -> Requests] /\ \A s \in Slots : request[s] = Idle
      /\ session \in [Browsers -> Sessions] /\ page \in [Browsers -> Pages]
  BY IdleType DEF Init
<1>6. Shapes
  BY <1>5, IdleType, Numbers DEF Shapes, Shape
<1>7. /\ rows \subseteq Codes /\ phone \subseteq 1 .. MaxSecrets /\ secrets \in 0 .. MaxSecrets
      /\ batches \in 0 .. MaxBatches
  BY <1>1, <1>2, <1>3, Numbers DEF None
<1>8. TypeOK
  BY <1>1, <1>4, <1>5, <1>7 DEF Init, TypeOK, Requests, Sessions, Pages
<1>9. Drawn
  BY <1>2, <1>3 DEF Drawn
<1>10. UsedOnce
  BY DEF Init, UsedOnce
<1> QED BY <1>6, <1>8, <1>9, <1>10 DEF Inv, UseInv

\* What the pages do by themselves.
LEMMA PagesStep ==
  ASSUME Inv, NEW b \in Browsers, Continue(b) \/ Reload(b) \/ SessionEnds(b)
  PROVE  /\ page' \in [Browsers -> Pages] /\ session' \in [Browsers -> Sessions]
         /\ UNCHANGED <<server, request, phone, made, posts, uses, crossed>>
<1>1. page \in [Browsers -> Pages] /\ session \in [Browsers -> Sessions]
  BY DEF Inv, TypeOK, Pages, Sessions
<1>2. [SignIn EXCEPT !.at = "home"] \in Pages /\ SignIn \in Pages /\ NoSession \in Sessions
  BY IdleType DEF Pages
<1>3. \/ page' = page \/ page' = [page EXCEPT ![b] = SignIn]
      \/ page' = [page EXCEPT ![b] = [SignIn EXCEPT !.at = "home"]]
  BY DEF Continue, Reload, SessionEnds
<1>4. session' = session \/ session' = [session EXCEPT ![b] = NoSession]
  BY DEF Continue, Reload, SessionEnds
<1>5. UNCHANGED <<server, request, phone, made, posts, uses, crossed>>
  BY DEF Continue, Reload, SessionEnds
<1>6. page' \in [Browsers -> Pages]
  BY <1>1, <1>2, <1>3
<1>7. session' \in [Browsers -> Sessions]
  BY <1>1, <1>2, <1>4
<1> QED BY <1>5, <1>6, <1>7

LEMMA TypeStep ==
  ASSUME Inv, UseInv, [Next]_vars
  PROVE  Inv' /\ UseInv'
<1> USE DEF server, made
<1>1. CASE UNCHANGED vars
  <2>1. Inv'
    BY <1>1 DEF vars, Inv, TypeOK, Shapes, Shape
  <2> QED BY <1>1, <2>1, UseByUnchanged DEF vars
<1>2. ASSUME NEW b \in Browsers, Continue(b) \/ Reload(b) \/ SessionEnds(b)
      PROVE  Inv' /\ UseInv'
  <2>1. /\ page' \in [Browsers -> Pages] /\ session' \in [Browsers -> Sessions]
        /\ UNCHANGED <<server, request, phone, made, posts, uses, crossed>>
    BY <1>2, PagesStep
  <2>2. TypeOK' /\ Shapes'
    BY <2>1 DEF Inv, TypeOK, Shapes, Shape, Pages, Sessions
  <2> QED BY <2>1, <2>2, UseByUnchanged DEF Inv
<1>3. ASSUME NEW s \in Slots, NEW b \in Browsers, Asks(s, b)
      PROVE  Inv' /\ UseInv'
  <2>1. /\ request' \in [Slots -> Requests] /\ Shapes'
        /\ page' \in [Browsers -> Pages] /\ posts' \in 0 .. MaxPosts
        /\ phone' \subseteq 1 .. MaxSecrets
        /\ UNCHANGED <<server, session, made, uses, crossed>>
    BY <1>3, AsksStep
  <2>2. TypeOK'
    BY <2>1 DEF Inv, TypeOK, Requests, Pages
  <2> QED BY <2>1, <2>2, UseByUnchanged DEF Inv
<1>4. ASSUME NEW s \in Slots, Told(s)
      PROVE  Inv' /\ UseInv'
  <2>1. /\ request' \in [Slots -> Requests] /\ Shapes' /\ page' \in [Browsers -> Pages]
        /\ UNCHANGED <<server, session, phone, made, posts, uses, crossed>>
    BY <1>4, ToldStep
  <2>2. TypeOK'
    BY <2>1 DEF Inv, TypeOK, Requests, Pages
  <2> QED BY <2>1, <2>2, UseByUnchanged DEF Inv
<1>5. ASSUME NEW s \in Slots, CheckConfirm(s) \/ CheckRegenerate(s) \/ Recover(s) \/ Delete(s)
      PROVE  Inv' /\ UseInv'
  <2>1. /\ request' \in [Slots -> Requests] /\ Shapes'
        /\ UNCHANGED <<server, session, page, phone, made, posts, uses, crossed>>
    BY <1>5, ChecksStep, DeleteStep
  <2>2. TypeOK'
    BY <2>1 DEF Inv, TypeOK, Requests
  <2> QED BY <2>1, <2>2, UseByUnchanged DEF Inv
<1>6. ASSUME NEW s \in Slots, Commit(s)
      PROVE  Inv' /\ UseInv'
  <2>1. /\ request' \in [Slots -> Requests] /\ Shapes'
        /\ batches' = batches + 1 /\ batches' \in 1 .. MaxBatches
        /\ Batch(batches') \subseteq Codes /\ Batch(batches') \cap rows = {}
        /\ crossed' = IF request[s].cross THEN crossed \cup {batches'} ELSE crossed
        /\ UNCHANGED <<passkeys, session, page, phone, secrets, posts, uses>>
    BY <1>6, CommitStep DEF UseInv
  <2>2. PICK gone \in SUBSET request[s].seen :
          rows' = (rows \ gone) \cup Batch(batches') /\ spent' = spent \ gone
    BY <1>6, CommitStep DEF UseInv
  <2>3. user' \in [required : BOOLEAN, secret : 0 .. MaxSecrets, pending : 0 .. MaxSecrets, passkey : BOOLEAN]
    <3>1. /\ user \in [required : BOOLEAN, secret : 0 .. MaxSecrets, pending : 0 .. MaxSecrets, passkey : BOOLEAN]
          /\ request[s].typed \in 0 .. MaxSecrets
      BY DEF Inv, TypeOK
    <3>2. \/ user' = user
          \/ user' = [user EXCEPT !.secret = request[s].typed, !.pending = None, !.required = TRUE]
      BY <1>6 DEF Commit
    <3> QED BY <3>1, <3>2, Numbers
  <2>4. /\ rows \subseteq Codes /\ spent \subseteq rows /\ batches \in 0 .. MaxBatches
        /\ batches' \in 0 .. MaxBatches /\ crossed' \subseteq Batches /\ uses \in [Codes -> Nat]
    BY <2>1, MfaAssumption DEF Inv, TypeOK, Batches
  <2>5. rows' \subseteq Codes /\ spent' \subseteq rows'
    BY <2>1, <2>2, <2>4
  <2>6. TypeOK'
    BY <2>1, <2>3, <2>4, <2>5 DEF Inv, TypeOK, Requests
  <2>7. \A c \in Batch(batches') : c[1] = batches'
    BY DEF Batch
  <2>8. Drawn'
    <3>1. \A c \in rows : c[1] <= batches'
      BY <2>1, <2>4, MfaAssumption DEF UseInv, Drawn, Codes, Batches
    <3>2. batches' <= batches'
      BY <2>4, MfaAssumption
    <3> QED BY <2>2, <2>7, <3>1, <3>2 DEF Drawn
  <2>9. UsedOnce'
    <3> SUFFICES ASSUME NEW c \in Codes
                 PROVE  uses'[c] <= 1 /\ (uses'[c] = 1 => c \in spent' \/ (c \notin rows' /\ c[1] <= batches'))
      BY DEF UsedOnce
    <3>1. uses[c] <= 1 /\ uses'[c] = uses[c]
      BY <2>1 DEF UseInv, UsedOnce
    <3>2. ASSUME uses[c] = 1
          PROVE  c \in spent' \/ (c \notin rows' /\ c[1] <= batches')
      <4>1. c \in spent => c[1] <= batches
        BY <2>4 DEF UseInv, Drawn
      <4>2. c[1] <= batches
        BY <3>2, <4>1 DEF UseInv, UsedOnce
      <4>3. c[1] <= batches' /\ c[1] # batches'
        BY <2>1, <2>4, <4>2, MfaAssumption DEF Codes, Batches
      <4>4. c \in spent \/ c \notin rows
        BY <3>2 DEF UseInv, UsedOnce
      <4> QED BY <2>2, <2>7, <4>3, <4>4
    <3> QED BY <3>1, <3>2
  <2> QED BY <2>1, <2>6, <2>8, <2>9 DEF Inv, UseInv
<1>7. CASE PendingExpires
  <2>1. /\ user' = [user EXCEPT !.pending = None]
        /\ UNCHANGED <<rows, spent, passkeys, session, request, page, phone, made, posts, uses, crossed>>
    BY <1>7 DEF PendingExpires
  <2>2. user' \in [required : BOOLEAN, secret : 0 .. MaxSecrets, pending : 0 .. MaxSecrets, passkey : BOOLEAN]
    BY <2>1, Numbers DEF Inv, TypeOK
  <2>3. TypeOK' /\ Shapes'
    BY <2>1, <2>2 DEF Inv, TypeOK, Shapes, Shape
  <2> QED BY <2>1, <2>3, UseByUnchanged DEF Inv
<1>8. ASSUME NEW s \in Slots, Handles(s)
      PROVE  Inv' /\ UseInv'
  BY <1>5, <1>6, <1>8, AnswerTypes DEF Handles
<1> QED BY <1>1, <1>2, <1>3, <1>4, <1>7, <1>8 DEF Next

LEMMA Invariance == Spec => [](Inv /\ UseInv)
<1>1. Init => Inv /\ UseInv
  BY TypeInit
<1>2. Inv /\ UseInv /\ [Next]_vars => (Inv /\ UseInv)'
  BY TypeStep
<1> QED BY <1>1, <1>2, PTL DEF Spec

\* The rows, sessions, requests and pages have their types at any moment; an
\* answer brings its page a number of what was made for it.
THEOREM TypeCorrect == Spec => []TypeOK
<1>1. Inv => TypeOK
  BY DEF Inv
<1> QED BY <1>1, Invariance, PTL

\* However many requests bring the same recovery code, in whatever browsers
\* and whatever transactions run beside them, the UPDATE of useRecoveryCode
\* lets one of them in.
THEOREM OneUse == Spec => []OneCodeOneUse
<1>1. UseInv => OneCodeOneUse
  BY DEF UseInv, UsedOnce, OneCodeOneUse
<1> QED BY <1>1, Invariance, PTL

-----------------------------------------------------------------------------
(* Nobody is locked out *)

\* What a confirmation compares is a code of the phone.
Typed ==
  \A s \in Slots :
    request[s].kind = "confirm" /\ request[s].at \in {"posted", "checked", "deleted"}
      => request[s].typed \in phone
LockInv == NeverLockedOut /\ Typed

LEMMA LockInit ==
  ASSUME Init
  PROVE  LockInv
<1>1. NeverLockedOut
  BY DEF Init, NeverLockedOut, None
<1>2. Typed
  BY IdleType DEF Init, Typed
<1> QED BY <1>1, <1>2 DEF LockInv

LEMMA LockStep ==
  ASSUME Inv, UseInv, LockInv, [Next]_vars
  PROVE  LockInv'
<1> USE DEF server, made
<1>1. CASE UNCHANGED vars
  BY <1>1 DEF vars, LockInv, NeverLockedOut, Typed
<1>2. ASSUME NEW b \in Browsers, Continue(b) \/ Reload(b) \/ SessionEnds(b)
      PROVE  LockInv'
  <2>1. UNCHANGED <<user, passkeys, phone, request>>
    BY <1>2, PagesStep
  <2> QED BY <2>1 DEF LockInv, NeverLockedOut, Typed
<1>3. ASSUME NEW s \in Slots, NEW b \in Browsers, Asks(s, b)
      PROVE  LockInv'
  <2>1. /\ \A t \in Slots : t # s => request'[t] = request[t]
        /\ request'[s].kind = "confirm" => request'[s].typed \in phone'
        /\ phone \subseteq phone' /\ UNCHANGED <<user, passkeys>>
    BY <1>3, AsksStep
  <2>2. Typed'
    BY <2>1 DEF LockInv, Typed
  <2>3. NeverLockedOut'
    BY <2>1 DEF LockInv, NeverLockedOut
  <2> QED BY <2>2, <2>3 DEF LockInv
<1>4. ASSUME NEW s \in Slots, Told(s)
      PROVE  LockInv'
  <2>1. /\ \A t \in Slots : t # s => request'[t] = request[t]
        /\ request'[s].at = "idle" \/ (request'[s].at = "posted" /\ request'[s].kind # "confirm")
        /\ UNCHANGED <<user, passkeys, phone>>
    BY <1>4, ToldStep
  <2>2. Typed'
    BY <2>1 DEF LockInv, Typed
  <2> QED BY <2>1, <2>2 DEF LockInv, NeverLockedOut
<1>5. ASSUME NEW s \in Slots, CheckConfirm(s) \/ CheckRegenerate(s) \/ Recover(s)
      PROVE  LockInv'
  <2>1. /\ \A t \in Slots : t # s => request'[t] = request[t]
        /\ request[s].at = "posted"
        /\ \/ request'[s].at = "answered"
           \/ request'[s].kind = request[s].kind /\ request'[s].typed = request[s].typed
        /\ UNCHANGED <<user, passkeys, phone>>
    BY <1>5, ChecksStep
  <2>2. Typed'
    BY <2>1 DEF LockInv, Typed
  <2> QED BY <2>1, <2>2 DEF LockInv, NeverLockedOut
<1>6. ASSUME NEW s \in Slots, Delete(s)
      PROVE  LockInv'
  <2>1. /\ request[s].at = "checked"
        /\ \A t \in Slots : /\ request'[t].kind = request[t].kind /\ request'[t].typed = request[t].typed
                            /\ t # s => request'[t].at = request[t].at
        /\ UNCHANGED <<user, passkeys, phone>>
    BY <1>6, DeleteStep
  <2>2. Typed'
    BY <2>1 DEF LockInv, Typed
  <2> QED BY <2>1, <2>2 DEF LockInv, NeverLockedOut
<1>7. ASSUME NEW s \in Slots, Commit(s)
      PROVE  LockInv'
  <2>1. /\ \A t \in Slots : t # s => request'[t] = request[t]
        /\ request[s].at = "deleted" /\ request'[s].at = "committed"
        /\ UNCHANGED <<passkeys, phone>>
    BY <1>7, CommitStep DEF UseInv
  <2>2. \/ user' = user
        \/ /\ request[s].kind = "confirm"
           /\ user' = [user EXCEPT !.secret = request[s].typed, !.pending = None, !.required = TRUE]
    BY <1>7 DEF Commit
  <2>3. \/ user' = user
        \/ user'.secret \in phone /\ user'.passkey = user.passkey
    BY <2>1, <2>2 DEF LockInv, Typed, Inv, TypeOK
  <2>4. NeverLockedOut'
    BY <2>1, <2>3 DEF LockInv, NeverLockedOut
  <2>5. Typed'
    BY <2>1 DEF LockInv, Typed
  <2> QED BY <2>4, <2>5 DEF LockInv
<1>8. CASE PendingExpires
  <2>1. /\ user'.secret = user.secret /\ user'.passkey = user.passkey
        /\ UNCHANGED <<passkeys, request, phone>>
    BY <1>8 DEF PendingExpires, Inv, TypeOK
  <2> QED BY <2>1 DEF LockInv, NeverLockedOut, Typed
<1>9. ASSUME NEW s \in Slots,
             \/ Login(s) \/ TurnedAway(s) \/ Start(s) \/ Finish(s) \/ Verify(s) \/ Spend(s) \/ Break(s)
             \/ BeginAuthentication(s) \/ BeginRegistration(s)
             \/ CompleteAuthentication(s) \/ CompleteRegistration(s) \/ Declined(s)
      PROVE  LockInv'
  <2>1. /\ \A t \in Slots : t # s => request'[t] = request[t]
        /\ request'[s].at = "answered"
    BY <1>9, HandlersAnswer, AnsweringStep
  <2>2. phone' = phone
    BY <1>9 DEF Login, TurnedAway, Start, Finish, Verify, Spend, Break, BeginAuthentication,
                BeginRegistration, CompleteAuthentication, CompleteRegistration, Declined
  <2>3. Typed'
    BY <2>1, <2>2 DEF LockInv, Typed
  <2>4. NeverLockedOut'
    <3>1. CASE Start(s)
      <4>1. user'.secret = user.secret /\ user'.passkey = user.passkey /\ passkeys' = passkeys
        BY <3>1 DEF Start, Inv, TypeOK
      <4> QED BY <2>2, <4>1 DEF LockInv, NeverLockedOut
    <3>2. CASE CompleteRegistration(s)
      <4>1. user'.secret = user.secret /\ passkeys' = passkeys + 1 /\ passkeys \in Nat
        BY <3>2 DEF CompleteRegistration, Inv, TypeOK
      <4> QED BY <2>2, <4>1 DEF LockInv, NeverLockedOut
    <3>3. CASE ~Start(s) /\ ~CompleteRegistration(s)
      <4>1. UNCHANGED <<user, passkeys>>
        BY <1>9, <3>3 DEF Login, TurnedAway, Finish, Verify, Spend, Break, BeginAuthentication,
                          BeginRegistration, CompleteAuthentication, Declined
      <4> QED BY <2>2, <4>1 DEF LockInv, NeverLockedOut
    <3> QED BY <3>1, <3>2, <3>3
  <2> QED BY <2>3, <2>4 DEF LockInv
<1>10. ASSUME NEW s \in Slots, Handles(s)
       PROVE  LockInv'
  BY <1>5, <1>6, <1>7, <1>9, <1>10 DEF Handles
<1> QED BY <1>1, <1>2, <1>3, <1>4, <1>8, <1>10 DEF Next

\* Whatever other enrolments are begun, confirmed or expire while a
\* confirmation runs, the secret it enrols is the one whose code was compared,
\* which the phone has, and a user marked as having passkeys has one.
THEOREM NoLockOut == Spec => []NeverLockedOut
<1>1. Init => LockInv
  BY LockInit
<1>2. Inv /\ UseInv /\ LockInv /\ [Next]_vars => LockInv'
  BY LockStep
<1>3. LockInv => NeverLockedOut
  BY DEF LockInv
<1> QED BY <1>1, <1>2, <1>3, Invariance, PTL DEF Spec

-----------------------------------------------------------------------------
(* New codes replace the old ones *)

\* Of two transactions at the same time one is a regeneration, and both know.
Meeting ==
  \A s, t \in Slots :
    Deleting(s) /\ Deleting(t) /\ s # t
      => /\ "regenerate" \in {request[s].kind, request[t].kind}
         /\ request[s].cross /\ request[t].cross

Fresh(b) == Batch(b) \cap (rows \ spent)

\* What a DELETE has not seen was inserted beside it.
SeenAll ==
  \A s \in Slots, b \in Batches :
    Deleting(s) => \/ Fresh(b) \subseteq request[s].seen
                   \/ request[s].cross /\ b \in crossed
BatchInv == OneBatch /\ Meeting /\ SeenAll

\* A step in which no transaction begins or ends: codes are spent at most.
LEMMA BatchStays ==
  ASSUME BatchInv, rows' = rows, spent \subseteq spent', crossed' = crossed,
         \A t \in Slots : request'[t].at = "deleted" => request'[t] = request[t]
  PROVE  BatchInv'
<1>1. \A b : Fresh(b)' \subseteq Fresh(b)
  BY DEF Fresh
<1>2. Unused' \subseteq Unused
  BY DEF Unused
<1>3. OneBatch'
  BY <1>2 DEF BatchInv, OneBatch
<1>4. \A t \in Slots : Deleting(t)' => Deleting(t) /\ request'[t] = request[t]
  BY DEF Deleting
<1>5. Meeting'
  BY <1>4 DEF BatchInv, Meeting
<1>6. SeenAll'
  BY <1>1, <1>4 DEF BatchInv, SeenAll
<1> QED BY <1>3, <1>5, <1>6 DEF BatchInv

LEMMA BatchInit ==
  ASSUME Init
  PROVE  BatchInv
<1>1. \A s \in Slots : ~Deleting(s)
  BY IdleType DEF Init, Deleting
<1>2. Meeting /\ SeenAll
  BY <1>1 DEF Meeting, SeenAll
<1>3. \A b \in Unused : b = 1
  BY DEF Init, Unused, Batch
<1> QED BY <1>2, <1>3 DEF BatchInv, OneBatch

\* A transaction begins.
LEMMA BatchDelete ==
  ASSUME Inv, BatchInv, NEW s \in Slots, Delete(s)
  PROVE  BatchInv'
<1>1. /\ request[s].at = "checked" /\ request'[s].at = "deleted" /\ rows \ spent \subseteq request'[s].seen
      /\ \A t \in Slots : /\ request'[t].kind = request[t].kind
                          /\ t # s => request'[t].at = request[t].at /\ request'[t].seen = request[t].seen
                          /\ request[t].cross /\ t # s => request'[t].cross
      /\ \A t \in Slots : Deleting(t) /\ "regenerate" \in {request[s].kind, request[t].kind}
                            => request'[s].cross /\ request'[t].cross
      /\ request[s].kind = "confirm" => ~UserLocked
      /\ Shapes' /\ UNCHANGED <<rows, spent, crossed>>
  BY DeleteStep DEF server
<1>2. \A t \in Slots : Deleting(t)' => t = s \/ (t # s /\ Deleting(t))
  BY <1>1 DEF Deleting
<1>3. \A t \in Slots : Deleting(t) => request[t].kind \in {"confirm", "regenerate"}
  BY DEF Inv, Shapes, Shape, Deleting
<1>4. request[s].kind \in {"confirm", "regenerate"}
  BY <1>1 DEF Shapes, Shape
<1>5. ASSUME NEW t \in Slots, Deleting(t)
      PROVE  /\ "regenerate" \in {request[s].kind, request[t].kind}
             /\ request'[s].cross /\ request'[t].cross
  <2>1. request[t].kind = "confirm" => UserLocked
    BY <1>5 DEF UserLocked, At, Deleting
  <2>2. "regenerate" \in {request[s].kind, request[t].kind}
    BY <1>1, <1>3, <1>4, <1>5, <2>1
  <2> QED BY <1>1, <1>5, <2>2
<1>6. Meeting'
  <2> SUFFICES ASSUME NEW t \in Slots, NEW u \in Slots, Deleting(t)', Deleting(u)', t # u
               PROVE  /\ "regenerate" \in {request'[t].kind, request'[u].kind}
                      /\ request'[t].cross /\ request'[u].cross
    BY DEF Meeting
  <2>1. CASE t = s
    BY <1>1, <1>2, <1>5, <2>1
  <2>2. CASE u = s
    BY <1>1, <1>2, <1>5, <2>2
  <2>3. CASE t # s /\ u # s
    <3>1. Deleting(t) /\ Deleting(u)
      BY <1>2, <2>3
    <3>2. /\ "regenerate" \in {request[t].kind, request[u].kind}
          /\ request[t].cross /\ request[u].cross
      BY <3>1 DEF BatchInv, Meeting
    <3> QED BY <1>1, <2>3, <3>2
  <2> QED BY <2>1, <2>2, <2>3
<1>7. \A b : Fresh(b)' = Fresh(b) /\ Fresh(b) \subseteq rows \ spent
  BY <1>1 DEF Fresh
<1>8. SeenAll'
  <2> SUFFICES ASSUME NEW t \in Slots, NEW b \in Batches, Deleting(t)'
               PROVE  Fresh(b)' \subseteq request'[t].seen \/ (request'[t].cross /\ b \in crossed')
    BY DEF SeenAll
  <2>1. CASE t = s
    BY <1>1, <1>7, <2>1
  <2>2. CASE t # s
    <3>1. Deleting(t)
      BY <1>2, <2>2
    <3> QED BY <1>1, <1>7, <2>2, <3>1 DEF BatchInv, SeenAll
  <2> QED BY <2>1, <2>2
<1>9. OneBatch'
  BY <1>1 DEF BatchInv, OneBatch, Unused
<1> QED BY <1>6, <1>8, <1>9 DEF BatchInv

\* A transaction ends: what is left of another batch it had not seen, so that
\* both were drawn beside others, and those still under way know it.
LEMMA BatchCommit ==
  ASSUME Inv, UseInv, BatchInv, NEW s \in Slots, Commit(s)
  PROVE  BatchInv'
<1> DEFINE n == batches'
<1>1. /\ \A t \in Slots : t # s => request'[t] = request[t]
      /\ Deleting(s) /\ request'[s].at = "committed"
      /\ n \in Batches
      /\ rows' \ spent' = ((rows \ spent) \ request[s].seen) \cup Batch(n)
      /\ crossed' = IF request[s].cross THEN crossed \cup {n} ELSE crossed
  BY CommitStep DEF UseInv, Deleting, Batches
<1> HIDE DEF n
<1>2. \A b \in Batches : b # n => Fresh(b)' = Fresh(b) \ request[s].seen
  <2> TAKE b \in Batches
  <2> HAVE b # n
  <2>1. Batch(b) \cap Batch(n) = {}
    BY DEF Batch
  <2> QED BY <1>1, <2>1 DEF Fresh
<1>3. \A b \in Unused' : b \in Batches /\ Fresh(b)' # {}
  BY DEF Unused, Fresh
<1>4. ASSUME NEW b \in Unused', b # n
      PROVE  b \in Unused /\ (request[s].cross /\ b \in crossed)
  <2>1. b \in Batches /\ Fresh(b) \ request[s].seen # {}
    BY <1>2, <1>3, <1>4
  <2>2. b \in Unused
    BY <2>1 DEF Unused, Fresh
  <2>3. ~(Fresh(b) \subseteq request[s].seen)
    BY <2>1
  <2> QED BY <1>1, <2>1, <2>2, <2>3 DEF BatchInv, SeenAll
<1>5. OneBatch'
  <2> SUFFICES ASSUME NEW a \in Unused', NEW b \in Unused', a # b
               PROVE  a \in crossed' /\ b \in crossed'
    BY DEF OneBatch
  <2>1. a = n \/ a \in crossed
    BY <1>4
  <2>2. b = n \/ b \in crossed
    BY <1>4
  <2>3. request[s].cross
    BY <1>4
  <2> QED BY <1>1, <2>1, <2>2, <2>3
<1>6. \A t \in Slots : Deleting(t)' => t # s /\ Deleting(t)
  BY <1>1 DEF Deleting
<1>7. Meeting'
  BY <1>1, <1>6 DEF BatchInv, Meeting
<1>8. SeenAll'
  <2> SUFFICES ASSUME NEW t \in Slots, NEW b \in Batches, Deleting(t)'
               PROVE  Fresh(b)' \subseteq request'[t].seen \/ (request'[t].cross /\ b \in crossed')
    BY DEF SeenAll
  <2>1. t # s /\ Deleting(t) /\ request'[t] = request[t]
    BY <1>1, <1>6
  <2>2. CASE b = n
    <3>1. request[s].cross /\ request[t].cross
      BY <1>1, <2>1 DEF BatchInv, Meeting
    <3> QED BY <1>1, <2>1, <2>2, <3>1
  <2>3. CASE b # n
    <3>1. Fresh(b) \subseteq request[t].seen \/ (request[t].cross /\ b \in crossed)
      BY <2>1 DEF BatchInv, SeenAll
    <3>2. Fresh(b)' \subseteq Fresh(b) /\ crossed \subseteq crossed'
      BY <1>1, <1>2, <2>3
    <3> QED BY <2>1, <3>1, <3>2
  <2> QED BY <2>2, <2>3
<1> QED BY <1>5, <1>7, <1>8 DEF BatchInv

LEMMA BatchStep ==
  ASSUME Inv, UseInv, BatchInv, [Next]_vars
  PROVE  BatchInv'
<1> USE DEF server, made
<1>1. CASE UNCHANGED vars
  BY <1>1, BatchStays DEF vars
<1>2. ASSUME NEW b \in Browsers, Continue(b) \/ Reload(b) \/ SessionEnds(b)
      PROVE  BatchInv'
  <2>1. UNCHANGED <<rows, spent, crossed, request>>
    BY <1>2, PagesStep
  <2> QED BY <2>1, BatchStays
<1>3. ASSUME NEW s \in Slots,
             \/ Told(s) \/ (\E b \in Browsers : Asks(s, b))
             \/ CheckConfirm(s) \/ CheckRegenerate(s) \/ Recover(s)
      PROVE  BatchInv'
  <2>1. /\ \A t \in Slots : t # s => request'[t] = request[t]
        /\ request'[s].at \in {"idle", "posted", "checked", "answered"}
        /\ UNCHANGED <<rows, spent, crossed>>
    BY <1>3, ToldStep, AsksStep, ChecksStep
  <2> QED BY <2>1, BatchStays
<1>4. CASE PendingExpires
  <2>1. UNCHANGED <<rows, spent, crossed, request>>
    BY <1>4 DEF PendingExpires
  <2> QED BY <2>1, BatchStays
<1>5. ASSUME NEW s \in Slots,
             \/ Login(s) \/ TurnedAway(s) \/ Start(s) \/ Finish(s) \/ Verify(s) \/ Spend(s) \/ Break(s)
             \/ BeginAuthentication(s) \/ BeginRegistration(s)
             \/ CompleteAuthentication(s) \/ CompleteRegistration(s) \/ Declined(s)
      PROVE  BatchInv'
  <2>1. /\ \A t \in Slots : t # s => request'[t] = request[t]
        /\ request'[s].at = "answered"
    BY <1>5, HandlersAnswer, AnsweringStep
  <2>2. rows' = rows /\ spent \subseteq spent' /\ crossed' = crossed
    BY <1>5 DEF Login, TurnedAway, Start, Finish, Verify, Spend, Break, BeginAuthentication,
                BeginRegistration, CompleteAuthentication, CompleteRegistration, Declined
  <2> QED BY <2>1, <2>2, BatchStays
<1>6. ASSUME NEW s \in Slots, Handles(s)
      PROVE  BatchInv'
  BY <1>3, <1>5, <1>6, BatchDelete, BatchCommit DEF Handles
<1> QED BY <1>1, <1>2, <1>3, <1>4, <1>6 DEF Next

\* The codes of two batches are good at the same time only where a
\* regeneration, which does not lock the row of the user, ran beside another
\* transaction; confirmations never do this to each other, however they
\* interleave (confirmTotpEnrollment, regenerateRecoveryCodes).
THEOREM BatchesReplaced == Spec => []OneBatch
<1>1. Init => BatchInv
  BY BatchInit
<1>2. Inv /\ UseInv /\ BatchInv /\ [Next]_vars => BatchInv'
  BY BatchStep
<1>3. BatchInv => OneBatch
  BY DEF BatchInv
<1> QED BY <1>1, <1>2, <1>3, Invariance, PTL DEF Spec
=============================================================================
