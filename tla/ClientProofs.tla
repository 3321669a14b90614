---------------------------- MODULE ClientProofs ----------------------------
(***************************************************************************)
(* Proofs about Client, for any tabs, calls and bounds: it keeps the       *)
(* promise of UserCalls, makes no more sessions than its calls may, needs  *)
(* one retry at most, and shows the workspace over a live session only.    *)
(***************************************************************************)
EXTENDS Client, FiniteSetTheorems, TLAPS

OpenCalls == {c \in Calls : call[c].at # "idle"}

\* Session and token numbers are numbers; TypeOK bounds them too.
Shapes ==
  [kind : Kinds, at : Steps, sid : Nat, token : Nat, sets : BOOLEAN,
   answer : Answers, retried : BOOLEAN, on : Calls \cup {NoCall}]

Rows == [user : BOOLEAN, token : Nat]

Numbers ==
  /\ cookie \in Nat /\ made \in Nat
  /\ store \in [Sids -> Rows]
  /\ cached \in [Tabs -> Nat]
  /\ fetching \in [Tabs -> Calls \cup {NoCall}]

\* A call that is not answered was not performed, and the answer tells
\* whether it was.
Honest(r, n) ==
  /\ r.at # "answered" => n = 0
  /\ r.at = "answered" /\ r.answer \in {"badCsrf", "noSession"} => n = 0
  /\ r.at = "answered" /\ r.answer \in {"ok", "refused", "wrongCode"} => n = 1
  /\ r.at = "answered" => r.answer # "none"

Inv ==
  /\ Numbers
  /\ call \in [Calls -> Shapes]
  /\ performed \in [Calls -> Nat]
  /\ \A c \in Calls : Honest(call[c], performed[c])

LEMMA IdleShape == Idle \in Shapes /\ Idle.at = "idle" /\ Honest(Idle, 0)
BY DEF Idle, Shapes, Kinds, Steps, Answers, NoSid, NoCall, Honest

LEMMA InitInv == Init => Inv
<1> SUFFICES ASSUME Init PROVE Inv
  OBVIOUS
<1>1. Numbers
  <2>1. cookie \in Nat /\ made \in Nat /\ store \in [Sids -> Rows]
    <3>1. NoRow \in Rows /\ \A n \in Sids : [user |-> TRUE, token |-> n] \in Rows
      BY DEF NoRow, Sids, Rows
    <3> QED BY <3>1 DEF Init
  <2>2. cached \in [Tabs -> Nat] /\ fetching \in [Tabs -> Calls \cup {NoCall}]
    BY DEF Init
  <2> QED BY <2>1, <2>2 DEF Numbers
<1> QED BY <1>1, IdleShape DEF Init, Inv

-----------------------------------------------------------------------------
(* Steps, as far as the promise can see them *)

\* A call is begun: the others stay, and nothing was done for it.
Begins(c) ==
  /\ call[c].at = "idle"
  /\ \E r \in Shapes : r.at \notin {"idle", "answered"} /\ call' = [call EXCEPT ![c] = r]
  /\ told' = Silence /\ UNCHANGED performed

\* The calls C, under way and of one answer, end with a verdict.
Ends(C, verdict) ==
  /\ C # {} /\ C \subseteq OpenCalls /\ verdict \in Verdicts
  /\ verdict \in {"done", "refused"} => \A c \in C : performed[c] = 1
  /\ verdict \in {"badToken", "turnedAway"} => \A c \in C : performed[c] = 0
  /\ call' = [c \in Calls |-> IF c \in C THEN Idle ELSE call[c]]
  /\ performed' = [c \in Calls |-> IF c \in C THEN 0 ELSE performed[c]]
  /\ told' = [of |-> C, verdict |-> verdict]

\* The server does what is asked, and says so at once.
Does(c) ==
  /\ call[c].at \in {"request", "handler"}
  /\ \E r \in Shapes : /\ r.at = "answered" /\ r.answer \in {"ok", "refused", "wrongCode"}
                       /\ call' = [call EXCEPT ![c] = r]
  /\ performed' = [performed EXCEPT ![c] = @ + 1]
  /\ UNCHANGED told

\* Calls move on and nothing is done or said.
Moves ==
  /\ call' \in [Calls -> Shapes]
  /\ \A c \in Calls : /\ (call'[c].at = "idle") = (call[c].at = "idle")
                      /\ Honest(call'[c], performed[c])
  /\ UNCHANGED <<performed, told>>

View == (\E c \in Calls : Begins(c) \/ Does(c)) \/ (\E C, v : Ends(C, v)) \/ Moves

\* Enough for Moves: one call gets a new record.
LEMMA MoveOne ==
  ASSUME Inv, NEW c \in Calls, NEW r \in Shapes,
         call' = [call EXCEPT ![c] = r], UNCHANGED <<performed, told>>,
         r.at # "idle", call[c].at # "idle", Honest(r, performed[c])
  PROVE  Moves
BY DEF Inv, Moves

\* Two calls of one tab do not touch one another, so that each of these is
\* one step of UserCalls or none, and keeps the invariant.
LEMMA ViewKeeps ==
  ASSUME Inv, Numbers', View PROVE Inv' /\ [Promise!Next]_<<OpenCalls, performed, told>>
<1>1. ASSUME NEW c \in Calls, Begins(c) PROVE Inv' /\ Promise!Next
  <2>1. PICK r \in Shapes : r.at \notin {"idle", "answered"} /\ call' = [call EXCEPT ![c] = r]
    BY <1>1 DEF Begins
  <2>2. Inv'
    BY <1>1, <2>1 DEF Begins, Inv, Honest
  <2>3. OpenCalls' = OpenCalls \cup {c} /\ c \notin OpenCalls
    BY <1>1, <2>1 DEF Begins, Inv, OpenCalls
  <2>4. Promise!Ask(c)
    BY <1>1, <2>3 DEF Begins, Promise!Ask, Promise!Silence, Silence, OpenCalls
  <2> QED BY <2>2, <2>4 DEF Promise!Next
<1>2. ASSUME NEW c \in Calls, Does(c) PROVE Inv' /\ Promise!Next
  <2>1. PICK r \in Shapes : /\ r.at = "answered" /\ r.answer \in {"ok", "refused", "wrongCode"}
                            /\ call' = [call EXCEPT ![c] = r]
    BY <1>2 DEF Does
  <2>2. performed[c] = 0 /\ performed' = [performed EXCEPT ![c] = 1]
    <3>1. performed[c] = 0
      BY <1>2 DEF Does, Inv, Honest
    <3> QED BY <1>2, <3>1 DEF Does
  <2>3. Inv'
    BY <1>2, <2>1, <2>2 DEF Inv, Honest
  <2>4. OpenCalls' = OpenCalls /\ c \in OpenCalls
    BY <1>2, <2>1 DEF Does, Inv, OpenCalls
  <2>5. Promise!Perform(c)
    BY <1>2, <2>2, <2>4 DEF Does, Promise!Perform, OpenCalls
  <2> QED BY <2>3, <2>5 DEF Promise!Next
<1>3. ASSUME NEW C, NEW v, Ends(C, v) PROVE Inv' /\ Promise!Next
  <2>1. C \in SUBSET Calls /\ v \in Promise!Verdicts
    BY <1>3 DEF Ends, OpenCalls, Verdicts, Promise!Verdicts
  <2>2. Inv'
    BY <1>3, IdleShape DEF Ends, Inv
  <2>3. OpenCalls' = OpenCalls \ C
    BY <1>3, IdleShape DEF Ends, OpenCalls
  <2>4. Promise!Tell(C, v)
    BY <1>3, <2>3 DEF Ends, Promise!Tell, OpenCalls
  <2> QED BY <2>1, <2>2, <2>4 DEF Promise!Next
<1>4. CASE Moves
  <2>1. Inv'
    BY <1>4 DEF Moves, Inv
  <2>2. OpenCalls' = OpenCalls
    BY <1>4 DEF Moves, OpenCalls
  <2> QED BY <1>4, <2>1, <2>2 DEF Moves
<1> QED BY <1>1, <1>2, <1>3, <1>4 DEF View

-----------------------------------------------------------------------------
(* What a step writes into the record of its call *)

Same(r, q) == r.kind = q.kind /\ r.retried = q.retried

LEMMA PrepareRecord ==
  ASSUME Inv, NEW c \in Calls, NEW kind \in Kinds, Prepare(c, kind)
  PROVE  \E r \in Shapes :
           /\ call' = [call EXCEPT ![c] = r]
           /\ r.kind = kind /\ r.sid = cookie /\ r.sets = FALSE /\ r.answer = "none"
           /\ r.retried = FALSE /\ r.at \in {"request", "wait", "fetch"}
           /\ r.token \in {0, cached[TabOf[c]]}
<1> DEFINE t == TabOf[c]
           fresh == [Idle EXCEPT !.kind = kind, !.sid = cookie]
<1>1. /\ fresh \in Shapes /\ t \in Tabs
      /\ fresh.kind = kind /\ fresh.sid = cookie /\ fresh.sets = FALSE /\ fresh.answer = "none"
      /\ fresh.retried = FALSE /\ fresh.token = 0
  BY ClientAssumption, IdleShape DEF Shapes, Inv, Numbers, Idle
<1>2. cached[t] \in Nat /\ fetching[t] \in Calls \cup {NoCall}
  BY <1>1 DEF Inv, Numbers
<1>3. CASE kind \notin Unsafe \/ cached[t] # 0
  <2> DEFINE r == [fresh EXCEPT !.at = "request", !.token = IF kind \in Unsafe THEN cached[t] ELSE 0]
  <2>1. call' = [call EXCEPT ![c] = r]
    BY <1>3 DEF Prepare
  <2>2. r \in Shapes /\ r.at = "request" /\ r.token \in {0, cached[t]} /\ r.kind = kind /\ r.sid = cookie
        /\ r.sets = FALSE /\ r.answer = "none" /\ r.retried = FALSE
    <3> HIDE DEF fresh
    <3> QED BY <1>1, <1>2 DEF Shapes, Steps
  <2> QED BY <2>1, <2>2
<1>4. CASE kind \in Unsafe /\ cached[t] = 0 /\ fetching[t] # NoCall
  <2> DEFINE r == [fresh EXCEPT !.at = "wait", !.on = fetching[t]]
  <2>1. call' = [call EXCEPT ![c] = r]
    BY <1>4 DEF Prepare
  <2>2. r \in Shapes /\ r.at = "wait" /\ r.token = 0 /\ r.kind = kind /\ r.sid = cookie
        /\ r.sets = FALSE /\ r.answer = "none" /\ r.retried = FALSE
    <3> HIDE DEF fresh
    <3> QED BY <1>1, <1>2 DEF Shapes, Steps
  <2> QED BY <2>1, <2>2
<1>5. CASE kind \in Unsafe /\ cached[t] = 0 /\ fetching[t] = NoCall
  <2> DEFINE r == [fresh EXCEPT !.at = "fetch"]
  <2>1. call' = [call EXCEPT ![c] = r]
    BY <1>5 DEF Prepare
  <2>2. r \in Shapes /\ r.at = "fetch" /\ r.token = 0 /\ r.kind = kind /\ r.sid = cookie
        /\ r.sets = FALSE /\ r.answer = "none" /\ r.retried = FALSE
    <3> HIDE DEF fresh
    <3> QED BY <1>1 DEF Shapes, Steps
  <2> QED BY <2>1, <2>2
<1> QED BY <1>3, <1>4, <1>5

LEMMA RetryRecord ==
  ASSUME Inv, NEW c \in Calls, Retry(c)
  PROVE  \E r \in Shapes :
           /\ call' = [call EXCEPT ![c] = r]
           /\ r.kind = call[c].kind /\ r.sets = call[c].sets /\ r.sid = cookie /\ r.token = 0
           /\ r.answer = "none" /\ r.retried = TRUE /\ r.at = "fetch"
<1> DEFINE r == [call[c] EXCEPT !.at = "fetch", !.sid = cookie, !.token = 0,
                                !.answer = "none", !.retried = TRUE]
<1>1. call[c] \in Shapes /\ cookie \in Nat
  BY DEF Inv, Numbers
<1>2. call' = [call EXCEPT ![c] = r]
  BY DEF Retry
<1>3. r \in Shapes /\ r.kind = call[c].kind /\ r.sets = call[c].sets /\ r.sid = cookie /\ r.token = 0
      /\ r.answer = "none" /\ r.retried = TRUE /\ r.at = "fetch"
  BY <1>1 DEF Shapes, Steps, Answers
<1> QED BY <1>2, <1>3

\* The token of the row, or a row of its own.
LEMMA FetchRecord ==
  ASSUME Inv, NEW c \in Calls, AnswerFetch(c)
  PROVE  \E r \in Shapes :
           /\ call' = [call EXCEPT ![c] = r]
           /\ Same(r, call[c]) /\ r.at = "fetched"
           /\ \/ /\ r.token = Row(r.sid).token /\ r.token # 0
                 /\ r.sid = call[c].sid /\ r.sets = call[c].sets /\ UNCHANGED <<store, made>>
              \/ /\ Row(call[c].sid).token = 0
                 /\ r.token = made + 1 /\ r.sid = made + 1 /\ r.sets = TRUE
                 /\ made' = made + 1
                 /\ store' = [store EXCEPT ![made + 1] = [user |-> FALSE, token |-> made + 1]]
<1>1. call[c] \in Shapes /\ made + 1 \in Nat /\ Row(call[c].sid).token \in Nat
  BY DEF Inv, Numbers, Row, NoRow, Rows
<1>2. CASE Row(call[c].sid).token # 0
  <2> DEFINE r == [call[c] EXCEPT !.at = "fetched", !.token = Row(call[c].sid).token]
  <2>1. call' = [call EXCEPT ![c] = r] /\ UNCHANGED <<store, made>>
    BY <1>2 DEF AnswerFetch
  <2>2. r \in Shapes /\ Same(r, call[c]) /\ r.at = "fetched" /\ r.token = Row(call[c].sid).token
        /\ r.sid = call[c].sid /\ r.sets = call[c].sets
    BY <1>1 DEF Shapes, Steps, Same
  <2> HIDE DEF r
  <2>3. r.token = Row(r.sid).token /\ r.token # 0
    BY <1>2, <2>2
  <2> QED BY <2>1, <2>2, <2>3
<1>3. CASE Row(call[c].sid).token = 0
  <2> DEFINE r == [call[c] EXCEPT !.at = "fetched", !.token = made + 1, !.sid = made + 1, !.sets = TRUE]
  <2>1. /\ call' = [call EXCEPT ![c] = r] /\ made' = made + 1
        /\ store' = [store EXCEPT ![made + 1] = [user |-> FALSE, token |-> made + 1]]
    BY <1>3 DEF AnswerFetch
  <2>2. r \in Shapes /\ Same(r, call[c]) /\ r.at = "fetched" /\ r.token = made + 1
        /\ r.sid = made + 1 /\ r.sets = TRUE
    BY <1>1 DEF Shapes, Steps, Same
  <2> HIDE DEF r
  <2> QED BY <1>3, <2>1, <2>2
<1> QED BY <1>1, <1>2, <1>3

\* A request is answered and its row stays.
LEMMA ReplyRecord ==
  ASSUME Inv, NEW c \in Calls, NEW answer \in Answers, Reply(c, answer)
  PROVE  \E r \in Shapes :
           /\ call' = [call EXCEPT ![c] = r]
           /\ Same(r, call[c]) /\ r.at = "answered" /\ r.answer = answer
           /\ r.sid = call[c].sid /\ r.sets = call[c].sets /\ r.token = call[c].token
<1> DEFINE r == [call[c] EXCEPT !.at = "answered", !.answer = answer]
<1>1. call[c] \in Shapes
  BY DEF Inv
<1>2. r \in Shapes /\ Same(r, call[c]) /\ r.at = "answered" /\ r.answer = answer
      /\ r.sid = call[c].sid /\ r.sets = call[c].sets /\ r.token = call[c].token
  BY <1>1 DEF Shapes, Steps, Same
<1> QED BY <1>2 DEF Reply

LEMMA CheckRecord ==
  ASSUME Inv, NEW c \in Calls, CheckFactor(c)
  PROVE  \E r \in Shapes :
           /\ call' = [call EXCEPT ![c] = r]
           /\ Same(r, call[c]) /\ r.at = "handler" /\ r.answer = call[c].answer
           /\ r.sid = call[c].sid /\ r.sets = call[c].sets /\ r.token = call[c].token
<1> DEFINE r == [call[c] EXCEPT !.at = "handler"]
<1>1. call[c] \in Shapes
  BY DEF Inv
<1>2. r \in Shapes /\ Same(r, call[c]) /\ r.at = "handler" /\ r.answer = call[c].answer
      /\ r.sid = call[c].sid /\ r.sets = call[c].sets /\ r.token = call[c].token
  BY <1>1 DEF Shapes, Steps, Same
<1> QED BY <1>2 DEF CheckFactor

LEMMA EndRecord ==
  ASSUME Inv, NEW c \in Calls, EndSession(c)
  PROVE  \E r \in Shapes :
           /\ call' = [call EXCEPT ![c] = r]
           /\ Same(r, call[c]) /\ r.at = "answered" /\ r.answer = "ok"
           /\ r.sid = NoSid /\ r.sets = TRUE /\ r.token = call[c].token
<1> DEFINE r == [call[c] EXCEPT !.at = "answered", !.answer = "ok", !.sid = NoSid, !.sets = TRUE]
<1>1. call[c] \in Shapes
  BY DEF Inv
<1>2. r \in Shapes /\ Same(r, call[c]) /\ r.at = "answered" /\ r.answer = "ok"
      /\ r.sid = NoSid /\ r.sets = TRUE /\ r.token = call[c].token
  BY <1>1 DEF Shapes, Steps, Same, Answers, NoSid
<1> QED BY <1>2 DEF EndSession

LEMMA EstablishRecord ==
  ASSUME Inv, NEW c \in Calls, EstablishSession(c)
  PROVE  \E r \in Shapes :
           /\ call' = [call EXCEPT ![c] = r]
           /\ Same(r, call[c]) /\ r.at = "answered" /\ r.answer = "ok"
           /\ r.sid = made + 1 /\ r.sets = TRUE /\ r.token = call[c].token
<1> DEFINE r == [call[c] EXCEPT !.at = "answered", !.answer = "ok", !.sid = made + 1, !.sets = TRUE]
<1>1. call[c] \in Shapes /\ made + 1 \in Nat
  BY DEF Inv, Numbers
<1>2. r \in Shapes /\ Same(r, call[c]) /\ r.at = "answered" /\ r.answer = "ok"
      /\ r.sid = made + 1 /\ r.sets = TRUE /\ r.token = call[c].token
  BY <1>1 DEF Shapes, Steps, Same, Answers
<1> QED BY <1>2 DEF EstablishSession

\* Who shares a fetch that is answered sends its request.
LEMMA FetchedRecords ==
  ASSUME Inv, NEW c \in Calls, Fetched(c), NEW d \in Calls
  PROVE  /\ call'[d] \in Shapes /\ Same(call'[d], call[d])
         /\ d \notin Sharers(c) => call'[d] = call[d]
         /\ d \in Sharers(c) =>
              /\ call[d].at \in {"wait", "fetched"} /\ (call[d].at = "fetched" => d = c)
              /\ call'[d].at = "request" /\ call'[d].token = call[c].token /\ call'[d].sid = cookie'
              /\ call'[d].sets = FALSE /\ call'[d].answer = call[d].answer
<1> DEFINE r == [call[d] EXCEPT !.at = "request", !.token = call[c].token, !.sid = cookie',
                                !.sets = FALSE, !.on = NoCall]
<1>1. /\ call[c] \in Shapes /\ call[d] \in Shapes
      /\ cookie' = IF call[c].sets THEN call[c].sid ELSE cookie
      /\ cookie \in Nat
  BY DEF Fetched, Inv, Numbers
<1>2. call'[d] = IF d \notin Sharers(c) THEN call[d] ELSE r
  BY DEF Fetched
<1>3. cookie' \in Nat /\ call[c].token \in Nat
  BY <1>1 DEF Shapes
<1>4. /\ r \in Shapes /\ Same(r, call[d]) /\ r.at = "request" /\ r.token = call[c].token
      /\ r.sid = cookie' /\ r.sets = FALSE /\ r.answer = call[d].answer
  BY <1>1, <1>3 DEF Shapes, Steps, NoCall, Same
<1>5. d \in Sharers(c) => call[d].at \in {"wait", "fetched"} /\ (call[d].at = "fetched" => d = c)
  BY DEF Sharers, Fetched
<1> HIDE DEF r
<1>6. CASE d \notin Sharers(c)
  BY <1>1, <1>2, <1>6 DEF Same
<1>7. CASE d \in Sharers(c)
  BY <1>2, <1>4, <1>5, <1>7
<1> QED BY <1>6, <1>7

\* The calls that end are idle again, and the others stay.
LEMMA EndedRecords ==
  ASSUME Inv, NEW c \in Calls, Finish(c) \/ Lose(c), NEW d \in Calls
  PROVE  call'[d] = call[d] \/ call'[d] = Idle
BY DEF Finish, Lose, Settle

-----------------------------------------------------------------------------
(* Every action is such a step *)

LEMMA PrepareBegins ==
  ASSUME Inv, NEW c \in Calls, NEW kind \in Kinds, Prepare(c, kind) PROVE Begins(c) /\ Numbers'
<1>1. PICK r \in Shapes : r.at \in {"request", "wait", "fetch"} /\ call' = [call EXCEPT ![c] = r]
  BY PrepareRecord
<1>2. Begins(c)
  BY <1>1 DEF Prepare, Begins
<1>3. Numbers'
  BY ClientAssumption DEF Prepare, FetchToken, Inv, Numbers
<1> QED BY <1>2, <1>3

\* Settle ends the calls it is given, if the verdict fits them.
LEMMA SettleEnds ==
  ASSUME Inv, NEW c \in Calls, NEW C, NEW answer, NEW v, Settle(TabOf[c], C, answer, v),
         C # {}, C \subseteq OpenCalls, v \in Verdicts,
         v \in {"done", "refused"} => \A d \in C : performed[d] = 1,
         v \in {"badToken", "turnedAway"} => \A d \in C : performed[d] = 0
  PROVE  Ends(C, v) /\ cached' \in [Tabs -> Nat]
<1>1. Ends(C, v)
  BY DEF Settle, Ends
<1>2. cached' \in [Tabs -> Nat]
  BY ClientAssumption DEF Settle, Inv, Numbers
<1> QED BY <1>1, <1>2

LEMMA FinishView == ASSUME Inv, NEW c \in Calls, Finish(c) PROVE View /\ Numbers'
<1> DEFINE v == Verdict(call[c].answer)
<1>1. /\ call[c] \in Shapes /\ call[c].at = "answered" /\ Honest(call[c], performed[c])
      /\ cookie' = IF call[c].sets THEN call[c].sid ELSE cookie
      /\ Settle(TabOf[c], {c}, call[c].answer, v)
      /\ UNCHANGED <<store, made, fetching>>
  BY DEF Finish, Inv
<1>2. {c} # {} /\ {c} \subseteq OpenCalls
  BY <1>1 DEF OpenCalls
<1>3. /\ v \in Verdicts
      /\ v \in {"done", "refused"} => performed[c] = 1
      /\ v \in {"badToken", "turnedAway"} => performed[c] = 0
  BY <1>1 DEF Verdict, Verdicts, Honest, Shapes, Answers
<1>4. Ends({c}, v) /\ cached' \in [Tabs -> Nat]
  <2> HIDE DEF v
  <2> QED BY <1>1, <1>2, <1>3, SettleEnds
<1>5. Numbers'
  BY <1>1, <1>4 DEF Inv, Numbers, Shapes
<1> QED BY <1>4, <1>5 DEF View

LEMMA LoseView == ASSUME Inv, NEW c \in Calls, Lose(c) PROVE View /\ Numbers'
<1> DEFINE tokenLost == call[c].at \in {"fetch", "fetched"}
           C == IF tokenLost THEN Sharers(c) ELSE {c}
<1>1. C # {} /\ C \subseteq OpenCalls
  BY DEF Lose, Sharers, OpenCalls
<1>2. Settle(TabOf[c], C, "none", "unknown") /\ UNCHANGED <<cookie, store, made>>
  BY DEF Lose
<1>3. fetching' \in [Tabs -> Calls \cup {NoCall}]
  BY DEF Lose, Inv, Numbers
<1>4. Ends(C, "unknown") /\ cached' \in [Tabs -> Nat]
  <2> HIDE DEF C
  <2> QED BY <1>1, <1>2, SettleEnds DEF Verdicts
<1>5. Numbers'
  BY <1>2, <1>3, <1>4 DEF Inv, Numbers
<1> QED BY <1>4, <1>5 DEF View

LEMMA FetchedView == ASSUME Inv, NEW c \in Calls, Fetched(c) PROVE View /\ Numbers'
<1>1. /\ call[c] \in Shapes /\ call[c].at = "fetched"
      /\ cookie' \in Nat
      /\ \A d \in Calls : d \in Sharers(c) => call[d] \in Shapes /\ call[d].at \in {"wait", "fetched"}
  BY DEF Fetched, Inv, Numbers, Shapes, Sharers
<1> DEFINE sent(d) == [call[d] EXCEPT !.at = "request", !.token = call[c].token, !.sid = cookie',
                                      !.sets = FALSE, !.on = NoCall]
<1>2. ASSUME NEW d \in Calls, d \in Sharers(c)
      PROVE  sent(d) \in Shapes /\ sent(d).at = "request" /\ performed[d] = 0
  <2>1. performed[d] = 0
    BY <1>1, <1>2 DEF Inv, Honest
  <2> QED BY <1>1, <1>2, <2>1 DEF Shapes, Steps, NoCall
<1>3. call' = [d \in Calls |-> IF d \notin Sharers(c) THEN call[d] ELSE sent(d)]
  BY DEF Fetched
<1> HIDE DEF sent
<1>4. Moves
  <2>1. call' \in [Calls -> Shapes]
    BY <1>2, <1>3 DEF Inv
  <2>2. ASSUME NEW d \in Calls
        PROVE  (call'[d].at = "idle") = (call[d].at = "idle") /\ Honest(call'[d], performed[d])
    BY <1>1, <1>2, <1>3 DEF Inv, Honest
  <2> QED BY <2>1, <2>2 DEF Moves, Fetched
<1>5. Numbers'
  BY <1>1 DEF Fetched, Inv, Numbers, Shapes
<1> QED BY <1>4, <1>5 DEF View

\* The actions that give one call a new record and do nothing for it.
LEMMA MovesView ==
  ASSUME Inv, NEW c \in Calls,
         Retry(c) \/ AnswerFetch(c) \/ RejectToken(c) \/ RejectUser(c) \/ CheckFactor(c)
  PROVE  View /\ Numbers'
<1>0. call[c] \in Shapes /\ Honest(call[c], performed[c]) /\ TabOf[c] \in Tabs /\ Numbers
  BY ClientAssumption DEF Inv
<1>1. CASE Retry(c)
  <2>1. PICK r \in Shapes : r.at = "fetch" /\ call' = [call EXCEPT ![c] = r]
    BY <1>1, RetryRecord
  <2>2. performed[c] = 0 /\ call[c].at = "answered"
    BY <1>0, <1>1 DEF Retry, Retries, Honest
  <2>3. Honest(r, performed[c])
    BY <2>1, <2>2 DEF Honest
  <2>4. Moves
    BY <1>1, <2>1, <2>2, <2>3, MoveOne DEF Retry
  <2>5. Numbers'
    BY <1>0, <1>1 DEF Retry, FetchToken, Numbers
  <2> QED BY <2>4, <2>5 DEF View
<1>2. CASE AnswerFetch(c)
  <2>1. Row(call[c].sid).token \in Nat
    BY <1>0 DEF Row, NoRow, Numbers, Rows
  <2>2. made + 1 \in Nat
    BY <1>0 DEF Numbers
  <2>3. PICK r \in Shapes : r.at = "fetched" /\ call' = [call EXCEPT ![c] = r]
    BY <1>2, FetchRecord
  <2>4. call[c].at = "fetch" /\ performed[c] = 0
    BY <1>0, <1>2 DEF AnswerFetch, Honest
  <2>5. Honest(r, performed[c])
    BY <2>3, <2>4 DEF Honest
  <2>6. Moves
    BY <1>2, <2>3, <2>4, <2>5, MoveOne DEF AnswerFetch
  <2>7. Numbers'
    <3>0. [user |-> FALSE, token |-> made + 1] \in Rows
      BY <2>2 DEF Rows
    <3>1. store' \in [Sids -> Rows] /\ made' \in Nat
      BY <1>0, <1>2, <2>2, <3>0 DEF AnswerFetch, Numbers
    <3> QED BY <1>0, <1>2, <3>1 DEF AnswerFetch, Numbers
  <2> QED BY <2>6, <2>7 DEF View
<1>3. CASE RejectToken(c) \/ RejectUser(c)
  <2>1. PICK answer \in {"badCsrf", "noSession"} : Reply(c, answer)
    BY <1>3 DEF RejectToken, RejectUser
  <2> DEFINE r == [call[c] EXCEPT !.at = "answered", !.answer = answer]
  <2>2. r \in Shapes /\ r.at = "answered" /\ r.answer = answer /\ call' = [call EXCEPT ![c] = r]
    BY <1>0, <2>1 DEF Reply, Shapes, Steps, Answers
  <2>3. call[c].at = "request" /\ performed[c] = 0
    BY <1>0, <1>3 DEF RejectToken, RejectUser, Honest
  <2>4. Honest(r, performed[c])
    BY <2>1, <2>2, <2>3 DEF Honest
  <2> HIDE DEF r
  <2>5. Moves
    BY <1>3, <2>2, <2>3, <2>4, MoveOne DEF RejectToken, RejectUser, ClientWaits
  <2>6. Numbers'
    BY <1>0, <1>3 DEF RejectToken, RejectUser, ClientWaits, Numbers
  <2> QED BY <2>5, <2>6 DEF View
<1>4. CASE CheckFactor(c)
  <2> DEFINE r == [call[c] EXCEPT !.at = "handler"]
  <2>1. r \in Shapes /\ r.at = "handler" /\ call' = [call EXCEPT ![c] = r]
    BY <1>0, <1>4 DEF CheckFactor, Shapes, Steps
  <2>2. call[c].at = "request" /\ performed[c] = 0
    BY <1>0, <1>4 DEF CheckFactor, Honest
  <2>3. Honest(r, performed[c])
    BY <2>1, <2>2 DEF Honest
  <2> HIDE DEF r
  <2>4. Moves
    BY <1>4, <2>1, <2>2, <2>3, MoveOne DEF CheckFactor, ClientWaits
  <2>5. Numbers'
    BY <1>0, <1>4 DEF CheckFactor, ClientWaits, Numbers
  <2> QED BY <2>4, <2>5 DEF View
<1> QED BY <1>1, <1>2, <1>3, <1>4

\* The handlers that do what is asked, each in one step with its answer.
LEMMA DoesView ==
  ASSUME Inv, NEW c \in Calls,
         Serve(c) \/ EndSession(c) \/ RejectFactor(c) \/ EstablishSession(c)
  PROVE  View /\ Numbers'
<1>0. call[c] \in Shapes /\ Numbers
  BY DEF Inv
<1>1. ASSUME NEW answer \in {"ok", "refused", "wrongCode"}, NEW sid \in Nat, NEW sets \in BOOLEAN,
             call' = [call EXCEPT ![c] = [@ EXCEPT !.at = "answered", !.answer = answer,
                                                   !.sid = sid, !.sets = sets]],
             call[c].at \in {"request", "handler"},
             performed' = [performed EXCEPT ![c] = @ + 1], UNCHANGED told
      PROVE  View
  <2> DEFINE r == [call[c] EXCEPT !.at = "answered", !.answer = answer, !.sid = sid, !.sets = sets]
  <2>1. r \in Shapes /\ r.at = "answered" /\ r.answer = answer /\ call' = [call EXCEPT ![c] = r]
    BY <1>0, <1>1 DEF Shapes, Steps, Answers
  <2> HIDE DEF r
  <2> QED BY <1>1, <2>1 DEF Does, View
<1>2. ASSUME NEW answer \in {"ok", "refused", "wrongCode"}, Reply(c, answer)
      PROVE  call' = [call EXCEPT ![c] = [@ EXCEPT !.at = "answered", !.answer = answer,
                                                   !.sid = call[c].sid, !.sets = call[c].sets]]
  <2>1. [call[c] EXCEPT !.at = "answered", !.answer = answer]
        = [call[c] EXCEPT !.at = "answered", !.answer = answer, !.sid = call[c].sid, !.sets = call[c].sets]
    BY <1>0 DEF Shapes
  <2> QED BY <1>2, <2>1 DEF Reply
<1>3. call[c].sid \in Nat /\ call[c].sets \in BOOLEAN /\ call[c].token \in Nat
  BY <1>0 DEF Shapes
<1>4. CASE Serve(c)
  <2>1. PICK answer \in {"ok", "refused", "wrongCode"} : Reply(c, answer)
    BY <1>4 DEF Serve
  <2>2. View
    BY <1>1, <1>2, <1>3, <1>4, <2>1 DEF Serve, ClientWaits
  <2>3. Numbers'
    BY <1>0, <1>4 DEF Serve, ClientWaits, Numbers
  <2> QED BY <2>2, <2>3
<1>5. CASE RejectFactor(c)
  <2>1. View
    BY <1>1, <1>2, <1>3, <1>5 DEF RejectFactor, ClientWaits
  <2>2. Numbers'
    BY <1>0, <1>5 DEF RejectFactor, ClientWaits, Numbers
  <2> QED BY <2>1, <2>2
<1>6. CASE EndSession(c)
  <2>1. View
    BY <1>1, <1>6 DEF EndSession, NoSid
  <2>2. Numbers'
    BY <1>0, <1>6 DEF EndSession, Numbers, NoRow, Rows
  <2> QED BY <2>1, <2>2
<1>7. CASE EstablishSession(c)
  <2>1. made + 1 \in Nat
    BY <1>0 DEF Numbers
  <2>2. View
    BY <1>1, <1>7, <2>1 DEF EstablishSession
  <2>3. Numbers'
    BY <1>0, <1>3, <1>7, <2>1 DEF EstablishSession, Numbers, NoRow, Rows
  <2> QED BY <2>2, <2>3
<1> QED BY <1>4, <1>5, <1>6, <1>7

LEMMA LapseView == ASSUME Inv, NEW s \in Sids, Lapse(s) PROVE View /\ Numbers'
<1>1. Moves
  BY DEF Lapse, Inv, Moves
<1>2. NoRow \in Rows /\ [store[s] EXCEPT !.user = FALSE] \in Rows
  <2>1. store[s] \in Rows
    BY DEF Inv, Numbers
  <2> QED BY <2>1 DEF NoRow, Rows
<1>3. store' \in [Sids -> Rows]
  <2>1. PICK row \in Rows : store' = [store EXCEPT ![s] = row]
    BY <1>2 DEF Lapse
  <2> QED BY <2>1 DEF Inv, Numbers
<1>4. Numbers'
  BY <1>3 DEF Lapse, Inv, Numbers
<1> QED BY <1>1, <1>4 DEF View

LEMMA Step == Inv /\ [Next]_vars => Inv' /\ [Promise!Next]_<<OpenCalls, performed, told>>
<1> SUFFICES ASSUME Inv, [Next]_vars
             PROVE  Inv' /\ [Promise!Next]_<<OpenCalls, performed, told>>
  OBVIOUS
<1>1. CASE UNCHANGED vars
  BY <1>1 DEF vars, Inv, Numbers, OpenCalls
<1>2. CASE Next
  <2>1. ASSUME NEW c \in Calls, Open(c) \/ Use(c) \/ SignOut(c) \/ SignIn(c) PROVE View /\ Numbers'
    <3>1. PICK kind \in Kinds : Prepare(c, kind)
      BY <2>1 DEF Open, Use, SignOut, SignIn, Kinds
    <3> QED BY <3>1, PrepareBegins DEF View
  <2>2. ASSUME NEW c \in Calls, Lose(c) \/ Progress(c) PROVE View /\ Numbers'
    BY <2>2, LoseView, FinishView, FetchedView, MovesView, DoesView DEF Progress
  <2>3. ASSUME NEW s \in Sids, Lapse(s) PROVE View /\ Numbers'
    BY <2>3, LapseView
  <2>4. View /\ Numbers'
    BY <1>2, <2>1, <2>2, <2>3 DEF Next
  <2> QED BY <2>4, ViewKeeps
<1> QED BY <1>1, <1>2

-----------------------------------------------------------------------------

\* request() never does twice what was asked once, says "done" of what was
\* done and "turned away" of what was not, however tokens, cookies, answers
\* and the two tries interleave (client/src/api/client.ts).
THEOREM PromiseIsKept == Spec => PromiseKept
<1>1. Init => Promise!Init
  BY IdleShape DEF Init, Promise!Init, Promise!Silence, Silence
<1>2. Inv /\ [Next]_vars => [Promise!Next]_<<OpenCalls, performed, told>>
  BY Step
<1>3. Inv /\ [Next]_vars => Inv'
  BY Step
<1> QED BY <1>1, <1>2, <1>3, InitInv, PTL DEF Spec, PromiseKept, Promise!Spec, OpenCalls

-----------------------------------------------------------------------------
(* How many sessions are made *)

\* The sessions that may still be made for a call: by its first fetch of the
\* token, by the fetch of its retry, and by its sign-in.
Leaves(r) ==
  {n \in 1 .. 3 : \/ n = 1 /\ r.at = "fetch" /\ ~r.retried
                  \/ n = 2 /\ (r.at = "fetch" \/ ~r.retried)
                  \/ n = 3 /\ ~(r.at = "answered" /\ r.answer = "ok")}

\* Who makes a session crosses out one of the three that its ask, numbered by
\* id, may make; those that a call under way may still make are open.
Ledger(id, crossed) ==
  /\ made <= Cardinality(crossed) + 1
  /\ \A c \in OpenCalls : id[c] \in 1 .. asks
  /\ \A c, d \in OpenCalls : id[c] = id[d] => c = d
  /\ \A c \in OpenCalls : \A n \in Leaves(call[c]) : <<id[c], n>> \notin crossed

Counted ==
  /\ asks \in Nat /\ asks <= MaxAsks
  /\ \E id \in [Calls -> Nat], crossed \in SUBSET ((1 .. asks) \X (1 .. 3)) : Ledger(id, crossed)

LEMMA LinesFinite ==
  ASSUME NEW n \in Nat
  PROVE  IsFiniteSet((1 .. n) \X (1 .. 3)) /\ Cardinality((1 .. n) \X (1 .. 3)) = 3 * n
<1>1. IsFiniteSet(1 .. n) /\ Cardinality(1 .. n) = n
  BY FS_Interval
<1>2. IsFiniteSet(1 .. 3) /\ Cardinality(1 .. 3) = 3
  <2>1. 1 \in Int /\ 3 \in Int /\ ~(1 > 3) /\ 3 - 1 + 1 = 3
    OBVIOUS
  <2> QED BY <2>1, FS_Interval
<1>3. /\ IsFiniteSet((1 .. n) \X (1 .. 3))
      /\ Cardinality((1 .. n) \X (1 .. 3)) = Cardinality(1 .. n) * Cardinality(1 .. 3)
  BY <1>1, <1>2, FS_Product
<1> QED BY <1>1, <1>2, <1>3

LEMMA CountedBounds == ASSUME Inv, Counted PROVE made <= MaxSid
<1>1. PICK id \in [Calls -> Nat], crossed \in SUBSET ((1 .. asks) \X (1 .. 3)) : Ledger(id, crossed)
  BY DEF Counted
<1>2. asks \in Nat /\ asks <= MaxAsks /\ MaxAsks \in Nat /\ made \in Nat
  BY ClientAssumption DEF Counted, Inv, Numbers
<1> DEFINE lines == (1 .. asks) \X (1 .. 3)
<1>3. IsFiniteSet(crossed) /\ Cardinality(crossed) <= 3 * asks
  <2>1. IsFiniteSet(lines) /\ Cardinality(lines) = 3 * asks
    BY <1>2, LinesFinite
  <2> HIDE DEF lines
  <2>2. crossed \in SUBSET lines
    BY DEF lines
  <2> QED BY <2>1, <2>2, FS_Subset
<1>4. Cardinality(crossed) \in Nat
  BY <1>3, FS_CardinalityType
<1>5. made <= Cardinality(crossed) + 1
  BY <1>1 DEF Ledger
<1> QED BY <1>2, <1>3, <1>4, <1>5 DEF MaxSid

\* Calls move on or end, and make nothing.
LEMMA CountRests ==
  ASSUME Inv, Counted, UNCHANGED <<made, asks>>, call' \in [Calls -> Shapes],
         \A c \in Calls : call'[c].at # "idle" =>
            call[c].at # "idle" /\ Leaves(call'[c]) \subseteq Leaves(call[c])
  PROVE  Counted'
<1>1. PICK id \in [Calls -> Nat], crossed \in SUBSET ((1 .. asks) \X (1 .. 3)) : Ledger(id, crossed)
  BY DEF Counted
<1>2. OpenCalls' \subseteq OpenCalls /\ \A c \in OpenCalls' : Leaves(call'[c]) \subseteq Leaves(call[c])
  BY DEF OpenCalls
<1>3. Ledger(id, crossed)'
  BY <1>1, <1>2 DEF Ledger
<1> QED BY <1>1, <1>3 DEF Counted

\* A call is asked for: it gets the next number.
LEMMA CountAsks ==
  ASSUME Inv, Counted, NEW c \in Calls, NEW r \in Shapes, call[c].at = "idle",
         call' = [call EXCEPT ![c] = r], made' = made, asks < MaxAsks, asks' = asks + 1
  PROVE  Counted'
<1>1. PICK id \in [Calls -> Nat], crossed \in SUBSET ((1 .. asks) \X (1 .. 3)) : Ledger(id, crossed)
  BY DEF Counted
<1>2. asks \in Nat /\ MaxAsks \in Nat /\ asks + 1 \in Nat
  BY ClientAssumption DEF Counted
<1>3. PICK ids \in [Calls -> Nat] : ids[c] = asks + 1 /\ \A d \in Calls : d # c => ids[d] = id[d]
  <2>1. [id EXCEPT ![c] = asks + 1] \in [Calls -> Nat]
    BY <1>2
  <2> QED BY <2>1
<1>4. /\ OpenCalls' \subseteq OpenCalls \cup {c} /\ c \notin OpenCalls
      /\ \A d \in OpenCalls' : d # c => d \in OpenCalls /\ call'[d] = call[d]
  BY DEF OpenCalls, Inv
<1>5. \A d \in OpenCalls : id[d] \in 1 .. asks /\ id[d] # asks + 1
  BY <1>1, <1>2 DEF Ledger
<1>6. crossed \subseteq (1 .. asks') \X (1 .. 3) /\ \A n \in 1 .. 3 : <<asks + 1, n>> \notin crossed
  BY <1>1, <1>2
<1>7. Ledger(ids, crossed)'
  <2>1. made' <= Cardinality(crossed) + 1
    BY <1>1 DEF Ledger
  <2>2. \A d \in OpenCalls' : ids[d] \in 1 .. asks'
    BY <1>2, <1>3, <1>4, <1>5 DEF OpenCalls
  <2>3. \A d, e \in OpenCalls' : ids[d] = ids[e] => d = e
    BY <1>1, <1>2, <1>3, <1>4, <1>5 DEF Ledger, OpenCalls
  <2>4. ASSUME NEW d \in OpenCalls', NEW n \in Leaves(call'[d]) PROVE <<ids[d], n>> \notin crossed
    <3>1. n \in 1 .. 3 /\ d \in Calls
      BY <2>4 DEF Leaves, OpenCalls
    <3>2. CASE d = c
      BY <1>3, <1>6, <3>1, <3>2
    <3>3. CASE d # c
      BY <1>1, <1>3, <1>4, <2>4, <3>1, <3>3 DEF Ledger
    <3> QED BY <3>2, <3>3
  <2> QED BY <2>1, <2>2, <2>3, <2>4 DEF Ledger
<1> QED BY <1>2, <1>3, <1>6, <1>7 DEF Counted

\* A session is made for a call that had it open.
LEMMA CountMakes ==
  ASSUME Inv, Counted, NEW c \in Calls, NEW r \in Shapes, call[c].at # "idle",
         call' = [call EXCEPT ![c] = r], made' = made + 1, asks' = asks,
         NEW n \in Leaves(call[c]), n \notin Leaves(r), Leaves(r) \subseteq Leaves(call[c])
  PROVE  Counted'
<1>1. PICK id \in [Calls -> Nat], crossed \in SUBSET ((1 .. asks) \X (1 .. 3)) : Ledger(id, crossed)
  BY DEF Counted
<1> DEFINE more == crossed \cup {<<id[c], n>>}
<1>2. asks \in Nat /\ made \in Nat /\ c \in OpenCalls /\ n \in 1 .. 3
  BY DEF Counted, Inv, Numbers, OpenCalls, Leaves
<1>3. IsFiniteSet(crossed) /\ Cardinality(crossed) \in Nat
  BY <1>2, LinesFinite, FS_Subset, FS_CardinalityType
<1>4. id[c] \in 1 .. asks /\ <<id[c], n>> \notin crossed
  BY <1>1, <1>2 DEF Ledger
<1>5. Cardinality(more) = Cardinality(crossed) + 1
  BY <1>3, <1>4, FS_AddElement
<1>6. more \in SUBSET ((1 .. asks') \X (1 .. 3))
  BY <1>1, <1>2, <1>4
<1>7. /\ OpenCalls' \subseteq OpenCalls
      /\ call'[c] = r /\ \A d \in OpenCalls' : d # c => call'[d] = call[d]
  BY DEF OpenCalls, Inv
<1>8. Ledger(id, more)'
  <2>1. made' <= Cardinality(more) + 1
    BY <1>1, <1>2, <1>3, <1>5 DEF Ledger
  <2>2. ASSUME NEW d \in OpenCalls', NEW m \in Leaves(call'[d]) PROVE <<id[d], m>> \notin more
    <3>1. <<id[d], m>> \notin crossed
      BY <1>1, <1>2, <1>7, <2>2 DEF Ledger
    <3>2. <<id[d], m>> # <<id[c], n>>
      BY <1>1, <1>2, <1>7, <2>2 DEF Ledger
    <3> QED BY <3>1, <3>2
  <2> HIDE DEF more
  <2> QED BY <1>1, <1>7, <2>1, <2>2 DEF Ledger
<1> HIDE DEF more
<1> QED BY <1>1, <1>2, <1>6, <1>8 DEF Counted

LEMMA InitCounted == Init => Counted
<1> SUFFICES ASSUME Init PROVE Counted
  OBVIOUS
<1> DEFINE id == [c \in Calls |-> 0]
<1>1. asks = 0 /\ MaxAsks \in Nat /\ made \in {0, 1} /\ OpenCalls = {}
  BY ClientAssumption, IdleShape DEF Init, OpenCalls
<1>2. Ledger(id, {})
  BY <1>1, FS_EmptySet DEF Ledger
<1>3. id \in [Calls -> Nat] /\ {} \in SUBSET ((1 .. asks) \X (1 .. 3))
  OBVIOUS
<1> QED BY <1>1, <1>2, <1>3 DEF Counted

LEMMA CountedStep == ASSUME Inv, Inv', Counted, Next PROVE Counted'
<1>0. call' \in [Calls -> Shapes]
  BY DEF Inv
<1>1. ASSUME NEW c \in Calls, Open(c) \/ Use(c) \/ SignOut(c) \/ SignIn(c) PROVE Counted'
  <2>1. PICK kind \in Kinds : Prepare(c, kind)
    BY <1>1 DEF Open, Use, SignOut, SignIn, Kinds
  <2>2. PICK r \in Shapes : call' = [call EXCEPT ![c] = r]
    BY <2>1, PrepareRecord
  <2> QED BY <2>1, <2>2, CountAsks DEF Prepare
<1>2. ASSUME NEW c \in Calls, Finish(c) \/ Lose(c) PROVE Counted'
  <2>1. \A d \in Calls : call'[d] = call[d] \/ call'[d].at = "idle"
    BY <1>2, EndedRecords, IdleShape
  <2>2. UNCHANGED <<made, asks>>
    BY <1>2 DEF Finish, Lose
  <2> QED BY <1>0, <2>1, <2>2, CountRests
<1>3. ASSUME NEW c \in Calls, Fetched(c) PROVE Counted'
  <2>1. ASSUME NEW d \in Calls, call'[d].at # "idle"
        PROVE  call[d].at # "idle" /\ Leaves(call'[d]) \subseteq Leaves(call[d])
    BY <1>3, <2>1, FetchedRecords DEF Leaves, Same
  <2>2. UNCHANGED <<made, asks>>
    BY <1>3 DEF Fetched
  <2> QED BY <1>0, <2>1, <2>2, CountRests
<1>4. ASSUME NEW c \in Calls, NEW r \in Shapes, call' = [call EXCEPT ![c] = r], UNCHANGED <<made, asks>>,
             call[c].at # "idle", Leaves(r) \subseteq Leaves(call[c])
      PROVE  Counted'
  <2>1. \A d \in Calls : d # c => call'[d] = call[d]
    BY <1>4
  <2>2. call'[c] = r
    BY <1>4 DEF Inv
  <2> QED BY <1>0, <1>4, <2>1, <2>2, CountRests
<1>5. ASSUME NEW c \in Calls, Retry(c) PROVE Counted'
  <2>1. PICK r \in Shapes : call' = [call EXCEPT ![c] = r] /\ r.at = "fetch" /\ r.retried = TRUE
    BY <1>5, RetryRecord
  <2>2. call[c].at = "answered" /\ call[c].answer = "badCsrf" /\ ~call[c].retried /\ UNCHANGED <<made, asks>>
    BY <1>5 DEF Retry, Retries
  <2>3. Leaves(r) \subseteq Leaves(call[c])
    BY <2>1, <2>2 DEF Leaves
  <2> QED BY <1>4, <2>1, <2>2, <2>3
<1>6. ASSUME NEW c \in Calls, AnswerFetch(c) PROVE Counted'
  <2>1. PICK r \in Shapes : /\ call' = [call EXCEPT ![c] = r] /\ Same(r, call[c]) /\ r.at = "fetched"
                            /\ made' = made \/ made' = made + 1
    BY <1>6, FetchRecord
  <2>2. call[c].at = "fetch" /\ asks' = asks
    BY <1>6 DEF AnswerFetch
  <2>3. Leaves(r) \subseteq Leaves(call[c])
    BY <2>1, <2>2 DEF Leaves, Same
  <2>4. CASE made' = made
    BY <1>4, <2>1, <2>2, <2>3, <2>4
  <2>5. CASE made' = made + 1
    <3>1. PICK n \in Leaves(call[c]) : n \notin Leaves(r)
      <4>1. CASE call[c].retried
        <5>1. 2 \in Leaves(call[c]) /\ 2 \notin Leaves(r)
          BY <2>1, <2>2, <4>1 DEF Leaves, Same
        <5> QED BY <5>1
      <4>2. CASE ~call[c].retried
        <5>1. 1 \in Leaves(call[c]) /\ 1 \notin Leaves(r)
          BY <2>1, <2>2, <4>2 DEF Leaves, Same
        <5> QED BY <5>1
      <4> QED BY <4>1, <4>2
    <3> QED BY <2>1, <2>2, <2>3, <2>5, <3>1, CountMakes
  <2> QED BY <2>1, <2>4, <2>5
<1>7. ASSUME NEW c \in Calls, RejectToken(c) \/ RejectUser(c) \/ Serve(c) \/ RejectFactor(c) PROVE Counted'
  <2>1. PICK answer \in Answers : Reply(c, answer)
    BY <1>7 DEF RejectToken, RejectUser, Serve, RejectFactor, Answers
  <2>2. PICK r \in Shapes : call' = [call EXCEPT ![c] = r] /\ Same(r, call[c]) /\ r.at = "answered"
    BY <2>1, ReplyRecord
  <2>3. call[c].at \in {"request", "handler"} /\ UNCHANGED <<made, asks>>
    BY <1>7 DEF RejectToken, RejectUser, Serve, RejectFactor, ClientWaits
  <2>4. Leaves(r) \subseteq Leaves(call[c])
    BY <2>2, <2>3 DEF Leaves, Same
  <2> QED BY <1>4, <2>2, <2>3, <2>4
<1>8. ASSUME NEW c \in Calls, CheckFactor(c) PROVE Counted'
  <2>1. PICK r \in Shapes : call' = [call EXCEPT ![c] = r] /\ Same(r, call[c]) /\ r.at = "handler"
    BY <1>8, CheckRecord
  <2>2. call[c].at = "request" /\ UNCHANGED <<made, asks>>
    BY <1>8 DEF CheckFactor, ClientWaits
  <2>3. Leaves(r) \subseteq Leaves(call[c])
    BY <2>1, <2>2 DEF Leaves, Same
  <2> QED BY <1>4, <2>1, <2>2, <2>3
<1>9. ASSUME NEW c \in Calls, EndSession(c) PROVE Counted'
  <2>1. PICK r \in Shapes : call' = [call EXCEPT ![c] = r] /\ Same(r, call[c]) /\ r.at = "answered"
    BY <1>9, EndRecord
  <2>2. call[c].at = "request" /\ UNCHANGED <<made, asks>>
    BY <1>9 DEF EndSession
  <2>3. Leaves(r) \subseteq Leaves(call[c])
    BY <2>1, <2>2 DEF Leaves, Same
  <2> QED BY <1>4, <2>1, <2>2, <2>3
<1>10. ASSUME NEW c \in Calls, EstablishSession(c) PROVE Counted'
  <2>1. PICK r \in Shapes : /\ call' = [call EXCEPT ![c] = r] /\ Same(r, call[c])
                            /\ r.at = "answered" /\ r.answer = "ok"
    BY <1>10, EstablishRecord
  <2>2. call[c].at = "handler" /\ made' = made + 1 /\ asks' = asks
    BY <1>10 DEF EstablishSession
  <2>3. Leaves(r) \subseteq Leaves(call[c]) /\ 3 \in Leaves(call[c]) /\ 3 \notin Leaves(r)
    BY <2>1, <2>2 DEF Leaves, Same
  <2> QED BY <2>1, <2>2, <2>3, CountMakes
<1>11. ASSUME NEW s \in Sids, Lapse(s) PROVE Counted'
  <2>1. UNCHANGED <<made, asks, call>>
    BY <1>11 DEF Lapse
  <2> QED BY <1>0, <2>1, CountRests
<1> QED BY <1>1, <1>2, <1>3, <1>5, <1>6, <1>7, <1>8, <1>9, <1>10, <1>11 DEF Next, Progress

-----------------------------------------------------------------------------
(* Every number is of a session that was made *)

Small ==
  /\ cookie <= made
  /\ \A s \in Sids : store[s].token <= made
  /\ \A t \in Tabs : cached[t] <= made
  /\ \A c \in Calls : call[c].sid <= made /\ call[c].token <= made

\* What TypeOK says besides.
Rest ==
  /\ status \in [Tabs -> {"closed", "loading", "authenticated", "anonymous"}]
  /\ told \in [of : SUBSET Calls, verdict : Verdicts \cup {"nothing"}]
  /\ steady \in [Calls -> BOOLEAN]
  /\ faults \in Nat /\ ends \in Nat

TypeInv == Inv /\ Counted /\ Small /\ Rest

LEMMA RowFacts ==
  ASSUME Inv, NEW sid \in Nat
  PROVE  /\ Row(sid) \in Rows /\ SignedIn(sid) \in BOOLEAN
         /\ sid \in Sids => Row(sid) = store[sid]
         /\ sid \notin Sids => Row(sid) = NoRow
         /\ Small => Row(sid).token <= made
<1>1. Row(sid) \in Rows
  BY DEF Inv, Numbers, Row, Rows, NoRow
<1>2. Small => Row(sid).token <= made
  BY DEF Inv, Numbers, Small, Row, NoRow
<1> QED BY <1>1, <1>2 DEF Row, SignedIn, Rows

\* One call gets a record of small numbers.
LEMMA SmallCall ==
  ASSUME Inv, Small, NEW c \in Calls, NEW r \in Shapes, call' = [call EXCEPT ![c] = r],
         made <= made', made' \in Nat, r.sid <= made', r.token <= made'
  PROVE  \A d \in Calls : call'[d].sid <= made' /\ call'[d].token <= made'
<1>1. ASSUME NEW d \in Calls, d # c PROVE call'[d].sid <= made' /\ call'[d].token <= made'
  <2>1. call'[d] = call[d] /\ call[d] \in Shapes
    BY <1>1 DEF Inv
  <2>2. call[d].sid \in Nat /\ call[d].token \in Nat /\ call[d].sid <= made /\ call[d].token <= made /\ made \in Nat
    BY <2>1 DEF Shapes, Small, Inv, Numbers
  <2> QED BY <2>1, <2>2
<1>2. call'[c] = r
  BY DEF Inv
<1> QED BY <1>1, <1>2

\* The numbers that are remembered stay small when more is made.
LEMMA SmallRest ==
  ASSUME Inv, Small, UNCHANGED <<cookie, cached>>, made' \in Nat, made <= made'
  PROVE  cookie' <= made' /\ \A t \in Tabs : cached'[t] <= made'
<1>1. cookie \in Nat /\ made \in Nat /\ cookie <= made
  BY DEF Inv, Numbers, Small
<1>2. \A t \in Tabs : cached[t] \in Nat /\ cached[t] <= made
  BY DEF Inv, Numbers, Small
<1> QED BY <1>1, <1>2

\* So do the rows, of which some may go and one may come.
LEMMA SmallRows ==
  ASSUME Inv, Small, made' \in Nat, made <= made',
         \A s \in Sids : store'[s].token = store[s].token \/ store'[s].token <= made'
  PROVE  \A s \in Sids : store'[s].token <= made'
<1>1. \A s \in Sids : store[s].token \in Nat /\ store[s].token <= made
  BY DEF Inv, Numbers, Rows, Small
<1> QED BY <1>1 DEF Inv, Numbers

LEMMA SmallStep == ASSUME Inv, Small, Next PROVE Small'
<1>0. /\ made \in Nat /\ cookie \in Nat /\ cookie <= made
      /\ \A t \in Tabs : cached[t] \in Nat /\ cached[t] <= made
      /\ \A c \in Calls : call[c].sid \in Nat /\ call[c].token \in Nat
      /\ \A c \in Calls : call[c].sid <= made /\ call[c].token <= made
      /\ TabOf \in [Calls -> Tabs]
      /\ store \in [Sids -> Rows] /\ \A s \in Sids : store[s].token <= made
  BY ClientAssumption DEF Inv, Numbers, Shapes, Small
<1>1. ASSUME NEW c \in Calls, Open(c) \/ Use(c) \/ SignOut(c) \/ SignIn(c) PROVE Small'
  <2>1. PICK kind \in Kinds : Prepare(c, kind)
    BY <1>1 DEF Open, Use, SignOut, SignIn, Kinds
  <2>2. PICK r \in Shapes : call' = [call EXCEPT ![c] = r] /\ r.sid = cookie /\ r.token \in {0, cached[TabOf[c]]}
    BY <2>1, PrepareRecord
  <2>3. UNCHANGED <<cookie, store, made, cached>>
    BY <2>1 DEF Prepare
  <2>4. r.sid <= made /\ r.token <= made
    BY <1>0, <2>2
  <2>5. \A d \in Calls : call'[d].sid <= made' /\ call'[d].token <= made'
    BY <1>0, <2>2, <2>3, <2>4, SmallCall
  <2> QED BY <1>0, <2>3, <2>5 DEF Small
<1>2. ASSUME NEW c \in Calls, Finish(c) \/ Lose(c) PROVE Small'
  <2>1. \A d \in Calls : call'[d] = call[d] \/ call'[d] = Idle
    BY <1>2, EndedRecords
  <2>2. UNCHANGED <<store, made>> /\ cookie' \in {cookie, call[c].sid}
    BY <1>2 DEF Finish, Lose
  <2>3. \A t \in Tabs : cached'[t] \in {0, cached[t]}
    BY <1>2 DEF Finish, Lose, Settle, Inv, Numbers
  <2>4. Idle.sid = 0 /\ Idle.token = 0
    BY DEF Idle, NoSid
  <2> QED BY <1>0, <2>1, <2>2, <2>3, <2>4 DEF Small
<1>3. ASSUME NEW c \in Calls, Fetched(c) PROVE Small'
  <2>1. UNCHANGED <<store, made>> /\ cookie' \in {cookie, call[c].sid}
    BY <1>3 DEF Fetched
  <2>2. cached' = [cached EXCEPT ![TabOf[c]] = call[c].token]
    BY <1>3 DEF Fetched
  <2>3. \A t \in Tabs : cached'[t] \in {cached[t], call[c].token}
    BY <2>2 DEF Inv, Numbers
  <2>4. ASSUME NEW d \in Calls
        PROVE  call'[d] = call[d] \/ (call'[d].sid = cookie' /\ call'[d].token = call[c].token)
    BY <1>3, FetchedRecords
  <2>5. cookie' <= made' /\ call[c].token <= made'
    BY <1>0, <2>1
  <2> QED BY <1>0, <2>1, <2>3, <2>4, <2>5 DEF Small
<1>4. ASSUME NEW c \in Calls, NEW r \in Shapes, call' = [call EXCEPT ![c] = r], UNCHANGED <<cookie, cached, made>>,
             r.sid <= made, r.token <= made,
             \A s \in Sids : store'[s].token = store[s].token \/ store'[s].token <= made
      PROVE  Small'
  <2>1. \A d \in Calls : call'[d].sid <= made' /\ call'[d].token <= made'
    BY <1>0, <1>4, SmallCall
  <2>2. \A s \in Sids : store'[s].token <= made'
    BY <1>0, <1>4
  <2>3. cookie' <= made' /\ \A t \in Tabs : cached'[t] <= made'
    BY <1>0, <1>4
  <2> QED BY <2>1, <2>2, <2>3 DEF Small
<1>5. ASSUME NEW c \in Calls, Retry(c) PROVE Small'
  <2>1. PICK r \in Shapes : call' = [call EXCEPT ![c] = r] /\ r.sid = cookie /\ r.token = 0
    BY <1>5, RetryRecord
  <2>2. UNCHANGED <<cookie, cached, made, store>>
    BY <1>5 DEF Retry
  <2>3. r.sid <= made /\ r.token <= made
    BY <1>0, <2>1
  <2>4. \A s \in Sids : store'[s].token = store[s].token \/ store'[s].token <= made
    BY <2>2
  <2> QED BY <1>4, <2>1, <2>2, <2>3, <2>4
<1>6. ASSUME NEW c \in Calls, AnswerFetch(c) PROVE Small'
  <2>1. PICK r \in Shapes :
          /\ call' = [call EXCEPT ![c] = r]
          /\ \/ r.token = Row(r.sid).token /\ r.sid = call[c].sid /\ UNCHANGED <<store, made>>
             \/ /\ r.token = made + 1 /\ r.sid = made + 1 /\ made' = made + 1
                /\ store' = [store EXCEPT ![made + 1] = [user |-> FALSE, token |-> made + 1]]
    BY <1>6, FetchRecord
  <2>2. UNCHANGED <<cookie, cached>>
    BY <1>6 DEF AnswerFetch
  <2>3. CASE r.token = Row(r.sid).token /\ r.sid = call[c].sid /\ UNCHANGED <<store, made>>
    <3>1. r.sid <= made /\ r.token <= made
      BY <1>0, <2>3, RowFacts
    <3> QED BY <1>0, <1>4, <2>1, <2>2, <2>3, <3>1
  <2>4. CASE /\ r.token = made + 1 /\ r.sid = made + 1 /\ made' = made + 1
             /\ store' = [store EXCEPT ![made + 1] = [user |-> FALSE, token |-> made + 1]]
    <3>1. made' \in Nat /\ made <= made' /\ r.sid <= made' /\ r.token <= made'
      BY <1>0, <2>4
    <3>2. \A s \in Sids : store'[s] = store[s] \/ store'[s].token = made + 1
      BY <1>0, <2>4
    <3>3. \A s \in Sids : store'[s].token = store[s].token \/ store'[s].token <= made'
      BY <1>0, <2>4, <3>2
    <3> QED BY <2>1, <2>2, <3>1, <3>3, SmallCall, SmallRest, SmallRows DEF Small
  <2> QED BY <2>1, <2>3, <2>4
<1>7. ASSUME NEW c \in Calls, RejectToken(c) \/ RejectUser(c) \/ Serve(c) \/ RejectFactor(c) PROVE Small'
  <2>1. PICK answer \in Answers : Reply(c, answer)
    BY <1>7 DEF RejectToken, RejectUser, Serve, RejectFactor, Answers
  <2>2. PICK r \in Shapes : call' = [call EXCEPT ![c] = r] /\ r.sid = call[c].sid /\ r.token = call[c].token
    BY <2>1, ReplyRecord
  <2>3. UNCHANGED <<cookie, cached, made, store>>
    BY <1>7 DEF RejectToken, RejectUser, Serve, RejectFactor, ClientWaits
  <2> QED BY <1>0, <1>4, <2>2, <2>3
<1>8. ASSUME NEW c \in Calls, CheckFactor(c) PROVE Small'
  <2>1. PICK r \in Shapes : call' = [call EXCEPT ![c] = r] /\ r.sid = call[c].sid /\ r.token = call[c].token
    BY <1>8, CheckRecord
  <2>2. UNCHANGED <<cookie, cached, made, store>>
    BY <1>8 DEF CheckFactor, ClientWaits
  <2> QED BY <1>0, <1>4, <2>1, <2>2
<1>9. ASSUME NEW c \in Calls, EndSession(c) PROVE Small'
  <2>1. PICK r \in Shapes : call' = [call EXCEPT ![c] = r] /\ r.sid = NoSid /\ r.token = call[c].token
    BY <1>9, EndRecord
  <2>2. UNCHANGED <<cookie, cached, made>> /\ store' = [store EXCEPT ![call[c].sid] = NoRow]
    BY <1>9 DEF EndSession
  <2>3. \A s \in Sids : store'[s] = store[s] \/ store'[s].token = 0
    BY <1>0, <2>2 DEF NoRow
  <2>4. r.sid <= made /\ r.token <= made /\ 0 <= made
    BY <1>0, <2>1 DEF NoSid
  <2>5. \A s \in Sids : store'[s].token = store[s].token \/ store'[s].token <= made
    BY <2>3, <2>4
  <2> QED BY <1>4, <2>1, <2>2, <2>4, <2>5
<1>10. ASSUME NEW c \in Calls, EstablishSession(c) PROVE Small'
  <2>1. PICK r \in Shapes : call' = [call EXCEPT ![c] = r] /\ r.sid = made + 1 /\ r.token = call[c].token
    BY <1>10, EstablishRecord
  <2>2. /\ UNCHANGED <<cookie, cached>> /\ made' = made + 1
        /\ store' = [store EXCEPT ![call[c].sid] = NoRow,
                                  ![made + 1] = [user |-> TRUE, token |-> call[c].token]]
    BY <1>10 DEF EstablishSession
  <2>3. \A s \in Sids : store'[s] = store[s] \/ store'[s].token \in {0, call[c].token}
    BY <1>0, <2>2 DEF NoRow
  <2>4. made' \in Nat /\ made <= made' /\ r.sid <= made' /\ r.token <= made' /\ 0 <= made' /\ call[c].token <= made'
    BY <1>0, <2>1, <2>2
  <2>5. \A s \in Sids : store'[s].token = store[s].token \/ store'[s].token <= made'
    BY <2>3, <2>4
  <2> QED BY <2>1, <2>2, <2>4, <2>5, SmallCall, SmallRest, SmallRows DEF Small
<1>11. ASSUME NEW s \in Sids, Lapse(s) PROVE Small'
  <2>1. UNCHANGED <<cookie, cached, made, call>>
    BY <1>11 DEF Lapse
  <2>2. PICK row \in {NoRow, [store[s] EXCEPT !.user = FALSE]} : store' = [store EXCEPT ![s] = row]
    BY <1>11 DEF Lapse
  <2>3. row.token \in {0, store[s].token}
    BY <1>0 DEF NoRow, Rows
  <2>4. \A x \in Sids : store'[x].token \in {0, store[x].token}
    BY <1>0, <2>2, <2>3
  <2> QED BY <1>0, <2>1, <2>4 DEF Small
<1> QED BY <1>1, <1>2, <1>3, <1>5, <1>6, <1>7, <1>8, <1>9, <1>10, <1>11 DEF Next, Progress

LEMMA RestStep == ASSUME Inv, Rest, Next PROVE Rest'
<1>1. steady' \in [Calls -> BOOLEAN]
  BY DEF Next, Watch, Watched, Rest
<1>2. UNCHANGED <<told, status, faults, ends>> => Rest'
  BY <1>1 DEF Rest
<1> DEFINE Of(s) == s \in [Tabs -> {"closed", "loading", "authenticated", "anonymous"}]
           Says(t) == t \in [of : SUBSET Calls, verdict : Verdicts \cup {"nothing"}]
<1>3. Says(Silence)
  BY DEF Silence
<1>4. \A t \in Tabs : \A kinds, answer : Shown(t, kinds, answer) \in {"closed", "loading", "authenticated", "anonymous"}
  BY DEF Rest, Shown
<1>5. ASSUME NEW c \in Calls, NEW C \in SUBSET Calls, NEW answer, NEW v \in Verdicts,
             Settle(TabOf[c], C, answer, v)
      PROVE  Of(status') /\ Says(told')
  <2>1. Of(status')
    BY <1>4, <1>5 DEF Settle, Rest
  <2>2. Says(told')
    BY <1>5 DEF Settle
  <2> QED BY <2>1, <2>2
<1> HIDE DEF Of, Says
<1>6. Of(status') /\ Says(told') /\ faults' \in Nat /\ ends' \in Nat => Rest'
  BY <1>1 DEF Rest, Of, Says
<1>7. Of(status) /\ Says(told) /\ faults \in Nat /\ ends \in Nat /\ faults + 1 \in Nat /\ ends + 1 \in Nat
  BY DEF Rest, Of, Says
<1>8. ASSUME NEW c \in Calls, Open(c) \/ Use(c) \/ SignOut(c) \/ SignIn(c) PROVE Rest'
  <2>1. told' = Silence /\ UNCHANGED <<faults, ends>>
    BY <1>8 DEF Open, Use, SignOut, SignIn, Prepare
  <2>2. Of(status')
    BY <1>8 DEF Open, Use, SignOut, SignIn, Rest, Of
  <2> QED BY <1>3, <1>6, <1>7, <2>1, <2>2
<1>9. ASSUME NEW c \in Calls, Finish(c) PROVE Rest'
  <2>1. Verdict(call[c].answer) \in Verdicts
    BY DEF Verdict, Verdicts
  <2>2. Settle(TabOf[c], {c}, call[c].answer, Verdict(call[c].answer)) /\ UNCHANGED <<faults, ends>>
    BY <1>9 DEF Finish
  <2>3. Of(status') /\ Says(told')
    BY <1>5, <2>1, <2>2
  <2> QED BY <1>6, <1>7, <2>2, <2>3
<1>10. ASSUME NEW c \in Calls, Lose(c) PROVE Rest'
  <2>1. PICK C \in SUBSET Calls : Settle(TabOf[c], C, "none", "unknown")
    BY <1>10 DEF Lose, Sharers
  <2>2. faults' = faults + 1 /\ UNCHANGED ends
    BY <1>10 DEF Lose
  <2>3. "unknown" \in Verdicts
    BY DEF Verdicts
  <2>4. Of(status') /\ Says(told')
    BY <1>5, <2>1, <2>3
  <2> QED BY <1>6, <1>7, <2>2, <2>4
<1>11. ASSUME NEW c \in Calls,
              Fetched(c) \/ Retry(c) \/ AnswerFetch(c) \/ RejectToken(c) \/ RejectUser(c)
                \/ Serve(c) \/ CheckFactor(c) \/ RejectFactor(c)
       PROVE  Rest'
  <2>1. UNCHANGED <<told, status, faults, ends>>
    BY <1>11 DEF Fetched, Retry, AnswerFetch, RejectToken, RejectUser, Serve, CheckFactor, RejectFactor, ClientWaits
  <2> QED BY <1>2, <2>1
<1>12. ASSUME NEW c \in Calls, EndSession(c) \/ EstablishSession(c) PROVE Rest'
  <2>1. UNCHANGED <<told, status, faults>> /\ ends' \in {ends, ends + 1}
    BY <1>12 DEF EndSession, EstablishSession
  <2> QED BY <1>6, <1>7, <2>1
<1>13. ASSUME NEW s \in Sids, Lapse(s) PROVE Rest'
  <2>1. UNCHANGED <<told, status>> /\ faults' = faults + 1 /\ ends' = ends + 1
    BY <1>13 DEF Lapse
  <2> QED BY <1>6, <1>7, <2>1
<1> QED BY <1>8, <1>9, <1>10, <1>11, <1>12, <1>13 DEF Next, Progress

LEMMA InitTypes == Init => Small /\ Rest
<1> SUFFICES ASSUME Init PROVE Small /\ Rest
  OBVIOUS
<1>1. Small
  <2>1. made \in {0, 1} /\ cookie = made
    BY DEF Init
  <2>2. \A s \in Sids : s \in Nat /\ (s <= made => s \in {0, 1} /\ s <= made)
    BY <2>1 DEF Sids
  <2>4. ASSUME NEW s \in Sids PROVE store[s].token <= made
    <3>1. CASE s <= made
      <4>1. store[s] = [user |-> TRUE, token |-> s]
        BY <3>1 DEF Init
      <4> QED BY <3>1, <4>1
    <3>2. CASE ~(s <= made)
      <4>1. store[s] = NoRow /\ NoRow.token = 0
        BY <3>2 DEF Init, NoRow
      <4> QED BY <2>1, <4>1
    <3> QED BY <3>1, <3>2
  <2>5. \A t \in Tabs : cached[t] \in {0, made}
    BY DEF Init
  <2>6. \A c \in Calls : call[c].sid = 0 /\ call[c].token = 0
    BY DEF Init, Idle, NoSid
  <2> QED BY <2>1, <2>4, <2>5, <2>6 DEF Small
<1>2. Rest
  BY DEF Init, Rest, Silence
<1> QED BY <1>1, <1>2

LEMMA InitTypeInv == Init => TypeInv
BY InitInv, InitCounted, InitTypes DEF TypeInv

LEMMA TypeStep == TypeInv /\ [Next]_vars => TypeInv'
<1> SUFFICES ASSUME TypeInv, [Next]_vars PROVE TypeInv'
  OBVIOUS
<1>1. Inv /\ Inv'
  BY Step DEF TypeInv
<1>2. CASE Next
  BY <1>1, <1>2, CountedStep, SmallStep, RestStep DEF TypeInv
<1>3. CASE UNCHANGED vars
  <2>1. Counted'
    <3>1. UNCHANGED <<made, asks, call>> /\ \A c \in Calls : Leaves(call'[c]) = Leaves(call[c])
      BY <1>3 DEF vars
    <3>2. call' \in [Calls -> Shapes]
      BY <1>1 DEF Inv
    <3>3. \A c \in Calls : call'[c].at # "idle" =>
                call[c].at # "idle" /\ Leaves(call'[c]) \subseteq Leaves(call[c])
      BY <3>1
    <3>4. UNCHANGED <<made, asks>> /\ Counted
      BY <3>1 DEF TypeInv
    <3> QED BY <1>1, <3>2, <3>3, <3>4, CountRests
  <2>2. Small' /\ Rest'
    BY <1>3 DEF vars, TypeInv, Small, Rest
  <2> QED BY <1>1, <2>1, <2>2 DEF TypeInv
<1> QED BY <1>2, <1>3

LEMMA MadeBound == TypeInv' => (made <= MaxSid)'
<1>1. TypeInv => made <= MaxSid
  BY CountedBounds DEF TypeInv
<1> QED BY <1>1, PTL

LEMMA TypeInvIsTypeOK == TypeInv => TypeOK
<1> SUFFICES ASSUME TypeInv PROVE TypeOK
  OBVIOUS
<1>1. made \in Nat /\ made <= MaxSid /\ MaxSid \in Nat
  BY ClientAssumption, CountedBounds DEF TypeInv, Inv, Numbers, MaxSid
<1>2. cookie \in 0 .. MaxSid
  BY <1>1 DEF TypeInv, Inv, Numbers, Small
<1>3. store \in [Sids -> [user : BOOLEAN, token : 0 .. MaxSid]]
  <2>1. ASSUME NEW s \in Sids PROVE store[s] \in [user : BOOLEAN, token : 0 .. MaxSid]
    <3>1. store[s] \in Rows /\ store[s].token <= made
      BY DEF TypeInv, Inv, Numbers, Small
    <3> QED BY <1>1, <3>1 DEF Rows
  <2> QED BY <2>1 DEF TypeInv, Inv, Numbers
<1>4. cached \in [Tabs -> 0 .. MaxSid]
  <2>1. ASSUME NEW t \in Tabs PROVE cached[t] \in 0 .. MaxSid
    <3>1. cached[t] \in Nat /\ cached[t] <= made
      BY DEF TypeInv, Inv, Numbers, Small
    <3> QED BY <1>1, <3>1
  <2> QED BY <2>1 DEF TypeInv, Inv, Numbers
<1>5. call \in [Calls -> CallRecords]
  <2>1. ASSUME NEW c \in Calls PROVE call[c] \in CallRecords
    <3>1. call[c] \in Shapes /\ call[c].sid <= made /\ call[c].token <= made
      BY DEF TypeInv, Inv, Small
    <3>2. call[c].sid \in 0 .. MaxSid /\ call[c].token \in 0 .. MaxSid
      BY <1>1, <3>1 DEF Shapes
    <3> QED BY <3>1, <3>2 DEF Shapes, CallRecords
  <2> QED BY <2>1 DEF TypeInv, Inv
<1> QED BY <1>1, <1>2, <1>3, <1>4, <1>5 DEF TypeOK, TypeInv, Inv, Numbers, Counted, Rest

\* Every variable keeps its type, and no more than MaxSid sessions are made:
\* a call makes one for its token, one for the token of its retry and one by
\* signing in, and never more (server/http/session.ts).
THEOREM TypeCorrect == Spec => []TypeOK
BY InitTypeInv, TypeStep, TypeInvIsTypeOK, PTL DEF Spec

-----------------------------------------------------------------------------
(* The token that a steady call has fetched is the one of its row *)

Carried(r) ==
  /\ r.sets => r.at = "fetched" \/ (r.at = "answered" /\ r.answer = "ok")
  /\ r.at = "wait" => ~r.retried
  /\ r.at = "answered" /\ r.answer = "badCsrf" => r.kind \in Unsafe

Matched(r) == Row(r.sid).token # 0 /\ Row(r.sid).token = r.token

Held(c) ==
  steady[c] =>
    /\ call[c].at = "fetch" => call[c].sid = cookie
    /\ call[c].at = "fetched" => Matched(call[c]) /\ (call[c].sets \/ call[c].sid = cookie)
    /\ call[c].at = "request" /\ call[c].retried => Matched(call[c])
    /\ call[c].at = "answered" /\ call[c].answer = "badCsrf" => ~call[c].retried

SteadyInv == \A c \in Calls : Carried(call[c]) /\ Held(c)

\* A call that nothing happens to: either it is not steady any more, or its
\* row and the cookie stay.
LEMMA HeldStays ==
  ASSUME Inv, Watch, NEW d \in Calls, Carried(call[d]), Held(d), call'[d] = call[d]
  PROVE  Carried(call[d])' /\ Held(d)'
<1>1. Carried(call[d])'
  BY DEF Carried
<1>2. CASE call[d].at = "idle" \/ ~steady'[d]
  BY <1>1, <1>2 DEF Held
<1>3. CASE call[d].at # "idle" /\ steady'[d]
  <2>1. steady[d] /\ cookie' = cookie /\ \A s \in Sids : store[s] # NoRow => store'[s] = store[s]
    BY <1>3 DEF Watch, Watched
  <2>2. ASSUME Matched(call[d]) PROVE Matched(call[d])'
    <3>1. call[d].sid \in Sids /\ store[call[d].sid].token # 0 /\ store[call[d].sid].token = call[d].token
      BY <2>2 DEF Matched, Row, NoRow
    <3>2. store'[call[d].sid] = store[call[d].sid]
      BY <2>1, <3>1 DEF NoRow
    <3> QED BY <3>1, <3>2 DEF Matched, Row
  <2> QED BY <1>1, <2>1, <2>2 DEF Held
<1> QED BY <1>2, <1>3

LEMMA HeldIdle == ASSUME NEW d \in Calls, call'[d] = Idle PROVE Carried(call[d])' /\ Held(d)'
BY DEF Idle, Carried, Held

\* One call gets a record that holds; the others are as they were.
LEMMA HeldOne ==
  ASSUME Inv, Watch, SteadyInv, NEW c \in Calls, NEW r \in Shapes, call' = [call EXCEPT ![c] = r],
         Carried(call[c])' /\ Held(c)'
  PROVE  SteadyInv'
<1>1. ASSUME NEW d \in Calls, d # c PROVE Carried(call[d])' /\ Held(d)'
  <2>1. call'[d] = call[d]
    BY <1>1
  <2> QED BY <2>1, HeldStays DEF SteadyInv
<1> QED BY <1>1 DEF SteadyInv

LEMMA SteadyStep == ASSUME TypeInv, TypeInv', SteadyInv, Next PROVE SteadyInv'
<1>0. Inv /\ Watch
  BY DEF TypeInv, Next
<1>1. ASSUME NEW c \in Calls, Open(c) \/ Use(c) \/ SignOut(c) \/ SignIn(c) PROVE SteadyInv'
  <2>1. PICK kind \in Kinds : Prepare(c, kind)
    BY <1>1 DEF Open, Use, SignOut, SignIn, Kinds
  <2>2. PICK r \in Shapes :
          /\ call' = [call EXCEPT ![c] = r]
          /\ r.sid = cookie /\ r.sets = FALSE /\ r.retried = FALSE /\ r.at \in {"request", "wait", "fetch"}
    BY <1>0, <2>1, PrepareRecord
  <2>3. call'[c] = r /\ cookie' = cookie
    BY <1>0, <2>1, <2>2 DEF Inv, Prepare
  <2>4. Carried(call[c])' /\ Held(c)'
    BY <2>2, <2>3 DEF Carried, Held
  <2> QED BY <1>0, <2>2, <2>4, HeldOne
<1>2. ASSUME NEW c \in Calls, Finish(c) \/ Lose(c) PROVE SteadyInv'
  <2>1. ASSUME NEW d \in Calls PROVE Carried(call[d])' /\ Held(d)'
    <3>1. call'[d] = call[d] \/ call'[d] = Idle
      BY <1>0, <1>2, EndedRecords
    <3>2. Carried(call[d]) /\ Held(d)
      BY DEF SteadyInv
    <3> QED BY <1>0, <3>1, <3>2, HeldStays, HeldIdle
  <2> QED BY <2>1 DEF SteadyInv
<1>3. ASSUME NEW c \in Calls, Fetched(c) PROVE SteadyInv'
  <2>0. /\ call[c].at = "fetched" /\ store' = store
        /\ cookie' = IF call[c].sets THEN call[c].sid ELSE cookie
        /\ Carried(call[c]) /\ Held(c)
    BY <1>3 DEF Fetched, SteadyInv
  <2>1. ASSUME NEW d \in Calls PROVE Carried(call[d])' /\ Held(d)'
    <3>0. Carried(call[d]) /\ Held(d)
      BY DEF SteadyInv
    <3>1. CASE d \notin Sharers(c)
      <4>1. call'[d] = call[d]
        BY <1>0, <1>3, <3>1, FetchedRecords
      <4> QED BY <1>0, <3>0, <4>1, HeldStays
    <3>2. CASE d \in Sharers(c)
      <4>1. /\ call[d].at \in {"wait", "fetched"} /\ (call[d].at = "fetched" => d = c)
            /\ call'[d].at = "request" /\ call'[d].token = call[c].token /\ call'[d].sid = cookie'
            /\ call'[d].sets = FALSE /\ call'[d].retried = call[d].retried
        BY <1>0, <1>3, <3>2, FetchedRecords DEF Same
      <4>2. Carried(call[d])'
        BY <4>1 DEF Carried
      <4>3. CASE call[d].at = "wait" \/ ~steady'[d]
        BY <3>0, <4>1, <4>2, <4>3 DEF Carried, Held
      <4>4. CASE call[d].at = "fetched" /\ steady'[d]
        <5>1. d = c /\ steady[c]
          BY <1>0, <4>1, <4>4 DEF Watch, Watched
        <5>2. Matched(call[c]) /\ (call[c].sets \/ call[c].sid = cookie)
          BY <2>0, <5>1 DEF Held
        <5>3. call'[c].sid = call[c].sid /\ call'[c].token = call[c].token
          BY <2>0, <4>1, <5>1, <5>2
        <5>4. Matched(call[c])'
          BY <2>0, <5>2, <5>3 DEF Matched, Row
        <5> QED BY <4>1, <4>2, <5>1, <5>4 DEF Held
      <4> QED BY <4>1, <4>3, <4>4
    <3> QED BY <3>1, <3>2
  <2> QED BY <2>1 DEF SteadyInv
<1>4. ASSUME NEW c \in Calls, Retry(c) PROVE SteadyInv'
  <2>1. PICK r \in Shapes : /\ call' = [call EXCEPT ![c] = r] /\ r.at = "fetch" /\ r.sid = cookie
                            /\ r.sets = call[c].sets
    BY <1>0, <1>4, RetryRecord
  <2>2. call'[c] = r /\ cookie' = cookie /\ call[c].at = "answered" /\ call[c].answer = "badCsrf"
    BY <1>0, <1>4, <2>1 DEF Inv, Retry, Retries
  <2>3. Carried(call[c])
    BY DEF SteadyInv
  <2>4. Carried(call[c])' /\ Held(c)'
    BY <2>1, <2>2, <2>3 DEF Carried, Held
  <2> QED BY <1>0, <2>1, <2>4, HeldOne
<1>5. ASSUME NEW c \in Calls, AnswerFetch(c) PROVE SteadyInv'
  <2>1. PICK r \in Shapes :
          /\ call' = [call EXCEPT ![c] = r] /\ r.at = "fetched"
          /\ \/ /\ r.token = Row(r.sid).token /\ r.token # 0
                /\ r.sid = call[c].sid /\ r.sets = call[c].sets /\ UNCHANGED store
             \/ /\ r.token = made + 1 /\ r.sid = made + 1 /\ r.sets = TRUE /\ made' = made + 1
                /\ store' = [store EXCEPT ![made + 1] = [user |-> FALSE, token |-> made + 1]]
    BY <1>0, <1>5, FetchRecord
  <2>2. call'[c] = r /\ cookie' = cookie /\ call[c].at = "fetch"
    BY <1>0, <1>5, <2>1 DEF Inv, AnswerFetch
  <2>3. Carried(call[c]) /\ Held(c)
    BY DEF SteadyInv
  <2>4. CASE /\ r.token = Row(r.sid).token /\ r.token # 0
             /\ r.sid = call[c].sid /\ r.sets = call[c].sets /\ UNCHANGED store
    <3>1. steady'[c] => call[c].sid = cookie
      BY <1>0, <2>1, <2>2, <2>3 DEF Watch, Watched, Held
    <3>2. Matched(call[c])'
      BY <2>2, <2>4 DEF Matched, Row
    <3>3. Carried(call[c])'
      BY <2>1, <2>2, <2>3, <2>4 DEF Carried
    <3>4. steady'[c] => call'[c].sid = cookie'
      BY <2>2, <2>4, <3>1
    <3>5. call'[c].at = "fetched"
      BY <2>1, <2>2
    <3>6. Held(c)'
      BY <3>2, <3>4, <3>5 DEF Held
    <3> QED BY <1>0, <2>1, <3>3, <3>6, HeldOne
  <2>5. CASE /\ r.token = made + 1 /\ r.sid = made + 1 /\ r.sets = TRUE /\ made' = made + 1
             /\ store' = [store EXCEPT ![made + 1] = [user |-> FALSE, token |-> made + 1]]
    <3>1. made \in Nat /\ made + 1 <= MaxSid /\ store \in [Sids -> Rows]
      BY <2>5, MadeBound DEF TypeInv, Inv, Numbers
    <3>2. made + 1 \in Sids /\ made + 1 # 0
      BY <3>1, ClientAssumption DEF Sids, MaxSid
    <3>3. store'[made + 1].token = made + 1
      BY <2>5, <3>1, <3>2
    <3>4. Matched(call[c])'
      BY <2>2, <2>5, <3>2, <3>3 DEF Matched, Row
    <3>5. Carried(call[c])'
      BY <2>1, <2>2, <2>5 DEF Carried
    <3>6. call'[c].at = "fetched" /\ call'[c].sets
      BY <2>1, <2>2, <2>5
    <3>7. Held(c)'
      BY <3>4, <3>6 DEF Held
    <3> QED BY <1>0, <2>1, <3>5, <3>7, HeldOne
  <2> QED BY <2>1, <2>4, <2>5
<1>6. ASSUME NEW c \in Calls, RejectToken(c) PROVE SteadyInv'
  <2>1. Reply(c, "badCsrf") /\ call[c].at = "request" /\ ~TokenMatches(c) /\ "badCsrf" \in Answers
    BY <1>6 DEF RejectToken, Answers
  <2>2. PICK r \in Shapes : /\ call' = [call EXCEPT ![c] = r] /\ Same(r, call[c]) /\ r.at = "answered"
                            /\ r.answer = "badCsrf" /\ r.sets = call[c].sets
    BY <1>0, <2>1, ReplyRecord
  <2>3. call'[c] = r
    BY <1>0, <2>2 DEF Inv
  <2>4. Carried(call[c]) /\ Held(c)
    BY DEF SteadyInv
  <2>5. call[c].kind \in Unsafe /\ ~Matched(call[c])
    BY <2>1 DEF TokenMatches, Matched
  <2>6. Carried(call[c])'
    BY <2>1, <2>2, <2>3, <2>4, <2>5 DEF Carried, Same
  <2>7. steady'[c] => steady[c]
    BY <1>0, <2>1, <2>2, <2>3 DEF Watch, Watched
  <2>8. Held(c)'
    BY <2>1, <2>2, <2>3, <2>4, <2>5, <2>7 DEF Held, Same
  <2> QED BY <1>0, <2>2, <2>6, <2>8, HeldOne
<1>7. ASSUME NEW c \in Calls, RejectUser(c) \/ Serve(c) \/ RejectFactor(c) PROVE SteadyInv'
  <2>1. PICK answer \in Answers \ {"badCsrf"} : Reply(c, answer)
    BY <1>7 DEF RejectUser, Serve, RejectFactor, Answers
  <2>2. call[c].at \in {"request", "handler"} /\ Carried(call[c])
    BY <1>7 DEF RejectUser, Serve, RejectFactor, SteadyInv
  <2>3. PICK r \in Shapes : /\ call' = [call EXCEPT ![c] = r] /\ r.at = "answered"
                            /\ r.answer = answer /\ r.sets = call[c].sets
    BY <1>0, <2>1, ReplyRecord
  <2>4. call'[c] = r
    BY <1>0, <2>3 DEF Inv
  <2>5. Carried(call[c])' /\ Held(c)'
    BY <2>1, <2>2, <2>3, <2>4 DEF Carried, Held
  <2> QED BY <1>0, <2>3, <2>5, HeldOne
<1>8. ASSUME NEW c \in Calls, CheckFactor(c) PROVE SteadyInv'
  <2>1. PICK r \in Shapes : call' = [call EXCEPT ![c] = r] /\ r.at = "handler" /\ r.sets = call[c].sets
    BY <1>0, <1>8, CheckRecord
  <2>2. call[c].at = "request" /\ Carried(call[c]) /\ call'[c] = r
    BY <1>0, <1>8, <2>1 DEF CheckFactor, SteadyInv, Inv
  <2>3. Carried(call[c])' /\ Held(c)'
    BY <2>1, <2>2 DEF Carried, Held
  <2> QED BY <1>0, <2>1, <2>3, HeldOne
<1>9. ASSUME NEW c \in Calls, EndSession(c) \/ EstablishSession(c) PROVE SteadyInv'
  <2>1. PICK r \in Shapes : call' = [call EXCEPT ![c] = r] /\ r.at = "answered" /\ r.answer = "ok"
    BY <1>0, <1>9, EndRecord, EstablishRecord
  <2>2. call'[c] = r
    BY <1>0, <2>1 DEF Inv
  <2>3. Carried(call[c])' /\ Held(c)'
    BY <2>1, <2>2 DEF Carried, Held
  <2> QED BY <1>0, <2>1, <2>3, HeldOne
<1>10. ASSUME NEW s \in Sids, Lapse(s) PROVE SteadyInv'
  <2>1. ASSUME NEW d \in Calls PROVE Carried(call[d])' /\ Held(d)'
    <3>1. call'[d] = call[d] /\ Carried(call[d]) /\ Held(d)
      BY <1>10 DEF Lapse, SteadyInv
    <3> QED BY <1>0, <3>1, HeldStays
  <2> QED BY <2>1 DEF SteadyInv
<1> QED BY <1>1, <1>2, <1>3, <1>4, <1>5, <1>6, <1>7, <1>8, <1>9, <1>10 DEF Next, Progress

\* Nobody is told to refresh the page for the sake of a token unless the
\* session moved under the call: the token of the retry is the one of the row
\* (request in client/src/api/client.ts, csrfProtection in server/http/session.ts).
THEOREM RetrySuffices == Spec => []RetryIsEnough
<1>1. Init => SteadyInv
  <2>1. Carried(Idle)
    BY DEF Carried, Idle
  <2> QED BY <2>1, IdleShape DEF Init, SteadyInv, Held
<1>2. TypeInv /\ TypeInv' /\ SteadyInv /\ [Next]_vars => SteadyInv'
  <2>1. SteadyInv /\ UNCHANGED vars => SteadyInv'
    BY DEF vars, SteadyInv, Held, Matched, Row
  <2> QED BY <2>1, SteadyStep
<1>3. SteadyInv => RetryIsEnough
  BY DEF SteadyInv, Carried, Held, RetryIsEnough, Retries
<1> QED BY <1>1, <1>2, <1>3, InitTypeInv, TypeStep, PTL DEF Spec

-----------------------------------------------------------------------------
(* A lone tab and its session *)

\* SignedIn, of the rows st.
UserIn(st, sid) == IF sid \in Sids THEN st[sid].user ELSE FALSE

Alone == \A t, u \in Tabs : status[t] # "closed" /\ status[u] # "closed" => t = u

\* Who is signed in has a token, who is checked has shown one, and a tab that
\* was never opened has asked for nothing.
Rooted ==
  /\ \A s \in Sids : store[s].user => store[s].token # 0
  /\ \A c \in Calls : call[c].at = "handler" => call[c].token # 0
  /\ \A c \in Calls : status[TabOf[c]] = "closed" => call[c].at = "idle"

\* The cookie names a live session, and so does every call.
InSession ==
  /\ UserIn(store, cookie)
  /\ \A c \in OpenCalls : call[c].sid = cookie /\ ~call[c].sets

\* A call from outside, that brings a session back or none.
Pending(st, r) ==
  IF r.at = "answered" /\ r.answer = "ok" THEN r.sets /\ UserIn(st, r.sid)
  ELSE ~UserIn(st, r.sid) /\ (r.sets => r.at = "fetched")

\* No session: the question who is there, or one sign-in.
Outside ==
  /\ ~UserIn(store, cookie)
  /\ \A t \in Tabs : status[t] # "authenticated"
  /\ \A c, d \in OpenCalls : c = d
  /\ \A c \in OpenCalls : /\ call[c].kind \in {"me", "login"}
                          /\ status[TabOf[c]] = "anonymous" => call[c].kind = "login"
                          /\ Pending(store, call[c])

LiveInv == Rooted /\ (ends = 0 /\ Alone => InSession \/ Outside)

LEMMA SignedIsUser == \A sid : SignedIn(sid) = UserIn(store, sid)
BY DEF SignedIn, Row, NoRow, UserIn

\* A tab that is open stays open.
LEMMA StaysOpen ==
  ASSUME TypeInv, Next, NEW t \in Tabs, status[t] # "closed" PROVE status'[t] # "closed"
<1>0. status \in [Tabs -> {"closed", "loading", "authenticated", "anonymous"}]
  BY DEF TypeInv, Rest
<1>1. ASSUME NEW c \in Calls, Open(c) \/ Use(c) \/ SignOut(c) \/ SignIn(c) PROVE status'[t] # "closed"
  BY <1>0, <1>1 DEF Open, Use, SignOut, SignIn
<1>2. ASSUME NEW u, NEW C, NEW answer, NEW v, Settle(u, C, answer, v) PROVE status'[t] # "closed"
  <2>1. CASE u # t
    BY <1>0, <1>2, <2>1 DEF Settle
  <2>2. CASE u = t
    BY <1>0, <1>2, <2>2 DEF Settle, Shown
  <2> QED BY <2>1, <2>2
<1>3. ASSUME NEW c \in Calls, Finish(c) \/ Lose(c) PROVE status'[t] # "closed"
  BY <1>2, <1>3 DEF Finish, Lose
<1>4. ASSUME NEW c \in Calls,
             Fetched(c) \/ Retry(c) \/ AnswerFetch(c) \/ RejectToken(c) \/ RejectUser(c) \/ Serve(c)
               \/ CheckFactor(c) \/ RejectFactor(c) \/ EndSession(c) \/ EstablishSession(c)
      PROVE  status'[t] # "closed"
  BY <1>4 DEF Fetched, Retry, AnswerFetch, RejectToken, RejectUser, Serve, CheckFactor, RejectFactor,
              EndSession, EstablishSession, ClientWaits
<1>5. ASSUME NEW s \in Sids, Lapse(s) PROVE status'[t] # "closed"
  BY <1>5 DEF Lapse
<1> QED BY <1>1, <1>3, <1>4, <1>5 DEF Next, Progress

\* While no session ends, the sessions that there are stay as they are.
LEMMA SignedStays ==
  ASSUME TypeInv, Next, ends' = ends, NEW sid \in Nat, sid <= made
  PROVE  UserIn(store', sid) = UserIn(store, sid)
<1>0. ends \in Nat /\ made \in Nat /\ store \in [Sids -> Rows] /\ ends # ends + 1
  BY DEF TypeInv, Rest, Inv, Numbers
<1>1. store' = store => UserIn(store', sid) = UserIn(store, sid)
  OBVIOUS
<1>2. ASSUME NEW c \in Calls, Open(c) \/ Use(c) \/ SignOut(c) \/ SignIn(c) PROVE store' = store
  BY <1>2 DEF Open, Use, SignOut, SignIn, Prepare
<1>3. ASSUME NEW c \in Calls,
             Finish(c) \/ Lose(c) \/ Fetched(c) \/ Retry(c) \/ RejectToken(c) \/ RejectUser(c)
               \/ Serve(c) \/ CheckFactor(c) \/ RejectFactor(c)
      PROVE  store' = store
  BY <1>3 DEF Finish, Lose, Fetched, Retry, RejectToken, RejectUser, Serve, CheckFactor, RejectFactor
<1>4. ASSUME NEW c \in Calls, AnswerFetch(c) PROVE UserIn(store', sid) = UserIn(store, sid)
  <2>1. \/ store' = store
        \/ store' = [store EXCEPT ![made + 1] = [user |-> FALSE, token |-> made + 1]]
    BY <1>4 DEF AnswerFetch
  <2>2. sid # made + 1
    BY <1>0
  <2> QED BY <1>0, <2>1, <2>2 DEF UserIn
<1>5. ASSUME NEW c \in Calls, EstablishSession(c) PROVE UserIn(store', sid) = UserIn(store, sid)
  <2>1. ~UserIn(store, call[c].sid)
    BY <1>0, <1>5, SignedIsUser DEF EstablishSession
  <2>2. store' = [store EXCEPT ![call[c].sid] = NoRow,
                               ![made + 1] = [user |-> TRUE, token |-> call[c].token]]
    BY <1>5 DEF EstablishSession
  <2>3. sid # made + 1
    BY <1>0
  <2>4. CASE sid \in Sids
    <3>1. store'[sid] = IF sid = call[c].sid THEN NoRow ELSE store[sid]
      BY <1>0, <2>2, <2>3, <2>4
    <3>2. store[sid].user \in BOOLEAN /\ NoRow.user = FALSE
      BY <1>0, <2>4 DEF Rows, NoRow
    <3> QED BY <2>1, <2>4, <3>1, <3>2 DEF UserIn
  <2>5. CASE sid \notin Sids
    BY <2>5 DEF UserIn
  <2> QED BY <2>4, <2>5
<1>6. ASSUME NEW c \in Calls, EndSession(c) PROVE FALSE
  BY <1>0, <1>6 DEF EndSession
<1>7. ASSUME NEW s \in Sids, Lapse(s) PROVE FALSE
  BY <1>0, <1>7 DEF Lapse
<1> QED BY <1>1, <1>2, <1>3, <1>4, <1>5, <1>6, <1>7 DEF Next, Progress

\* Sessions end one by one.
LEMMA EndsGrow == ASSUME TypeInv, Next PROVE ends' \in {ends, ends + 1}
BY DEF Next, Progress, Open, Use, SignOut, SignIn, Prepare, Finish, Lose, Fetched, Retry, AnswerFetch,
       RejectToken, RejectUser, Serve, CheckFactor, RejectFactor, EndSession, EstablishSession,
       ClientWaits, Lapse

LEMMA RootedStep == ASSUME TypeInv, Rooted, Next PROVE Rooted'
<1>0. Inv /\ store \in [Sids -> Rows] /\ made \in Nat /\ TabOf \in [Calls -> Tabs]
  BY ClientAssumption DEF TypeInv, Inv, Numbers
<1>1. \A s \in Sids : store'[s].user => store'[s].token # 0
  <2>0. NoRow.user = FALSE
    BY DEF NoRow
  <2>1. ASSUME NEW c \in Calls, Open(c) \/ Use(c) \/ SignOut(c) \/ SignIn(c) PROVE store' = store
    BY <2>1 DEF Open, Use, SignOut, SignIn, Prepare
  <2>2. ASSUME NEW c \in Calls,
               Finish(c) \/ Lose(c) \/ Fetched(c) \/ Retry(c) \/ RejectToken(c) \/ RejectUser(c)
                 \/ Serve(c) \/ CheckFactor(c) \/ RejectFactor(c)
        PROVE  store' = store
    BY <2>2 DEF Finish, Lose, Fetched, Retry, RejectToken, RejectUser, Serve, CheckFactor, RejectFactor
  <2>3. ASSUME NEW c \in Calls, AnswerFetch(c), NEW s \in Sids
        PROVE  store'[s] = store[s] \/ store'[s].user = FALSE
    BY <1>0, <2>3 DEF AnswerFetch
  <2>4. ASSUME NEW c \in Calls, EndSession(c), NEW s \in Sids
        PROVE  store'[s] = store[s] \/ store'[s].user = FALSE
    BY <1>0, <2>0, <2>4 DEF EndSession
  <2>5. ASSUME NEW c \in Calls, EstablishSession(c), NEW s \in Sids
        PROVE  store'[s] = store[s] \/ store'[s].user = FALSE \/ store'[s].token # 0
    <3>1. call[c].token # 0
      BY <2>5 DEF EstablishSession, Rooted
    <3> QED BY <1>0, <2>0, <2>5, <3>1 DEF EstablishSession
  <2>6. ASSUME NEW x \in Sids, Lapse(x), NEW s \in Sids
        PROVE  store'[s] = store[s] \/ store'[s].user = FALSE
    <3>1. PICK row \in {NoRow, [store[x] EXCEPT !.user = FALSE]} : store' = [store EXCEPT ![x] = row]
      BY <2>6 DEF Lapse
    <3>2. row.user = FALSE
      BY <1>0, <2>0 DEF Rows
    <3> QED BY <1>0, <3>1, <3>2
  <2>7. ASSUME NEW s \in Sids
        PROVE  store'[s] = store[s] \/ store'[s].user = FALSE \/ store'[s].token # 0
    BY <2>1, <2>2, <2>3, <2>4, <2>5, <2>6 DEF Next, Progress
  <2> QED BY <2>7 DEF Rooted
<1>2. ASSUME NEW d \in Calls
      PROVE  call'[d] = call[d] \/ call'[d].at # "handler" \/ call'[d].token # 0
  <2>1. ASSUME NEW c \in Calls, Open(c) \/ Use(c) \/ SignOut(c) \/ SignIn(c)
        PROVE  call'[d] = call[d] \/ call'[d].at # "handler"
    <3>1. PICK kind \in Kinds : Prepare(c, kind)
      BY <2>1 DEF Open, Use, SignOut, SignIn, Kinds
    <3>2. PICK r \in Shapes : call' = [call EXCEPT ![c] = r] /\ r.at # "handler"
      BY <1>0, <3>1, PrepareRecord
    <3> QED BY <1>0, <3>2 DEF Inv
  <2>2. ASSUME NEW c \in Calls, Finish(c) \/ Lose(c) PROVE call'[d] = call[d] \/ call'[d].at # "handler"
    BY <1>0, <2>2, EndedRecords, IdleShape
  <2>3. ASSUME NEW c \in Calls, Fetched(c) PROVE call'[d] = call[d] \/ call'[d].at # "handler"
    BY <1>0, <2>3, FetchedRecords
  <2>4. ASSUME NEW c \in Calls, NEW r \in Shapes, call' = [call EXCEPT ![c] = r],
               r.at # "handler" \/ r.token # 0
        PROVE  call'[d] = call[d] \/ call'[d].at # "handler" \/ call'[d].token # 0
    BY <1>0, <2>4 DEF Inv
  <2>5. ASSUME NEW c \in Calls, Retry(c) \/ AnswerFetch(c) \/ EndSession(c) \/ EstablishSession(c)
        PROVE  \E r \in Shapes : call' = [call EXCEPT ![c] = r] /\ r.at # "handler"
    <3>1. CASE Retry(c)
      BY <1>0, <3>1, RetryRecord
    <3>2. CASE AnswerFetch(c)
      BY <1>0, <3>2, FetchRecord
    <3>3. CASE EndSession(c)
      BY <1>0, <3>3, EndRecord
    <3>4. CASE EstablishSession(c)
      BY <1>0, <3>4, EstablishRecord
    <3> QED BY <2>5, <3>1, <3>2, <3>3, <3>4
  <2>6. ASSUME NEW c \in Calls, RejectToken(c) \/ RejectUser(c) \/ Serve(c) \/ RejectFactor(c)
        PROVE  \E r \in Shapes : call' = [call EXCEPT ![c] = r] /\ r.at # "handler"
    <3>1. PICK answer \in Answers : Reply(c, answer)
      BY <2>6 DEF RejectToken, RejectUser, Serve, RejectFactor, Answers
    <3> QED BY <1>0, <3>1, ReplyRecord
  <2>7. ASSUME NEW c \in Calls, CheckFactor(c)
        PROVE  \E r \in Shapes : call' = [call EXCEPT ![c] = r] /\ r.token # 0
    <3>1. call[c].token # 0
      BY <2>7 DEF CheckFactor, TokenMatches, Unsafe
    <3> QED BY <1>0, <2>7, <3>1, CheckRecord
  <2>8. ASSUME NEW s \in Sids, Lapse(s) PROVE call'[d] = call[d]
    BY <2>8 DEF Lapse
  <2> QED BY <2>1, <2>2, <2>3, <2>4, <2>5, <2>6, <2>7, <2>8 DEF Next, Progress
<1>3. ASSUME NEW d \in Calls, status'[TabOf[d]] = "closed" PROVE call'[d].at = "idle"
  <2>1. TabOf[d] \in Tabs /\ status[TabOf[d]] = "closed" /\ call[d].at = "idle"
    BY <1>0, <1>3, StaysOpen DEF Rooted
  <2>2. ASSUME NEW c \in Calls, Open(c) \/ Use(c) \/ SignOut(c) \/ SignIn(c) PROVE call'[d] = call[d]
    <3>1. PICK kind \in Kinds : Prepare(c, kind)
      BY <2>2 DEF Open, Use, SignOut, SignIn, Kinds
    <3>2. PICK r \in Shapes : call' = [call EXCEPT ![c] = r]
      BY <1>0, <3>1, PrepareBegins DEF Begins
    <3>3. status'[TabOf[c]] # "closed"
      BY <1>0, <2>2 DEF Open, Use, SignOut, SignIn, TypeInv, Rest
    <3> QED BY <1>0, <1>3, <3>2, <3>3 DEF Inv
  <2>3. ASSUME NEW c \in Calls, Finish(c) \/ Lose(c) PROVE call'[d].at = "idle"
    BY <1>0, <2>1, <2>3, EndedRecords, IdleShape
  <2>4. ASSUME NEW c \in Calls, Fetched(c) PROVE call'[d] = call[d]
    BY <1>0, <2>1, <2>4, FetchedRecords
  <2>5. ASSUME NEW c \in Calls,
               Retry(c) \/ AnswerFetch(c) \/ RejectToken(c) \/ RejectUser(c) \/ Serve(c)
                 \/ CheckFactor(c) \/ RejectFactor(c) \/ EndSession(c) \/ EstablishSession(c)
        PROVE  call'[d] = call[d]
    <3>1. call[c].at # "idle"
      BY <2>5 DEF Retry, AnswerFetch, RejectToken, RejectUser, Serve, CheckFactor, RejectFactor,
                  EndSession, EstablishSession
    <3>2. c # d
      BY <2>1, <3>1
    <3>3. CASE Retry(c)
      BY <1>0, <3>2, <3>3 DEF Inv, Retry
    <3>4. CASE AnswerFetch(c)
      BY <1>0, <3>2, <3>4 DEF Inv, AnswerFetch
    <3>5. CASE RejectToken(c) \/ RejectUser(c) \/ Serve(c) \/ RejectFactor(c)
      BY <1>0, <3>2, <3>5 DEF Inv, RejectToken, RejectUser, Serve, RejectFactor, Reply
    <3>6. CASE CheckFactor(c)
      BY <1>0, <3>2, <3>6 DEF Inv, CheckFactor
    <3>7. CASE EndSession(c) \/ EstablishSession(c)
      BY <1>0, <3>2, <3>7 DEF Inv, EndSession, EstablishSession
    <3> QED BY <2>5, <3>3, <3>4, <3>5, <3>6, <3>7
  <2>6. ASSUME NEW s \in Sids, Lapse(s) PROVE call'[d] = call[d]
    BY <2>6 DEF Lapse
  <2> QED BY <2>1, <2>2, <2>3, <2>4, <2>5, <2>6 DEF Next, Progress
<1>4. \A c \in Calls : call'[c].at = "handler" => call'[c].token # 0
  BY <1>2 DEF Rooted
<1> QED BY <1>1, <1>3, <1>4 DEF Rooted

\* In the session: the cookie stays, and so do the calls with it.
LEMMA InSessionStep == ASSUME TypeInv, Rooted, Next, ends' = ends, InSession PROVE InSession'
<1>0. /\ Inv /\ cookie \in Nat /\ cookie <= made /\ UserIn(store, cookie)
      /\ \A c \in Calls : call[c].at # "idle" => call[c].sid = cookie /\ ~call[c].sets
      /\ ends # ends + 1
  BY DEF TypeInv, Inv, Numbers, Small, Rest, InSession, OpenCalls
<1>1. UserIn(store', cookie)
  BY <1>0, SignedStays
<1>2. SUFFICES /\ cookie' = cookie
               /\ \A d \in Calls : call'[d].at # "idle" => call'[d].sid = cookie /\ ~call'[d].sets
  BY <1>1 DEF InSession, OpenCalls
<1>3. ASSUME NEW c \in Calls, NEW r \in Shapes, call' = [call EXCEPT ![c] = r], cookie' = cookie,
             r.sid = cookie, ~r.sets
      PROVE  /\ cookie' = cookie
             /\ \A d \in Calls : call'[d].at # "idle" => call'[d].sid = cookie /\ ~call'[d].sets
  <2>1. call'[c] = r /\ \A d \in Calls : d # c => call'[d] = call[d]
    BY <1>0, <1>3 DEF Inv
  <2> QED BY <1>0, <1>3, <2>1
<1>4. ASSUME NEW c \in Calls, Open(c) \/ Use(c) \/ SignOut(c) \/ SignIn(c)
      PROVE  /\ cookie' = cookie
             /\ \A d \in Calls : call'[d].at # "idle" => call'[d].sid = cookie /\ ~call'[d].sets
  <2>1. PICK kind \in Kinds : Prepare(c, kind)
    BY <1>4 DEF Open, Use, SignOut, SignIn, Kinds
  <2>2. PICK r \in Shapes :
           /\ call' = [call EXCEPT ![c] = r]
           /\ r.kind = kind /\ r.sid = cookie /\ r.sets = FALSE /\ r.answer = "none"
           /\ r.retried = FALSE /\ r.at \in {"request", "wait", "fetch"}
           /\ r.token \in {0, cached[TabOf[c]]}
    BY <1>0, <2>1, PrepareRecord
  <2>3. cookie' = cookie
    BY <2>1 DEF Prepare
  <2> QED BY <1>3, <2>2, <2>3
<1>5. ASSUME NEW c \in Calls, Finish(c) \/ Lose(c)
      PROVE  /\ cookie' = cookie
             /\ \A d \in Calls : call'[d].at # "idle" => call'[d].sid = cookie /\ ~call'[d].sets
  <2>1. \A d \in Calls : call'[d] = call[d] \/ call'[d].at = "idle"
    BY <1>0, <1>5, EndedRecords, IdleShape
  <2>2. cookie' = cookie
    BY <1>0, <1>5 DEF Finish, Lose
  <2> QED BY <1>0, <2>1, <2>2
<1>6. ASSUME NEW c \in Calls, Fetched(c)
      PROVE  /\ cookie' = cookie
             /\ \A d \in Calls : call'[d].at # "idle" => call'[d].sid = cookie /\ ~call'[d].sets
  <2>1. cookie' = cookie
    BY <1>0, <1>6 DEF Fetched
  <2>2. \A d \in Calls : call'[d] = call[d] \/ (call'[d].sid = cookie' /\ call'[d].sets = FALSE)
    BY <1>0, <1>6, FetchedRecords
  <2> QED BY <1>0, <2>1, <2>2
<1>7. ASSUME NEW c \in Calls,
             Retry(c) \/ AnswerFetch(c) \/ RejectToken(c) \/ RejectUser(c) \/ Serve(c)
               \/ CheckFactor(c) \/ RejectFactor(c)
      PROVE  /\ cookie' = cookie
             /\ \A d \in Calls : call'[d].at # "idle" => call'[d].sid = cookie /\ ~call'[d].sets
  <2>1. call[c].sid = cookie /\ ~call[c].sets /\ cookie' = cookie
    BY <1>0, <1>7 DEF Retry, AnswerFetch, RejectToken, RejectUser, Serve, CheckFactor, RejectFactor, ClientWaits
  <2>2. PICK r \in Shapes : call' = [call EXCEPT ![c] = r] /\ r.sid = cookie /\ ~r.sets
    <3>1. CASE Retry(c)
      <4>1. PICK r \in Shapes : call' = [call EXCEPT ![c] = r] /\ r.sid = cookie /\ r.sets = call[c].sets
        BY <1>0, <3>1, RetryRecord
      <4> QED BY <2>1, <4>1
    <3>2. CASE AnswerFetch(c)
      <4>1. Row(call[c].sid).token # 0
        BY <1>0, <2>1 DEF UserIn, Row, Rooted
      <4>2. PICK r \in Shapes : call' = [call EXCEPT ![c] = r] /\ r.sid = call[c].sid /\ r.sets = call[c].sets
        BY <1>0, <3>2, <4>1, FetchRecord
      <4> QED BY <2>1, <4>2
    <3>3. CASE RejectToken(c) \/ RejectUser(c) \/ Serve(c) \/ RejectFactor(c)
      <4>1. PICK answer \in Answers : Reply(c, answer)
        BY <3>3 DEF RejectToken, RejectUser, Serve, RejectFactor, Answers
      <4>2. PICK r \in Shapes : call' = [call EXCEPT ![c] = r] /\ r.sid = call[c].sid /\ r.sets = call[c].sets
        BY <1>0, <4>1, ReplyRecord
      <4> QED BY <2>1, <4>2
    <3>4. CASE CheckFactor(c)
      <4>1. PICK r \in Shapes : call' = [call EXCEPT ![c] = r] /\ r.sid = call[c].sid /\ r.sets = call[c].sets
        BY <1>0, <3>4, CheckRecord
      <4> QED BY <2>1, <4>1
    <3> QED BY <1>7, <3>1, <3>2, <3>3, <3>4
  <2> QED BY <1>3, <2>1, <2>2
<1>8. ASSUME NEW c \in Calls, EndSession(c) \/ EstablishSession(c) PROVE FALSE
  <2>1. SignedIn(call[c].sid)
    BY <1>0, <1>8, SignedIsUser DEF EndSession, EstablishSession
  <2> QED BY <1>0, <1>8, <2>1 DEF EndSession, EstablishSession
<1>9. ASSUME NEW s \in Sids, Lapse(s) PROVE FALSE
  BY <1>0, <1>9 DEF Lapse
<1> QED BY <1>4, <1>5, <1>6, <1>7, <1>8, <1>9 DEF Next, Progress

\* Outside, the one call gets a record that is pending still.
LEMMA OutsideOne ==
  ASSUME TypeInv, Outside, ~UserIn(store', cookie), NEW c \in Calls, call[c].at # "idle",
         NEW r \in Shapes, call' = [call EXCEPT ![c] = r], UNCHANGED <<cookie, status>>,
         Same(r, call[c]), Pending(store', r)
  PROVE  Outside'
<1>1. call'[c] = r /\ \A d \in Calls : d # c => call'[d] = call[d]
  BY DEF TypeInv, Inv
<1>2. \A d \in OpenCalls' : d = c
  BY <1>1 DEF Outside, OpenCalls
<1>3. call[c].kind \in {"me", "login"} /\ (status[TabOf[c]] = "anonymous" => call[c].kind = "login")
  BY DEF Outside, OpenCalls
<1>4. call'[c].kind \in {"me", "login"} /\ (status'[TabOf[c]] = "anonymous" => call'[c].kind = "login")
  BY <1>1, <1>3 DEF Same
<1>5. Pending(store, call[c])'
  BY <1>1 DEF Pending
<1>6. \A d \in OpenCalls' : /\ call'[d].kind \in {"me", "login"}
                            /\ status'[TabOf[d]] = "anonymous" => call'[d].kind = "login"
                            /\ Pending(store', call'[d])
  BY <1>2, <1>4, <1>5
<1>7. \A d, e \in OpenCalls' : d = e
  BY <1>2
<1> QED BY <1>6, <1>7 DEF Outside

\* Outside, there was no call, and the user makes one.
LEMMA OutsideAsks ==
  ASSUME TypeInv, Outside, ~UserIn(store', cookie), OpenCalls = {}, NEW c \in Calls,
         NEW kind \in {"me", "login"}, Prepare(c, kind), \A t \in Tabs : status'[t] # "authenticated",
         status'[TabOf[c]] = "anonymous" => kind = "login"
  PROVE  Outside'
<1>0. Inv
  BY DEF TypeInv
<1>1. kind \in Kinds
  BY DEF Kinds
<1>2. PICK r \in Shapes :
        /\ call' = [call EXCEPT ![c] = r]
        /\ r.kind = kind /\ r.sid = cookie /\ r.sets = FALSE /\ r.answer = "none"
        /\ r.retried = FALSE /\ r.at \in {"request", "wait", "fetch"}
        /\ r.token \in {0, cached[TabOf[c]]}
  BY <1>0, <1>1, PrepareRecord
<1>3. call'[c] = r /\ (\A d \in Calls : d # c => call'[d] = call[d]) /\ cookie' = cookie
  BY <1>0, <1>2 DEF Inv, Prepare
<1>4. \A d \in OpenCalls' : d = c
  BY <1>3 DEF OpenCalls
<1>5. Pending(store', call'[c])
  BY <1>2, <1>3 DEF Pending
<1> QED BY <1>2, <1>3, <1>4, <1>5 DEF Outside

LEMMA OutsideStep ==
  ASSUME TypeInv, TypeInv', Rooted, Next, ends' = ends, Alone, Alone', Outside
  PROVE  InSession' \/ Outside'
<1>0. /\ Inv /\ cookie \in Nat /\ cookie <= made /\ ~UserIn(store, cookie)
      /\ ends # ends + 1 /\ TabOf \in [Calls -> Tabs] /\ call \in [Calls -> Shapes]
  BY ClientAssumption DEF TypeInv, Inv, Numbers, Small, Rest, Outside
<1>1. ~UserIn(store', cookie)
  BY <1>0, SignedStays
<1>2. ASSUME NEW c \in Calls, call[c].at # "idle"
      PROVE  /\ call[c].sid \in Nat /\ call[c].sid <= made /\ call[c].kind \in {"me", "login"}
             /\ UserIn(store', call[c].sid) = UserIn(store, call[c].sid)
             /\ Pending(store, call[c])
             /\ \A d \in Calls : call[d].at # "idle" => d = c
  <2>1. call[c].sid \in Nat /\ call[c].sid <= made
    BY <1>0 DEF TypeInv, Small, Shapes
  <2> QED BY <1>2, <2>1, SignedStays DEF Outside, OpenCalls
<1>3. ASSUME NEW c \in Calls, Open(c) PROVE Outside'
  <2>1. /\ status[TabOf[c]] = "closed" /\ status' = [status EXCEPT ![TabOf[c]] = "loading"]
        /\ Prepare(c, "me") /\ status \in [Tabs -> {"closed", "loading", "authenticated", "anonymous"}]
    BY <1>3 DEF Open, TypeInv, Rest
  <2>2. ASSUME NEW d \in Calls PROVE call[d].at = "idle"
    <3>1. status'[TabOf[c]] = "loading"
      BY <1>0, <2>1
    <3>2. TabOf[d] # TabOf[c] => status'[TabOf[d]] = "closed"
      BY <1>0, <3>1 DEF Alone
    <3>3. status[TabOf[d]] = "closed"
      BY <1>0, <2>1, <3>2
    <3> QED BY <3>3 DEF Rooted
  <2>3. OpenCalls = {}
    BY <2>2 DEF OpenCalls
  <2>4. (\A t \in Tabs : status'[t] # "authenticated") /\ status'[TabOf[c]] # "anonymous"
    BY <1>0, <2>1 DEF Outside
  <2> QED BY <1>1, <2>1, <2>3, <2>4, OutsideAsks
<1>4. ASSUME NEW c \in Calls, Use(c) \/ SignOut(c) PROVE FALSE
  BY <1>0, <1>4 DEF Use, SignOut, Outside
<1>5. ASSUME NEW c \in Calls, SignIn(c) PROVE Outside'
  <2>1. status[TabOf[c]] = "anonymous" /\ ~Busy(TabOf[c], "login") /\ Prepare(c, "login") /\ status' = status
    BY <1>0, <1>5 DEF SignIn, Outside
  <2>2. ASSUME NEW d \in Calls, call[d].at # "idle" PROVE FALSE
    <3>1. TabOf[d] = TabOf[c]
      BY <1>0, <2>1, <2>2 DEF Rooted, Alone
    <3>2. call[d].kind = "login"
      BY <2>1, <2>2, <3>1 DEF Outside, OpenCalls
    <3> QED BY <2>1, <2>2, <3>1, <3>2 DEF Busy
  <2>3. OpenCalls = {}
    BY <2>2 DEF OpenCalls
  <2>4. \A t \in Tabs : status'[t] # "authenticated"
    BY <2>1 DEF Outside
  <2> QED BY <1>1, <2>1, <2>3, <2>4, OutsideAsks
<1>6. ASSUME NEW c \in Calls, NEW C, NEW answer, NEW v, Settle(TabOf[c], C, answer, v), c \in C,
             call[c].at # "idle"
      PROVE  /\ OpenCalls' = {}
             /\ answer # "ok" => \A t \in Tabs : status'[t] # "authenticated"
  <2>1. \A d \in Calls : call'[d].at = "idle"
    BY <1>2, <1>6, IdleShape DEF Settle
  <2>2. ASSUME answer # "ok", NEW t \in Tabs PROVE status'[t] # "authenticated"
    <3>1. status[t] # "authenticated" /\ status \in [Tabs -> {"closed", "loading", "authenticated", "anonymous"}]
      BY DEF Outside, TypeInv, Rest
    <3>2. CASE t # TabOf[c]
      BY <1>6, <3>1, <3>2 DEF Settle
    <3>3. CASE t = TabOf[c]
      BY <1>6, <2>2, <3>1, <3>3 DEF Settle, Shown
    <3> QED BY <3>2, <3>3
  <2> QED BY <2>1, <2>2 DEF OpenCalls
<1>7. ASSUME NEW c \in Calls, Finish(c) PROVE InSession' \/ Outside'
  <2>1. /\ call[c].at = "answered" /\ cookie' = IF call[c].sets THEN call[c].sid ELSE cookie
        /\ Settle(TabOf[c], {c}, call[c].answer, Verdict(call[c].answer)) /\ store' = store
    BY <1>7 DEF Finish
  <2>2. OpenCalls' = {} /\ (call[c].answer # "ok" => \A t \in Tabs : status'[t] # "authenticated")
    BY <1>6, <2>1
  <2>3. CASE call[c].answer = "ok"
    <3>1. call[c].sets /\ UserIn(store, call[c].sid)
      BY <1>2, <2>1, <2>3 DEF Pending
    <3>2. cookie' = call[c].sid
      BY <2>1, <3>1
    <3>3. UserIn(store', cookie')
      BY <2>1, <3>1, <3>2
    <3> QED BY <2>2, <3>3 DEF InSession
  <2>4. CASE call[c].answer # "ok"
    <3>1. ~call[c].sets
      BY <1>2, <2>1, <2>4 DEF Pending
    <3>2. ~UserIn(store', cookie')
      BY <1>1, <2>1, <3>1
    <3> QED BY <2>2, <2>4, <3>2 DEF Outside
  <2> QED BY <2>3, <2>4
<1>8. ASSUME NEW c \in Calls, Lose(c) PROVE Outside'
  <2>1. PICK C : Settle(TabOf[c], C, "none", "unknown") /\ c \in C
    BY <1>8 DEF Lose, Sharers
  <2>2. call[c].at # "idle" /\ cookie' = cookie
    BY <1>8 DEF Lose
  <2>3. OpenCalls' = {} /\ ("none" # "ok" => \A t \in Tabs : status'[t] # "authenticated")
    BY <1>6, <2>1, <2>2
  <2> QED BY <1>1, <2>2, <2>3 DEF Outside
<1>9. ASSUME NEW c \in Calls, Fetched(c) PROVE Outside'
  <2>1. /\ call[c].at = "fetched" /\ cookie' = (IF call[c].sets THEN call[c].sid ELSE cookie)
        /\ UNCHANGED <<store, status>> /\ c \in Sharers(c)
    BY <1>9 DEF Fetched, Sharers
  <2>2. ~UserIn(store', cookie')
    BY <1>1, <1>2, <2>1 DEF Pending
  <2>3. /\ call'[c].at = "request" /\ call'[c].sid = cookie' /\ call'[c].sets = FALSE
        /\ call'[c].kind = call[c].kind
    BY <1>0, <1>9, <2>1, FetchedRecords DEF Same
  <2>4. ASSUME NEW d \in Calls, d # c PROVE call'[d].at = "idle"
    <3>1. call[d].at = "idle"
      BY <1>2, <2>1, <2>4
    <3>2. d \notin Sharers(c)
      BY <2>4, <3>1 DEF Sharers
    <3> QED BY <1>0, <1>9, <3>1, <3>2, FetchedRecords
  <2>5. \A d \in OpenCalls' : d = c
    BY <2>4 DEF OpenCalls
  <2>6. Pending(store', call'[c])
    BY <2>2, <2>3 DEF Pending
  <2>7. call[c].kind \in {"me", "login"} /\ (status[TabOf[c]] = "anonymous" => call[c].kind = "login")
    BY <2>1 DEF Outside, OpenCalls
  <2>8. \A t \in Tabs : status'[t] # "authenticated"
    BY <2>1 DEF Outside
  <2> QED BY <2>1, <2>2, <2>3, <2>5, <2>6, <2>7, <2>8 DEF Outside
<1>10. ASSUME NEW c \in Calls, Retry(c) PROVE Outside'
  <2>1. /\ call[c].at = "answered" /\ call[c].answer = "badCsrf" /\ UNCHANGED <<cookie, status>>
    BY <1>10 DEF Retry, Retries
  <2>2. PICK r \in Shapes :
          /\ call' = [call EXCEPT ![c] = r]
          /\ r.kind = call[c].kind /\ r.sets = call[c].sets /\ r.sid = cookie /\ r.at = "fetch"
    BY <1>0, <1>10, RetryRecord
  <2>3. ~call[c].sets
    BY <1>2, <2>1 DEF Pending
  <2>4. Pending(store', r)
    BY <1>1, <2>2, <2>3 DEF Pending
  <2>5. call'[c] = r /\ \A d \in Calls : d # c => call'[d].at = "idle"
    BY <1>0, <1>2, <2>1, <2>2
  <2>6. \A d \in OpenCalls' : d = c
    BY <2>5 DEF OpenCalls
  <2>7. call[c].kind \in {"me", "login"} /\ (status[TabOf[c]] = "anonymous" => call[c].kind = "login")
    BY <2>1 DEF Outside, OpenCalls
  <2>8. \A t \in Tabs : status'[t] # "authenticated"
    BY <2>1 DEF Outside
  <2> QED BY <1>1, <2>1, <2>2, <2>4, <2>5, <2>6, <2>7, <2>8 DEF Outside
<1>11. ASSUME NEW c \in Calls, AnswerFetch(c) PROVE Outside'
  <2>1. call[c].at = "fetch" /\ UNCHANGED <<cookie, status>>
    BY <1>11 DEF AnswerFetch
  <2>2. PICK r \in Shapes :
           /\ call' = [call EXCEPT ![c] = r]
           /\ Same(r, call[c]) /\ r.at = "fetched"
           /\ \/ r.sid = call[c].sid /\ UNCHANGED store
              \/ /\ r.sid = made + 1
                 /\ store' = [store EXCEPT ![made + 1] = [user |-> FALSE, token |-> made + 1]]
    BY <1>0, <1>11, FetchRecord
  <2>3. ~UserIn(store', r.sid)
    <3>1. CASE r.sid = call[c].sid /\ UNCHANGED store
      BY <1>2, <2>1, <3>1 DEF Pending
    <3>2. CASE /\ r.sid = made + 1
               /\ store' = [store EXCEPT ![made + 1] = [user |-> FALSE, token |-> made + 1]]
      BY <1>0, <3>2 DEF UserIn, Inv, Numbers
    <3> QED BY <2>2, <3>1, <3>2
  <2>4. Pending(store', r)
    BY <2>2, <2>3 DEF Pending
  <2> QED BY <1>1, <2>1, <2>2, <2>4, OutsideOne
<1>12. ASSUME NEW c \in Calls, RejectToken(c) \/ RejectUser(c) \/ RejectFactor(c) PROVE Outside'
  <2>1. PICK answer \in {"badCsrf", "noSession", "wrongCode"} : Reply(c, answer)
    BY <1>12 DEF RejectToken, RejectUser, RejectFactor
  <2>2. answer \in Answers
    BY DEF Answers
  <2>3. PICK r \in Shapes :
           /\ call' = [call EXCEPT ![c] = r]
           /\ Same(r, call[c]) /\ r.at = "answered" /\ r.answer = answer
           /\ r.sid = call[c].sid /\ r.sets = call[c].sets
    BY <1>0, <2>1, <2>2, ReplyRecord
  <2>4. call[c].at \in {"request", "handler"} /\ UNCHANGED <<cookie, status>>
    BY <1>12 DEF RejectToken, RejectUser, RejectFactor, ClientWaits
  <2>5. ~UserIn(store', call[c].sid) /\ ~call[c].sets
    BY <1>2, <2>4 DEF Pending
  <2>6. Pending(store', r)
    BY <2>1, <2>3, <2>5 DEF Pending
  <2> QED BY <1>1, <2>3, <2>4, <2>6, OutsideOne
<1>13. ASSUME NEW c \in Calls, Serve(c) \/ EndSession(c) PROVE FALSE
  <2>1. call[c].at = "request" /\ UserIn(store, call[c].sid)
    BY <1>13, SignedIsUser DEF Serve, EndSession
  <2> QED BY <1>2, <2>1 DEF Pending
<1>14. ASSUME NEW c \in Calls, CheckFactor(c) PROVE Outside'
  <2>1. call[c].at = "request" /\ UNCHANGED <<cookie, status>>
    BY <1>14 DEF CheckFactor, ClientWaits
  <2>2. PICK r \in Shapes :
           /\ call' = [call EXCEPT ![c] = r]
           /\ Same(r, call[c]) /\ r.at = "handler" /\ r.sid = call[c].sid /\ r.sets = call[c].sets
    BY <1>0, <1>14, CheckRecord
  <2>3. ~UserIn(store', call[c].sid) /\ ~call[c].sets
    BY <1>2, <2>1 DEF Pending
  <2>4. Pending(store', r)
    BY <2>2, <2>3 DEF Pending
  <2> QED BY <1>1, <2>1, <2>2, <2>4, OutsideOne
<1>15. ASSUME NEW c \in Calls, EstablishSession(c) PROVE Outside'
  <2>1. /\ call[c].at = "handler" /\ UNCHANGED <<cookie, status>> /\ made' = made + 1
        /\ store' = [store EXCEPT ![call[c].sid] = NoRow,
                                  ![made + 1] = [user |-> TRUE, token |-> call[c].token]]
    BY <1>15 DEF EstablishSession
  <2>2. PICK r \in Shapes :
           /\ call' = [call EXCEPT ![c] = r]
           /\ Same(r, call[c]) /\ r.at = "answered" /\ r.answer = "ok"
           /\ r.sid = made + 1 /\ r.sets = TRUE
    BY <1>0, <1>15, EstablishRecord
  <2>3. made \in Nat /\ made + 1 <= MaxSid /\ store \in [Sids -> Rows]
    BY <2>1, MadeBound DEF TypeInv, Inv, Numbers
  <2>4. made + 1 \in Sids
    BY <2>3, ClientAssumption DEF Sids, MaxSid
  <2>5. store'[made + 1].user = TRUE
    BY <2>1, <2>3, <2>4
  <2>6. Pending(store', r)
    BY <2>2, <2>4, <2>5 DEF Pending, UserIn
  <2> QED BY <1>1, <2>1, <2>2, <2>6, OutsideOne
<1>16. ASSUME NEW s \in Sids, Lapse(s) PROVE FALSE
  BY <1>0, <1>16 DEF Lapse
<1> QED BY <1>3, <1>4, <1>5, <1>7, <1>8, <1>9, <1>10, <1>11, <1>12, <1>13, <1>14, <1>15, <1>16
        DEF Next, Progress

LEMMA LiveStep == ASSUME TypeInv, TypeInv', LiveInv, Next PROVE LiveInv'
<1>1. Rooted'
  BY RootedStep DEF LiveInv
<1>2. ASSUME ends' = 0, Alone' PROVE InSession' \/ Outside'
  <2>1. ends = 0 /\ ends' = ends
    BY <1>2, EndsGrow DEF TypeInv, Rest
  <2>2. Alone
    BY <1>2, StaysOpen DEF Alone
  <2> QED BY <1>2, <2>1, <2>2, InSessionStep, OutsideStep DEF LiveInv
<1> QED BY <1>1, <1>2 DEF LiveInv

LEMMA InitLive == Init => LiveInv
<1> SUFFICES ASSUME Init PROVE LiveInv
  OBVIOUS
<1>1. OpenCalls = {} /\ \A c \in Calls : call[c].at = "idle"
  BY IdleShape DEF Init, OpenCalls
<1>2. \A s \in Sids : store[s] = [user |-> TRUE, token |-> s] \/ store[s] = NoRow
  BY DEF Init
<1>3. Rooted
  <2>1. ASSUME NEW s \in Sids, store[s].user PROVE store[s].token # 0
    <3>1. s # 0 /\ NoRow.user = FALSE
      BY DEF NoRow, Sids
    <3>2. CASE store[s] = NoRow
      BY <2>1, <3>1, <3>2
    <3>3. CASE store[s] = [user |-> TRUE, token |-> s]
      <4>1. store[s].token = s
        BY <3>3
      <4> QED BY <3>1, <4>1
    <3> QED BY <1>2, <3>2, <3>3
  <2> QED BY <1>1, <2>1 DEF Rooted
<1>4. CASE made = 0
  <2>1. ~UserIn(store, cookie)
    BY <1>4 DEF Init, UserIn, Sids
  <2>2. \A t \in Tabs : status[t] = "closed"
    BY <1>4 DEF Init
  <2> QED BY <1>1, <1>3, <2>1, <2>2 DEF LiveInv, Outside
<1>5. CASE made = 1
  <2>1. 1 \in Sids
    BY ClientAssumption DEF Sids, MaxSid
  <2>2. store[1] = [user |-> TRUE, token |-> 1] /\ cookie = 1
    BY <1>5, <2>1 DEF Init
  <2>3. UserIn(store, cookie)
    BY <2>1, <2>2 DEF UserIn
  <2> QED BY <1>1, <1>3, <2>3 DEF LiveInv, InSession
<1> QED BY <1>4, <1>5 DEF Init

\* A tab that shows the workspace has a live session, if it is the only tab
\* and no session has ended: neither the fetch of a token nor the new cookie of
\* a sign-in leaves it behind (client/src/app/session.tsx, server/http/session.ts).
THEOREM WorkspaceLives == Spec => []WorkspaceIsLive
<1>1. TypeInv /\ TypeInv' /\ LiveInv /\ [Next]_vars => LiveInv'
  <2>1. LiveInv /\ UNCHANGED vars => LiveInv'
    BY DEF vars, LiveInv, Rooted, Alone, InSession, Outside, Pending, OpenCalls
  <2> QED BY <2>1, LiveStep
<1>2. LiveInv => WorkspaceIsLive
  <2> SUFFICES ASSUME LiveInv, NEW t \in Tabs, status[t] = "authenticated", Lone, ends = 0
               PROVE  SignedIn(cookie)
    BY DEF WorkspaceIsLive
  <2>1. Alone
    BY DEF Lone, Alone
  <2>2. InSession
    BY <2>1 DEF LiveInv, Outside
  <2> QED BY <2>2, SignedIsUser DEF InSession
<1> QED BY <1>1, <1>2, InitLive, InitTypeInv, TypeStep, PTL DEF Spec

-----------------------------------------------------------------------------
(* The fetch that is waited for *)

\* One call moves on, without leaving or joining a shared fetch, or starts one.
LEMMA AwaitedByOne ==
  ASSUME Inv, WaitersAwaited, NEW c \in Calls, NEW r \in Shapes, call' = [call EXCEPT ![c] = r],
         r.at # "wait", call[c].at \in {"fetch", "fetched"} => r.at = "fetched",
         \/ fetching' = fetching
         \/ fetching' = [fetching EXCEPT ![TabOf[c]] = c] /\ r.at = "fetch"
  PROVE  WaitersAwaited'
<1>1. \A d \in Calls : call'[d] = IF d = c THEN r ELSE call[d]
  BY DEF Inv
<1>2. \A t \in Tabs : UnderFetch(t) \subseteq UnderFetch(t)'
  BY <1>1 DEF UnderFetch
<1>3. ASSUME NEW d \in Calls, call'[d].at = "wait" PROVE call'[d].on \in UnderFetch(TabOf[d])'
  <2>1. d # c /\ call'[d] = call[d] /\ TabOf[d] \in Tabs
    BY <1>1, <1>3, ClientAssumption
  <2> QED BY <1>2, <1>3, <2>1 DEF WaitersAwaited
<1>4. ASSUME NEW t \in Tabs, fetching'[t] # NoCall PROVE fetching'[t] \in UnderFetch(t)'
  <2>1. CASE fetching'[t] = fetching[t]
    BY <1>2, <1>4, <2>1 DEF WaitersAwaited
  <2>2. CASE fetching'[t] # fetching[t]
    <3>1. t = TabOf[c] /\ fetching'[t] = c /\ r.at = "fetch"
      BY <2>2 DEF Inv, Numbers
    <3> QED BY <1>1, <3>1 DEF UnderFetch
  <2> QED BY <2>1, <2>2
<1> QED BY <1>3, <1>4 DEF WaitersAwaited

\* The calls C stop fetching and waiting, and with whoever fetches all who wait
\* for it do.
LEMMA AwaitedByAll ==
  ASSUME Inv, WaitersAwaited, NEW C \in SUBSET Calls,
         \A d \in C : call'[d].at \notin {"wait", "fetch", "fetched"},
         \A d \in Calls \ C : call'[d] = call[d],
         \A d \in Calls \ C : call[d].at = "wait" => call[d].on \notin C,
         \A t \in Tabs : \/ fetching'[t] = NoCall
                         \/ fetching'[t] = fetching[t] /\ fetching[t] \notin C
  PROVE  WaitersAwaited'
<1>1. \A t \in Tabs : \A d \in UnderFetch(t) \ C : d \in UnderFetch(t)'
  BY DEF UnderFetch
<1>2. ASSUME NEW d \in Calls, call'[d].at = "wait" PROVE call'[d].on \in UnderFetch(TabOf[d])'
  <2>1. d \in Calls \ C /\ call'[d] = call[d] /\ TabOf[d] \in Tabs
    BY <1>2, ClientAssumption
  <2> QED BY <1>1, <1>2, <2>1 DEF WaitersAwaited
<1>3. ASSUME NEW t \in Tabs, fetching'[t] # NoCall PROVE fetching'[t] \in UnderFetch(t)'
  BY <1>1, <1>3 DEF WaitersAwaited
<1> QED BY <1>2, <1>3 DEF WaitersAwaited

\* A call that is asked for sends its request, starts a fetch, or waits for the
\* one that its tab has under way.
LEMMA AwaitedByPrepare ==
  ASSUME Inv, WaitersAwaited, NEW c \in Calls, NEW kind \in Kinds, Prepare(c, kind)
  PROVE  WaitersAwaited'
<1> DEFINE t == TabOf[c]
           fresh == [Idle EXCEPT !.kind = kind, !.sid = cookie]
<1>1. /\ fresh \in Shapes /\ t \in Tabs /\ call[c].at = "idle"
      /\ cached[t] \in Nat /\ fetching[t] \in Calls \cup {NoCall}
  BY ClientAssumption, IdleShape DEF Shapes, Inv, Numbers, Idle, Prepare
<1> HIDE DEF fresh
<1>2. CASE /\ fetching' = fetching
           /\ call' = [call EXCEPT ![c] = [fresh EXCEPT !.at = "request",
                         !.token = IF kind \in Unsafe THEN cached[t] ELSE 0]]
  <2> DEFINE n == IF kind \in Unsafe THEN cached[t] ELSE 0
             r == [fresh EXCEPT !.at = "request", !.token = n]
  <2>1. n \in Nat
    BY <1>1
  <2>2. call' = [call EXCEPT ![c] = r]
    BY <1>2
  <2> HIDE DEF n
  <2>3. r \in Shapes /\ r.at = "request"
    BY <1>1, <2>1 DEF Shapes, Steps
  <2> HIDE DEF r
  <2> QED BY <1>1, <1>2, <2>2, <2>3, AwaitedByOne
<1>3. CASE FetchToken(c) /\ call' = [call EXCEPT ![c] = [fresh EXCEPT !.at = "fetch"]]
  <2> DEFINE r == [fresh EXCEPT !.at = "fetch"]
  <2>1. r \in Shapes /\ r.at = "fetch"
    BY <1>1 DEF Shapes, Steps
  <2>2. call' = [call EXCEPT ![c] = r]
    BY <1>3
  <2> HIDE DEF r
  <2> QED BY <1>1, <1>3, <2>1, <2>2, AwaitedByOne DEF FetchToken
<1>4. CASE /\ fetching[t] # NoCall /\ fetching' = fetching
           /\ call' = [call EXCEPT ![c] = [fresh EXCEPT !.at = "wait", !.on = fetching[t]]]
  <2> DEFINE r == [fresh EXCEPT !.at = "wait", !.on = fetching[t]]
  <2>1. r.on = fetching[t]
    BY <1>1 DEF Shapes
  <2>2. call' = [call EXCEPT ![c] = r]
    BY <1>4
  <2> HIDE DEF r
  <2>3. \A d \in Calls : call'[d] = IF d = c THEN r ELSE call[d]
    BY <2>2 DEF Inv
  <2>4. \A u \in Tabs : UnderFetch(u) \subseteq UnderFetch(u)'
    BY <1>1, <2>3 DEF UnderFetch
  <2>5. fetching[t] \in UnderFetch(t)
    BY <1>1, <1>4 DEF WaitersAwaited
  <2>6. ASSUME NEW d \in Calls, call'[d].at = "wait" PROVE call'[d].on \in UnderFetch(TabOf[d])'
    <3>1. CASE d = c
      BY <1>1, <2>1, <2>3, <2>4, <2>5, <3>1
    <3>2. CASE d # c
      <4>1. call'[d] = call[d] /\ TabOf[d] \in Tabs
        BY <2>3, <3>2, ClientAssumption
      <4> QED BY <2>4, <2>6, <4>1 DEF WaitersAwaited
    <3> QED BY <3>1, <3>2
  <2>7. \A u \in Tabs : fetching'[u] # NoCall => fetching'[u] \in UnderFetch(u)'
    BY <1>4, <2>4 DEF WaitersAwaited
  <2> QED BY <2>6, <2>7 DEF WaitersAwaited
<1> QED BY <1>2, <1>3, <1>4 DEF Prepare, fresh

\* Whoever waits for another call does not wait for a sharer of this fetch.
LEMMA SharersApart ==
  ASSUME Inv, WaitersAwaited, NEW c \in Calls, call[c].at \in {"fetch", "fetched"}
  PROVE  /\ Sharers(c) \in SUBSET Calls
         /\ \A d \in Calls \ Sharers(c) : call[d].at = "wait" => call[d].on \notin Sharers(c)
         /\ \A t \in Tabs : t # TabOf[c] => fetching[t] \notin Sharers(c)
<1>1. \A d \in Sharers(c) : d = c \/ call[d].at = "wait"
  BY DEF Sharers
<1>2. ASSUME NEW d \in Calls \ Sharers(c), call[d].at = "wait" PROVE call[d].on \notin Sharers(c)
  <2>1. call[d].on # c
    BY <1>2 DEF Sharers
  <2>2. call[call[d].on].at \in {"fetch", "fetched"}
    BY <1>2 DEF WaitersAwaited, UnderFetch
  <2> QED BY <1>1, <2>1, <2>2
<1>3. ASSUME NEW t \in Tabs, t # TabOf[c] PROVE fetching[t] \notin Sharers(c)
  <2>1. CASE fetching[t] = NoCall
    BY <2>1, ClientAssumption DEF NoCall, Sharers
  <2>2. CASE fetching[t] # NoCall
    <3>1. TabOf[fetching[t]] = t /\ call[fetching[t]].at \in {"fetch", "fetched"}
      BY <2>2 DEF WaitersAwaited, UnderFetch
    <3> QED BY <1>1, <1>3, <3>1
  <2> QED BY <2>1, <2>2
<1> QED BY <1>2, <1>3 DEF Sharers

\* Nobody waits for a call that does not fetch.
LEMMA NobodyWaits ==
  ASSUME Inv, WaitersAwaited, NEW c \in Calls, call[c].at \notin {"fetch", "fetched"}
  PROVE  /\ \A d \in Calls : call[d].at = "wait" => call[d].on # c
         /\ \A t \in Tabs : fetching[t] # c
<1>1. \A d \in Calls : call[d].at = "wait" => call[d].on # c
  BY DEF WaitersAwaited, UnderFetch
<1>2. c # NoCall
  BY ClientAssumption DEF NoCall
<1>3. \A t \in Tabs : fetching[t] # c
  BY <1>2 DEF WaitersAwaited, UnderFetch
<1> QED BY <1>1, <1>3

LEMMA AwaitedStep == ASSUME Inv, WaitersAwaited, Next PROVE WaitersAwaited'
<1>1. ASSUME NEW c \in Calls, Open(c) \/ Use(c) \/ SignOut(c) \/ SignIn(c) PROVE WaitersAwaited'
  <2>1. PICK kind \in Kinds : Prepare(c, kind)
    BY <1>1 DEF Open, Use, SignOut, SignIn, Kinds
  <2> QED BY <2>1, AwaitedByPrepare
<1>2. ASSUME NEW c \in Calls, Fetched(c) PROVE WaitersAwaited'
  <2>1. /\ call[c].at = "fetched"
        /\ fetching' = [fetching EXCEPT ![TabOf[c]] = NoCall]
    BY <1>2 DEF Fetched
  <2>2. /\ \A d \in Sharers(c) : d \in Calls => call'[d].at \notin {"wait", "fetch", "fetched"}
        /\ \A d \in Calls \ Sharers(c) : call'[d] = call[d]
    BY <1>2, FetchedRecords
  <2>3. \A t \in Tabs : fetching'[t] = IF t = TabOf[c] THEN NoCall ELSE fetching[t]
    BY <2>1 DEF Inv, Numbers
  <2>4. /\ Sharers(c) \in SUBSET Calls
        /\ \A d \in Calls \ Sharers(c) : call[d].at = "wait" => call[d].on \notin Sharers(c)
        /\ \A t \in Tabs : t # TabOf[c] => fetching[t] \notin Sharers(c)
    BY <2>1, SharersApart
  <2>5. PICK C \in SUBSET Calls : C = Sharers(c)
    BY <2>4
  <2>6. /\ \A d \in C : call'[d].at \notin {"wait", "fetch", "fetched"}
        /\ \A d \in Calls \ C : call'[d] = call[d]
        /\ \A d \in Calls \ C : call[d].at = "wait" => call[d].on \notin C
        /\ \A t \in Tabs : fetching'[t] = NoCall \/ (fetching'[t] = fetching[t] /\ fetching[t] \notin C)
    BY <2>2, <2>3, <2>4, <2>5
  <2> QED BY <2>6, AwaitedByAll
<1>3. ASSUME NEW c \in Calls, NEW C \in SUBSET Calls,
             call' = [d \in Calls |-> IF d \in C THEN Idle ELSE call[d]],
             call[c].at \notin {"fetch", "fetched"}, C = {c}, fetching' = fetching
      PROVE  WaitersAwaited'
  <2>1. /\ \A d \in C : call'[d].at \notin {"wait", "fetch", "fetched"}
        /\ \A d \in Calls \ C : call'[d] = call[d]
    BY <1>3, IdleShape
  <2>2. /\ \A d \in Calls \ C : call[d].at = "wait" => call[d].on \notin C
        /\ \A t \in Tabs : fetching'[t] = fetching[t] /\ fetching[t] \notin C
    BY <1>3, NobodyWaits
  <2> QED BY <2>1, <2>2, AwaitedByAll
<1>4. ASSUME NEW c \in Calls, Finish(c) PROVE WaitersAwaited'
  BY <1>3, <1>4 DEF Finish, Settle
<1>5. ASSUME NEW c \in Calls, Lose(c), call[c].at \notin {"fetch", "fetched"} PROVE WaitersAwaited'
  BY <1>3, <1>5 DEF Lose, Settle
<1>6. ASSUME NEW c \in Calls, Lose(c), call[c].at \in {"fetch", "fetched"} PROVE WaitersAwaited'
  <2>1. /\ call' = [d \in Calls |-> IF d \in Sharers(c) THEN Idle ELSE call[d]]
        /\ fetching' = [fetching EXCEPT ![TabOf[c]] = NoCall]
    BY <1>6 DEF Lose, Settle
  <2>2. \A t \in Tabs : fetching'[t] = IF t = TabOf[c] THEN NoCall ELSE fetching[t]
    BY <2>1 DEF Inv, Numbers
  <2>3. /\ Sharers(c) \in SUBSET Calls
        /\ \A d \in Calls \ Sharers(c) : call[d].at = "wait" => call[d].on \notin Sharers(c)
        /\ \A t \in Tabs : t # TabOf[c] => fetching[t] \notin Sharers(c)
    BY <1>6, SharersApart
  <2>4. PICK C \in SUBSET Calls : C = Sharers(c)
    BY <2>3
  <2>5. /\ \A d \in C : call'[d].at \notin {"wait", "fetch", "fetched"}
        /\ \A d \in Calls \ C : call'[d] = call[d]
        /\ \A d \in Calls \ C : call[d].at = "wait" => call[d].on \notin C
        /\ \A t \in Tabs : fetching'[t] = NoCall \/ (fetching'[t] = fetching[t] /\ fetching[t] \notin C)
    BY <2>1, <2>2, <2>3, <2>4, IdleShape
  <2> QED BY <2>5, AwaitedByAll
<1>7. ASSUME NEW c \in Calls, Retry(c) PROVE WaitersAwaited'
  <2>1. PICK r \in Shapes : call' = [call EXCEPT ![c] = r] /\ r.at = "fetch"
    BY <1>7, RetryRecord
  <2>2. call[c].at = "answered" /\ fetching' = [fetching EXCEPT ![TabOf[c]] = c]
    BY <1>7 DEF Retry, FetchToken
  <2> QED BY <2>1, <2>2, AwaitedByOne
<1>8. ASSUME NEW c \in Calls, AnswerFetch(c) PROVE WaitersAwaited'
  <2>1. PICK r \in Shapes : call' = [call EXCEPT ![c] = r] /\ r.at = "fetched"
    BY <1>8, FetchRecord
  <2>2. fetching' = fetching
    BY <1>8 DEF AnswerFetch
  <2> QED BY <2>1, <2>2, AwaitedByOne
<1>9. ASSUME NEW c \in Calls, RejectToken(c) \/ RejectUser(c) \/ Serve(c) \/ RejectFactor(c)
      PROVE  WaitersAwaited'
  <2>1. PICK answer \in Answers : Reply(c, answer)
    BY <1>9 DEF RejectToken, RejectUser, Serve, RejectFactor, Answers
  <2>2. PICK r \in Shapes : call' = [call EXCEPT ![c] = r] /\ r.at = "answered"
    BY <2>1, ReplyRecord
  <2>3. fetching' = fetching /\ call[c].at \in {"request", "handler"}
    BY <1>9 DEF RejectToken, RejectUser, Serve, RejectFactor, ClientWaits
  <2> QED BY <2>2, <2>3, AwaitedByOne
<1>10. ASSUME NEW c \in Calls, CheckFactor(c) PROVE WaitersAwaited'
  <2>1. PICK r \in Shapes : call' = [call EXCEPT ![c] = r] /\ r.at = "handler"
    BY <1>10, CheckRecord
  <2>2. fetching' = fetching /\ call[c].at = "request"
    BY <1>10 DEF CheckFactor, ClientWaits
  <2> QED BY <2>1, <2>2, AwaitedByOne
<1>11. ASSUME NEW c \in Calls, EndSession(c) \/ EstablishSession(c) PROVE WaitersAwaited'
  <2>1. PICK r \in Shapes : call' = [call EXCEPT ![c] = r] /\ r.at = "answered"
    BY <1>11, EndRecord, EstablishRecord
  <2>2. fetching' = fetching /\ call[c].at \in {"request", "handler"}
    BY <1>11 DEF EndSession, EstablishSession
  <2> QED BY <2>1, <2>2, AwaitedByOne
<1>12. ASSUME NEW s \in Sids, Lapse(s) PROVE WaitersAwaited'
  BY <1>12 DEF Lapse, WaitersAwaited, UnderFetch
<1> QED BY <1>1, <1>2, <1>4, <1>5, <1>6, <1>7, <1>8, <1>9, <1>10, <1>11, <1>12 DEF Next, Progress

\* Whoever waits for a CSRF token waits for a fetch of his tab that is under way,
\* although the fetch was begun by another call and a refusal forces new ones: with
\* the answers of the server this is why no call waits for ever, the safety half of
\* CallsEnd.
THEOREM NobodyLeftWaiting == Spec => []WaitersAwaited
<1>1. Init => WaitersAwaited
  BY IdleShape DEF Init, WaitersAwaited
<1>2. WaitersAwaited /\ UNCHANGED vars => WaitersAwaited'
  BY DEF vars, WaitersAwaited, UnderFetch
<1>3. Inv /\ WaitersAwaited /\ [Next]_vars => WaitersAwaited'
  BY <1>2, AwaitedStep
<1>4. Inv /\ [Next]_vars => Inv'
  BY Step
<1> QED BY <1>1, <1>3, <1>4, InitInv, PTL DEF Spec
=============================================================================
