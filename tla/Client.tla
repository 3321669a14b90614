------------------------------- MODULE Client -------------------------------
(***************************************************************************)
(* The browser's side of a session and the server's side of it:            *)
(* client/src/api/client.ts and app/session.tsx against                    *)
(* server/http/session.ts, http/guards.ts and routes/auth.ts.              *)
(*                                                                         *)
(* One browser: its tabs share the session cookie.  Each tab is a program  *)
(* of its own with the CSRF token it remembers, the fetch of a token that  *)
(* its requests share, and the picture it shows of the session.  A call is *)
(* one use of request(): it may take a fetch of the token, the request,    *)
(* and after a CSRF refusal another fetch and the request again.           *)
(*                                                                         *)
(* Sessions and CSRF tokens are numbered in the order of their making.     *)
(* Set-Cookie takes effect when its answer arrives.  Signing in stands for *)
(* the last request of it, whichever the factors were.                     *)
(***************************************************************************)
EXTENDS Naturals

CONSTANTS
  Tabs,       \* tabs of one browser
  Calls,      \* numbers of the requests that may be under way at a time
  TabOf,      \* the tab of a call
  MaxAsks,    \* bound: calls in all
  MaxFaults   \* bound: exchanges that fail on the network, and sessions that lapse

ASSUME ClientAssumption ==
  /\ Calls \subseteq Nat \ {0} /\ TabOf \in [Calls -> Tabs]
  /\ MaxAsks \in Nat /\ MaxFaults \in Nat

NoSid == 0
NoCall == 0
MaxSid == 3 * MaxAsks + 1
Sids == 1 .. MaxSid
NoRow == [user |-> FALSE, token |-> 0]
Kinds == {"me", "load", "save", "login", "logout"}
Unsafe == {"save", "login", "logout"}
\* Steps of a call: waiting for another call's fetch of the token, its own
\* fetch on the way there and back, the request on the way there, in the
\* handler, and on the way back.
Steps == {"idle", "wait", "fetch", "fetched", "request", "handler", "answered"}
Verdicts == {"done", "refused", "badToken", "turnedAway", "unknown"}
Silence == [of |-> {}, verdict |-> "nothing"]
Answers == {"none", "ok", "refused", "wrongCode", "noSession", "badCsrf"}

VARIABLES
  cookie,    \* the session id in the browser's jar
  store,     \* user_sessions: signed in or not, and its csrfToken (0: no row)
  made,      \* sessions made so far
  status,    \* of each tab, SessionStatus
  cached,    \* csrfToken of each tab (0: null)
  fetching,  \* csrfRequest of each tab: the call whose fetch is shared
  call,
  performed, \* how often the server did what the call under way asks
  told,      \* what the user was told last, and of which calls
  steady,    \* of each call: since its token was last fetched or asked for,
             \* nothing moved the cookie and no row went away
  asks, faults,
  ends       \* signed-in sessions that came to an end

vars == <<cookie, store, made, status, cached, fetching, call, performed, told, steady, asks, faults, ends>>

Idle == [kind |-> "load", at |-> "idle", sid |-> NoSid, token |-> 0, sets |-> FALSE,
         answer |-> "none", retried |-> FALSE, on |-> NoCall]
CallRecords ==
  [kind : Kinds, at : Steps, sid : 0 .. MaxSid, token : 0 .. MaxSid, sets : BOOLEAN,
   answer : Answers, retried : BOOLEAN, on : Calls \cup {NoCall}]

TypeOK ==
  /\ cookie \in 0 .. MaxSid
  /\ store \in [Sids -> [user : BOOLEAN, token : 0 .. MaxSid]]
  /\ made \in Nat
  /\ status \in [Tabs -> {"closed", "loading", "authenticated", "anonymous"}]
  /\ cached \in [Tabs -> 0 .. MaxSid]
  /\ fetching \in [Tabs -> Calls \cup {NoCall}]
  /\ call \in [Calls -> CallRecords]
  /\ performed \in [Calls -> Nat]
  /\ told \in [of : SUBSET Calls, verdict : Verdicts \cup {"nothing"}]
  /\ steady \in [Calls -> BOOLEAN]
  /\ asks \in Nat /\ faults \in Nat /\ ends \in Nat

-----------------------------------------------------------------------------
(* The server's rows *)

\* The session middleware loads the row that the cookie names; a request
\* without one gets an empty session, which is not saved as long as it stays so.
Row(sid) == IF sid \in Sids THEN store[sid] ELSE NoRow

\* requireAuth and getUserById; who is deactivated counts as gone.
SignedIn(sid) == Row(sid).user

\* csrfProtection, for the methods it looks at.
TokenMatches(c) ==
  call[c].kind \in Unsafe => Row(call[c].sid).token # 0 /\ Row(call[c].sid).token = call[c].token

-----------------------------------------------------------------------------
(* The client's steps *)

\* csrfRequest is the fetch of call c, forced or not.
FetchToken(c) ==
  fetching' = [fetching EXCEPT ![TabOf[c]] = c]

\* ensureCsrfToken: the remembered token, the fetch under way, or a fetch.
Prepare(c, kind) ==
  LET t == TabOf[c]
      fresh == [Idle EXCEPT !.kind = kind, !.sid = cookie]
  IN  /\ call[c].at = "idle" /\ asks < MaxAsks
      \* any free number would do: the first one of the tab is taken
      /\ \A d \in Calls : TabOf[d] = t /\ d < c => call[d].at # "idle"
      /\ asks' = asks + 1
      /\ told' = Silence
      /\ \/ /\ kind \notin Unsafe \/ cached[t] # 0
            /\ call' = [call EXCEPT ![c] = [fresh EXCEPT !.at = "request",
                          !.token = IF kind \in Unsafe THEN cached[t] ELSE 0]]
            /\ UNCHANGED fetching
         \/ /\ kind \in Unsafe /\ cached[t] = 0 /\ fetching[t] # NoCall
            /\ call' = [call EXCEPT ![c] = [fresh EXCEPT !.at = "wait", !.on = fetching[t]]]
            /\ UNCHANGED fetching
         \/ /\ kind \in Unsafe /\ cached[t] = 0 /\ fetching[t] = NoCall
            /\ call' = [call EXCEPT ![c] = [fresh EXCEPT !.at = "fetch"]]
            /\ FetchToken(c)
      /\ UNCHANGED <<cookie, store, made, cached, performed, faults, ends>>

Busy(t, kind) == \E d \in Calls : TabOf[d] = t /\ call[d].at # "idle" /\ call[d].kind = kind

\* SessionProvider asks for /me when it is mounted.
Open(c) ==
  /\ status[TabOf[c]] = "closed"
  /\ status' = [status EXCEPT ![TabOf[c]] = "loading"]
  /\ Prepare(c, "me")

\* The shell and its pages.
Use(c) ==
  /\ status[TabOf[c]] = "authenticated"
  /\ \E kind \in {"load", "save"} : Prepare(c, kind)
  /\ UNCHANGED status

SignOut(c) ==
  /\ status[TabOf[c]] = "authenticated" /\ ~Busy(TabOf[c], "logout")
  /\ Prepare(c, "logout")
  /\ UNCHANGED status

\* The login page is what an anonymous tab shows, and any tab at /login; its
\* button is disabled while it is busy.
SignIn(c) ==
  /\ status[TabOf[c]] \in {"anonymous", "authenticated"} /\ ~Busy(TabOf[c], "login")
  /\ Prepare(c, "login")
  /\ UNCHANGED status

\* The calls that the answer to c's fetch is for.
Sharers(c) == {c} \cup {d \in Calls : call[d].at = "wait" /\ call[d].on = c}

\* The token arrives: it is remembered and every sharer sends its request.
Fetched(c) ==
  /\ call[c].at = "fetched"
  /\ cookie' = IF call[c].sets THEN call[c].sid ELSE cookie
  /\ cached' = [cached EXCEPT ![TabOf[c]] = call[c].token]
  /\ fetching' = [fetching EXCEPT ![TabOf[c]] = NoCall]
  /\ call' = [d \in Calls |->
                IF d \notin Sharers(c) THEN call[d]
                ELSE [call[d] EXCEPT !.at = "request", !.token = call[c].token, !.sid = cookie',
                                     !.sets = FALSE, !.on = NoCall]]
  /\ UNCHANGED <<store, made, status, performed, told, asks, faults, ends>>

\* A slip for the mutation runs: whatever was refused is sent again.
RetriesRefusals(c) ==
  call[c].answer \in {"badCsrf", "refused"} /\ call[c].kind \in Unsafe /\ ~call[c].retried

Retries(c) ==
  call[c].answer = "badCsrf" /\ call[c].kind \in Unsafe /\ ~call[c].retried

\* A slip: the second try takes the token that is remembered.
RetryUnforced(c) ==
  /\ call[c].at = "answered" /\ Retries(c)
  /\ call' = [call EXCEPT ![c] = [@ EXCEPT !.at = "request", !.sid = cookie,
                                           !.token = cached[TabOf[c]],
                                           !.answer = "none", !.retried = TRUE]]
  /\ UNCHANGED <<cookie, store, made, status, cached, fetching, performed, told, asks, faults, ends>>

\* After a CSRF refusal, once: a forced fetch.
Retry(c) ==
  /\ call[c].at = "answered" /\ Retries(c)
  /\ call' = [call EXCEPT ![c] = [@ EXCEPT !.at = "fetch", !.sid = cookie, !.token = 0,
                                           !.answer = "none", !.retried = TRUE]]
  /\ FetchToken(c)
  /\ UNCHANGED <<cookie, store, made, status, cached, performed, told, asks, faults, ends>>

Verdict(answer) ==
  CASE answer = "ok" -> "done"
    [] answer \in {"refused", "wrongCode"} -> "refused"
    [] answer = "badCsrf" -> "badToken"
    [] OTHER -> "turnedAway"

\* Every 401 clears the token and raises session-expired, whose listener puts
\* the tab on the login page.
Is401(answer) == answer \in {"noSession", "wrongCode"}

\* A slip: a sign-in that fails puts the answer where the status belongs.
ShownVerbatim(t, kinds, answer) ==
  CASE answer = "ok" /\ kinds \cap {"me", "login"} # {} -> "authenticated"
    [] kinds \cap {"me", "logout"} # {} -> "anonymous"
    [] OTHER -> IF Is401(answer) THEN answer ELSE status[t]

\* refresh (of /me), adopt (of a sign-in), signOut and onExpired: the picture
\* of the tab when calls of these kinds end with this answer.
Shown(t, kinds, answer) ==
  CASE answer = "ok" /\ kinds \cap {"me", "login"} # {} -> "authenticated"
    [] kinds \cap {"me", "logout"} # {} \/ Is401(answer) -> "anonymous"
    [] OTHER -> status[t]

\* clearCsrfToken, on the same occasions.
Forgets(kinds, answer) ==
  Is401(answer) \/ "logout" \in kinds \/ ("me" \in kinds /\ answer # "ok")

\* Calls of tab t end and the user is told.
Settle(t, C, answer, verdict) ==
  LET kinds == {call[c].kind : c \in C}
  IN  /\ status' = [status EXCEPT ![t] = Shown(t, kinds, answer)]
      /\ cached' = [cached EXCEPT ![t] = IF Forgets(kinds, answer) THEN 0 ELSE @]
      /\ call' = [c \in Calls |-> IF c \in C THEN Idle ELSE call[c]]
      /\ performed' = [c \in Calls |-> IF c \in C THEN 0 ELSE performed[c]]
      /\ told' = [of |-> C, verdict |-> verdict]

Finish(c) ==
  /\ call[c].at = "answered" /\ ~Retries(c)
  /\ cookie' = IF call[c].sets THEN call[c].sid ELSE cookie
  /\ Settle(TabOf[c], {c}, call[c].answer, Verdict(call[c].answer))
  /\ UNCHANGED <<store, made, fetching, asks, faults, ends>>

\* A slip: who waited for a fetch that failed is not woken.
LoseAlone(c) ==
  /\ call[c].at \in {"fetch", "fetched", "request", "answered"} /\ faults < MaxFaults
  /\ faults' = faults + 1
  /\ Settle(TabOf[c], {c}, "none", "unknown")
  /\ fetching' = IF call[c].at \in {"fetch", "fetched"}
                 THEN [fetching EXCEPT ![TabOf[c]] = NoCall] ELSE fetching
  /\ UNCHANGED <<cookie, store, made, asks, ends>>

\* fetch rejects: the request or its answer is lost, with the token everybody
\* who shares it.
Lose(c) ==
  /\ call[c].at \in {"fetch", "fetched", "request", "answered"} /\ faults < MaxFaults
  /\ faults' = faults + 1
  /\ LET tokenLost == call[c].at \in {"fetch", "fetched"}
         C == IF tokenLost THEN Sharers(c) ELSE {c}
     IN  /\ Settle(TabOf[c], C, "none", "unknown")
         /\ fetching' = IF tokenLost THEN [fetching EXCEPT ![TabOf[c]] = NoCall] ELSE fetching
  /\ UNCHANGED <<cookie, store, made, asks, ends>>

-----------------------------------------------------------------------------
(* The server's steps *)

\* A slip: every fetch of a token starts a session of its own.
AnswerFetchAnew(c) ==
  /\ call[c].at = "fetch"
  /\ made' = made + 1
  /\ store' = [store EXCEPT ![made + 1] = [user |-> FALSE, token |-> made + 1]]
  /\ call' = [call EXCEPT ![c] = [@ EXCEPT !.at = "fetched", !.token = made + 1,
                                           !.sid = made + 1, !.sets = TRUE]]
  /\ UNCHANGED <<cookie, status, cached, fetching, performed, told, asks, faults, ends>>

\* issueCsrfToken and csrfTokenHandler: the token of the row, or a new row.
AnswerFetch(c) ==
  /\ call[c].at = "fetch"
  /\ \/ /\ Row(call[c].sid).token # 0
        /\ call' = [call EXCEPT ![c] = [@ EXCEPT !.at = "fetched", !.token = Row(call[c].sid).token]]
        /\ UNCHANGED <<store, made>>
     \/ /\ Row(call[c].sid).token = 0
        /\ made' = made + 1
        /\ store' = [store EXCEPT ![made + 1] = [user |-> FALSE, token |-> made + 1]]
        /\ call' = [call EXCEPT ![c] = [@ EXCEPT !.at = "fetched", !.token = made + 1,
                                                 !.sid = made + 1, !.sets = TRUE]]
  /\ UNCHANGED <<cookie, status, cached, fetching, performed, told, asks, faults, ends>>

Reply(c, answer) ==
  call' = [call EXCEPT ![c] = [@ EXCEPT !.at = "answered", !.answer = answer]]

ClientWaits == UNCHANGED <<cookie, status, cached, fetching, told, asks, faults, ends>>

\* A slip: the token is checked after the handler has run.
RejectTokenLate(c) ==
  /\ call[c].at = "request" /\ ~TokenMatches(c)
  /\ Reply(c, "badCsrf")
  /\ performed' = [performed EXCEPT ![c] = @ + 1]
  /\ ClientWaits /\ UNCHANGED <<store, made>>

\* csrfProtection stands before every router.
RejectToken(c) ==
  /\ call[c].at = "request" /\ ~TokenMatches(c)
  /\ Reply(c, "badCsrf")
  /\ ClientWaits /\ UNCHANGED <<store, made, performed>>

\* requireAuth, on every route but the sign-in.
RejectUser(c) ==
  /\ call[c].at = "request" /\ TokenMatches(c)
  /\ call[c].kind # "login" /\ ~SignedIn(call[c].sid)
  /\ Reply(c, "noSession")
  /\ ClientWaits /\ UNCHANGED <<store, made, performed>>

\* Any other handler: it answers, it refuses, or it answers 401 to a wrong code.
Serve(c) ==
  /\ call[c].at = "request" /\ TokenMatches(c)
  /\ call[c].kind \in {"me", "load", "save"} /\ SignedIn(call[c].sid)
  /\ performed' = [performed EXCEPT ![c] = @ + 1]
  /\ \E answer \in {"ok", "refused", "wrongCode"} :
        /\ answer # "ok" => call[c].kind = "save"
        /\ Reply(c, answer)
  /\ ClientWaits /\ UNCHANGED <<store, made>>

\* POST /logout: destroySession and clearCookie.
EndSession(c) ==
  /\ call[c].at = "request" /\ TokenMatches(c)
  /\ call[c].kind = "logout" /\ SignedIn(call[c].sid)
  /\ performed' = [performed EXCEPT ![c] = @ + 1]
  /\ store' = [store EXCEPT ![call[c].sid] = NoRow]
  /\ call' = [call EXCEPT ![c] = [@ EXCEPT !.at = "answered", !.answer = "ok",
                                           !.sid = NoSid, !.sets = TRUE]]
  /\ ends' = ends + 1
  /\ UNCHANGED <<cookie, made, status, cached, fetching, told, asks, faults>>

\* A factor is checked, which takes a while, on the session as it was loaded.
CheckFactor(c) ==
  /\ call[c].at = "request" /\ TokenMatches(c) /\ call[c].kind = "login"
  /\ call' = [call EXCEPT ![c].at = "handler"]
  /\ ClientWaits /\ UNCHANGED <<store, made, performed>>

RejectFactor(c) ==
  /\ call[c].at = "handler"
  /\ performed' = [performed EXCEPT ![c] = @ + 1]
  /\ Reply(c, "wrongCode")
  /\ ClientWaits /\ UNCHANGED <<store, made>>

\* establishSession through regenerateSession: the old row goes and the token
\* moves to the new one.
EstablishSession(c) ==
  /\ call[c].at = "handler"
  /\ performed' = [performed EXCEPT ![c] = @ + 1]
  /\ made' = made + 1
  /\ ends' = IF SignedIn(call[c].sid) THEN ends + 1 ELSE ends
  /\ store' = [store EXCEPT ![call[c].sid] = NoRow,
                            ![made + 1] = [user |-> TRUE, token |-> call[c].token]]
  /\ call' = [call EXCEPT ![c] = [@ EXCEPT !.at = "answered", !.answer = "ok",
                                           !.sid = made + 1, !.sets = TRUE]]
  /\ UNCHANGED <<cookie, status, cached, fetching, told, asks, faults>>

\* The row expires, or its user is deactivated.
Lapse(sid) ==
  /\ SignedIn(sid) /\ faults < MaxFaults
  /\ faults' = faults + 1 /\ ends' = ends + 1
  /\ \E row \in {NoRow, [store[sid] EXCEPT !.user = FALSE]} : store' = [store EXCEPT ![sid] = row]
  /\ UNCHANGED <<cookie, made, status, cached, fetching, call, performed, told, asks>>

-----------------------------------------------------------------------------

Init ==
  \* no cookie, or one whose session lives, of tabs that may be open still
  \* and may have sent something already
  /\ made \in {0, 1} /\ cookie = made
  /\ store = [s \in Sids |-> IF s <= made THEN [user |-> TRUE, token |-> s] ELSE NoRow]
  /\ \E Visited \in IF made = 0 THEN {{}} ELSE SUBSET Tabs :
        /\ status = [t \in Tabs |-> IF t \in Visited THEN "authenticated" ELSE "closed"]
        /\ \E Used \in SUBSET Visited : cached = [t \in Tabs |-> IF t \in Used THEN made ELSE 0]
  /\ fetching = [t \in Tabs |-> NoCall]
  /\ call = [c \in Calls |-> Idle]
  /\ performed = [c \in Calls |-> 0]
  /\ told = Silence
  /\ steady = [c \in Calls |-> TRUE]
  /\ asks = 0 /\ faults = 0 /\ ends = 0

\* What a call does without the user.
Progress(c) ==
  \/ Fetched(c) \/ Retry(c) \/ Finish(c)
  \/ AnswerFetch(c) \/ RejectToken(c) \/ RejectUser(c) \/ Serve(c) \/ EndSession(c)
  \/ CheckFactor(c) \/ RejectFactor(c) \/ EstablishSession(c)

\* The watch of a call begins when it is asked for, and again when its token
\* is looked up for the cookie the browser still has.
Watched(c) ==
  \/ call'[c].at = "idle"
  \/ call[c].at = "idle"
  \/ call[c].at = "fetch" /\ call'[c].at = "fetched" /\ call[c].sid = cookie
  \/ /\ steady[c]
     /\ cookie' = cookie \/ (call[c].at = "fetched" /\ call'[c].at = "request")
     /\ \A s \in Sids : store[s] # NoRow => store'[s] = store[s]

Watch == steady' = [c \in Calls |-> Watched(c)]

Next ==
  /\ \/ \E c \in Calls : Open(c) \/ Use(c) \/ SignOut(c) \/ SignIn(c) \/ Lose(c) \/ Progress(c)
     \/ \E s \in Sids : Lapse(s)
  /\ Watch

Spec == Init /\ [][Next]_vars

\* A fetch is answered or fails, and a handler returns.
FairSpec == Spec /\ \A c \in Calls : WF_vars(Progress(c) /\ Watch)

-----------------------------------------------------------------------------

\* The promise of request() in client/src/api/client.ts: the retry never does twice what was asked once,
\* and the user is told what happened.
Promise == INSTANCE UserCalls WITH open <- {c \in Calls : call[c].at # "idle"}
PromiseKept == Promise!Spec

Lone == \E t \in Tabs : \A u \in Tabs : status[u] # "closed" <=> u = t
Quiet == \A c \in Calls : call[c].at = "idle"

\* A tab that shows the workspace has a live session, as long as it is the
\* only tab and no session has ended: establishSession, its cookie and the
\* fetches of tokens never leave it behind (app/session.tsx adopt).
WorkspaceIsLive ==
  \A t \in Tabs : status[t] = "authenticated" /\ Lone /\ ends = 0 => SignedIn(cookie)

\* One retry is enough: nobody is told to refresh the page for the sake of a
\* token unless the session moved under the call (request, csrfProtection).
RetryIsEnough ==
  \A c \in Calls :
     call[c].at = "answered" /\ call[c].answer = "badCsrf" /\ ~Retries(c) => ~steady[c]

\* A lone tab that has come to rest on the login page has no live session, if
\* neither the network has failed nor a session lapsed: what ARCHITECTURE.md says of app/session.tsx.
\* The code breaks it.
LoginMeansSignedOut ==
  \A t \in Tabs : status[t] = "anonymous" /\ Lone /\ Quiet /\ faults = 0 => ~SignedIn(cookie)

\* Whoever waits for a token waits for a fetch of the same tab that is still under
\* way, and so does whoever comes next: a shared fetch that has been answered, lost
\* or forced anew leaves nobody behind (ensureCsrfToken, csrfRequest).
UnderFetch(t) == {c \in Calls : TabOf[c] = t /\ call[c].at \in {"fetch", "fetched"}}
WaitersAwaited ==
  /\ \A c \in Calls : call[c].at = "wait" => call[c].on \in UnderFetch(TabOf[c])
  /\ \A t \in Tabs : fetching[t] # NoCall => fetching[t] \in UnderFetch(t)

\* Every call ends: no chain of waiting and retrying goes on for ever
\* (ensureCsrfToken, request).
CallsEnd == \A c \in Calls : call[c].at # "idle" ~> call[c].at = "idle"

=============================================================================
