------------------------------ MODULE Endpoints ------------------------------
(***************************************************************************)
(* The proof that a number is its owner's: server/services/endpoints.ts    *)
(* and routes/endpoints.ts, statement by statement, with the               *)
(* requests that the tabs of one person have under way: a page             *)
(* (features/endpoints/EndpointsPage.tsx) waits for one at a time, and one *)
(* that was reloaded leaves its own behind.                                *)
(*                                                                         *)
(* Codes are numbered in the order of their requested_at; the number       *)
(* stands for the row, the six digits and their SMS.                       *)
(***************************************************************************)
EXTENDS Naturals, FiniteSets

CONSTANTS
  Endpoints,   \* endpoints of the person
  Slots,       \* requests under way at a time
  Limit,       \* MAX_CODE_ATTEMPTS
  MaxCodes,    \* bound: codes ever made
  MaxPosts     \* bound: requests ever posted

ASSUME EndpointsAssumption ==
  /\ Limit \in Nat \ {0} /\ MaxCodes \in Nat /\ MaxPosts \in Nat
  /\ IsFiniteSet(Slots)

Nothing == "nothing"
NoCode == 0
Codes == 1 .. MaxCodes

VARIABLES
  remote,    \* the codes are made and compared by the provider (Termii OTP)
  endpoint,  \* admin_endpoints
  code,      \* endpoint_verifications
  made,      \* codes made so far
  request,
  acked,     \* ghost: codes whose sending was reported to the page
  alone,     \* ghost: codes whose request met no other one for its endpoint since
  dead,      \* ghost: codes from before a later request that was answered
  tries,     \* ghost: comparisons begun with a code
  posts

server == <<endpoint, code, made>>
ghosts == <<acked, alone, dead, tries>>
vars == <<remote, server, request, ghosts, posts>>

Kinds == {"create", "resend", "confirm"}
\* posted; the endpoint is read; and then either the old codes are deleted and
\* the new one is inserted, or the code is read and the attempt is counted.
Steps == {"idle", "posted", "found", "cleared", "inserted", "read", "counted", "answered"}
Answers == {"none", "done", "already", "wrong", "expired", "locked", "unsent", "conflict", "failed"}
Idle == [kind |-> "confirm", of |-> Nothing, at |-> "idle", known |-> FALSE, code |-> NoCode, seen |-> {},
         guess |-> NoCode, older |-> {}, good |-> FALSE, denied |-> FALSE, answer |-> "none"]

NotYet == [of |-> Nothing, row |-> "none", attempts |-> 0, recorded |-> FALSE, expired |-> FALSE]
Requests ==
  [kind : Kinds, of : Endpoints \cup {Nothing}, at : Steps, known : BOOLEAN,
   code : 0 .. MaxCodes, seen : SUBSET Codes, guess : 0 .. MaxCodes,
   older : SUBSET Codes, good : BOOLEAN, denied : BOOLEAN, answer : Answers]
Rows ==
  [of : Endpoints \cup {Nothing}, row : {"none", "live", "consumed"},
   attempts : Nat, recorded : BOOLEAN, expired : BOOLEAN]

TypeOK ==
  /\ remote \in BOOLEAN
  /\ endpoint \in [Endpoints -> [exists : BOOLEAN, verified : 0 .. MaxCodes]]
  /\ code \in [Codes -> Rows]
  /\ made \in 0 .. MaxCodes
  /\ request \in [Slots -> Requests]
  /\ acked \subseteq Codes /\ alone \subseteq Codes /\ dead \subseteq Codes
  /\ tries \in [Codes -> Nat] /\ posts \in 0 .. MaxPosts

-----------------------------------------------------------------------------
(* The pages of the person *)

Of(e) == {c \in Codes : code[c].of = e}
UnderWay(s) == request[s].at \notin {"idle", "answered"}
\* Requests that make a code for e.
MakesCode(s, e) == request[s].kind \in {"create", "resend"} /\ request[s].of = e

Post(s, r) ==
  /\ request[s] = Idle
  /\ posts < MaxPosts
  /\ posts' = posts + 1
  /\ request' = [request EXCEPT ![s] = r]
  /\ alone' = IF r.kind \in {"create", "resend"} THEN alone \ Of(r.of) ELSE alone
  /\ UNCHANGED <<remote, server, acked, dead, tries>>

\* create, with a draft that both sides find in order.
PostCreate(s) ==
  \E e \in Endpoints :
    /\ ~endpoint[e].exists /\ \A t \in Slots : ~(UnderWay(t) /\ MakesCode(t, e))
    /\ Post(s, [Idle EXCEPT !.kind = "create", !.of = e, !.at = "posted"])

\* resend, and "Verify" and confirmCode with digits of an SMS or any others, for
\* an endpoint that the list, however old, calls not verified.
PostResend(s) ==
  \E e \in Endpoints :
    /\ endpoint[e].exists
    /\ Post(s, [Idle EXCEPT !.kind = "resend", !.of = e, !.at = "posted", !.older = Of(e) \cap acked])

\* A slip: whatever is typed is posted, six digits or not.
PostConfirmUnchecked(s) ==
  \E e \in Endpoints : \E c \in Of(e) \cup {NoCode, MaxCodes + 1} :
    /\ endpoint[e].exists
    /\ Post(s, [Idle EXCEPT !.kind = "confirm", !.of = e, !.at = "posted", !.guess = c, !.older = dead,
                            !.good = c \in acked \cap alone])

PostConfirm(s) ==
  \E e \in Endpoints : \E c \in Of(e) \cup {NoCode} :
    /\ endpoint[e].exists
    /\ Post(s, [Idle EXCEPT !.kind = "confirm", !.of = e, !.at = "posted", !.guess = c, !.older = dead,
                            !.good = c \in acked \cap alone])

\* The answer arrives, at the page or nowhere: the page was left meanwhile.
Told(s) ==
  LET r == request[s]
  IN  /\ r.at = "answered"
      /\ request' = [request EXCEPT ![s] = Idle]
      /\ \/ r.kind \in {"create", "resend"} /\ r.answer = "done" /\ acked' = acked \cup {r.code}
         \/ UNCHANGED acked
      /\ UNCHANGED <<remote, server, alone, dead, tries, posts>>

-----------------------------------------------------------------------------
(* The handlers *)

AnswerWith(s, answer) ==
  request' = [request EXCEPT ![s].at = "answered", ![s].answer = answer, ![s].seen = {}, ![s].known = FALSE]

\* createEndpoint inserts the endpoint; the resend and confirm routes
\* read it (assertManageableEndpoint) and stop at one that is verified.  A
\* request for a code then takes its timestamp and draws the code.
Find(s) ==
  LET e == request[s].of
      kind == request[s].kind
  IN  /\ request[s].at = "posted"
      /\ endpoint' = IF kind = "create" THEN [endpoint EXCEPT ![e] = [exists |-> TRUE, verified |-> NoCode]]
                     ELSE endpoint
      /\ \/ /\ endpoint[e].verified # NoCode
            /\ AnswerWith(s, IF kind = "confirm" THEN "already" ELSE "conflict")
            /\ UNCHANGED <<code, made, alone>>
         \/ /\ endpoint[e].verified = NoCode /\ kind = "confirm"
            /\ request' = [request EXCEPT ![s].at = "found"]
            /\ UNCHANGED <<code, made, alone>>
         \/ /\ endpoint[e].verified = NoCode /\ kind # "confirm" /\ made < MaxCodes
            /\ made' = made + 1
            /\ code' = [code EXCEPT ![made + 1].of = e]
            /\ request' = [request EXCEPT ![s].at = "found", ![s].code = made + 1]
            /\ alone' = IF \E t \in Slots \ {s} : UnderWay(t) /\ MakesCode(t, e) THEN alone
                        ELSE alone \cup {made + 1}
      /\ UNCHANGED <<remote, acked, dead, tries, posts>>

Live(e) == {c \in Of(e) : code[c].row = "live"}

\* A slip: the code before this one is left for the case that the SMS fails.
ClearNone(s) ==
  /\ request[s].at = "found" /\ request[s].kind # "confirm"
  /\ request' = [request EXCEPT ![s].at = "cleared"]
  /\ UNCHANGED <<remote, server, ghosts, posts>>

\* A slip: the DELETE forgets whose codes it is after.
ClearAll(s) ==
  /\ request[s].at = "found" /\ request[s].kind # "confirm"
  /\ request' = [request EXCEPT ![s].at = "cleared", ![s].seen = {c \in Codes : code[c].row = "live"}]
  /\ UNCHANGED <<remote, server, ghosts, posts>>

\* The DELETE of requestEndpointVerification: it sees what is committed by now.
Clear(s) ==
  /\ request[s].at = "found" /\ request[s].kind # "confirm"
  /\ request' = [request EXCEPT ![s].at = "cleared", ![s].seen = Live(request[s].of)]
  /\ UNCHANGED <<remote, server, ghosts, posts>>

\* The INSERT and the commit.
Insert(s) ==
  /\ request[s].at = "cleared"
  /\ code' = [c \in Codes |->
                IF c = request[s].code THEN [code[c] EXCEPT !.row = "live"]
                ELSE IF c \in request[s].seen /\ code[c].row = "live" THEN [code[c] EXCEPT !.row = "none"]
                ELSE code[c]]
  /\ request' = [request EXCEPT ![s].at = "inserted", ![s].seen = {}]
  /\ UNCHANGED <<remote, endpoint, made, ghosts, posts>>

\* The SMS is sent and the provider is written down, or there is an error,
\* the SMS being under way or not, and the row is deleted.
Send(s) ==
  LET c == request[s].code
  IN  /\ request[s].at = "inserted"
      /\ \/ /\ code' = [code EXCEPT ![c].recorded = code[c].row # "none"]
            /\ AnswerWith(s, "done")
         \/ /\ code' = [code EXCEPT ![c].row = "none"]
            /\ AnswerWith(s, "unsent")
      /\ dead' = dead \cup request[s].older
      /\ UNCHANGED <<remote, endpoint, made, acked, alone, tries, posts>>

Newest(cs) == CHOOSE c \in cs : \A d \in cs : d <= c

\* A slip: one attempt too many.
ReadOneMore(s) ==
  LET live == Live(request[s].of)
      c == Newest(live)
  IN  /\ request[s].at = "found" /\ request[s].kind = "confirm"
      /\ \/ live = {} /\ AnswerWith(s, "expired")
         \/ live # {} /\ code[c].expired /\ AnswerWith(s, "expired")
         \/ live # {} /\ ~code[c].expired /\ code[c].attempts > Limit /\ AnswerWith(s, "locked")
         \/ /\ live # {} /\ ~code[c].expired /\ code[c].attempts <= Limit
            /\ request' = [request EXCEPT ![s].at = "read", ![s].code = c, ![s].known = code[c].recorded]
      /\ UNCHANGED <<remote, server, ghosts, posts>>

\* confirmEndpointVerification reads the newest code that is not consumed.
Read(s) ==
  LET live == Live(request[s].of)
      c == Newest(live)
  IN  /\ request[s].at = "found" /\ request[s].kind = "confirm"
      /\ \/ live = {} /\ AnswerWith(s, "expired")
         \/ live # {} /\ code[c].expired /\ AnswerWith(s, "expired")
         \/ live # {} /\ ~code[c].expired /\ code[c].attempts >= Limit /\ AnswerWith(s, "locked")
         \/ /\ live # {} /\ ~code[c].expired /\ code[c].attempts < Limit
            /\ request' = [request EXCEPT ![s].at = "read", ![s].code = c, ![s].known = code[c].recorded]
      /\ UNCHANGED <<remote, server, ghosts, posts>>

\* A row that was deleted meanwhile counts nothing; the comparison follows.
Count(s) ==
  LET c == request[s].code
  IN  /\ request[s].at = "read"
      /\ code' = [code EXCEPT ![c].attempts = IF code[c].row = "none" THEN @ ELSE @ + 1]
      /\ request' = [request EXCEPT ![s].at = "counted"]
      /\ tries' = [tries EXCEPT ![c] = @ + 1]
      /\ UNCHANGED <<remote, endpoint, made, acked, alone, dead, posts>>

\* The comparison, by the provider once it is known that the code is the
\* provider's (unless it is Deny), or with the digits that were drawn here, which
\* nobody was sent if the provider drew its own; if it holds, the transaction that consumes the code, if it is
\* still there, and verifies the endpoint.
Judge(s) ==
  LET c == request[s].code
      e == request[s].of
      right == request[s].guess = c /\ (remote => request[s].known)
  IN  /\ request[s].at = "counted"
      /\ IF right
         THEN /\ endpoint' = [endpoint EXCEPT ![e].verified = c]
              /\ code' = [code EXCEPT ![c].row = IF @ = "live" THEN "consumed" ELSE @]
              /\ AnswerWith(s, "done")
         ELSE AnswerWith(s, "wrong") /\ UNCHANGED <<endpoint, code>>
      /\ UNCHANGED <<remote, made, ghosts, posts>>

\* The provider does not say that the right digits are right: its key is missing,
\* its answer is an error, cannot be read or says no.  The page is told what it is
\* told of wrong digits, and the attempt stays counted.
Deny(s) ==
  /\ request[s].at = "counted"
  /\ remote /\ request[s].known /\ request[s].guess = request[s].code
  /\ request' = [request EXCEPT ![s] = [@ EXCEPT !.at = "answered", !.answer = "wrong", !.denied = TRUE,
                                                !.seen = {}, !.known = FALSE]]
  /\ UNCHANGED <<remote, server, ghosts, posts>>

\* A statement fails, the provider cannot be reached, or the process stops.
Break(s) ==
  /\ UnderWay(s)
  /\ AnswerWith(s, "failed")
  /\ UNCHANGED <<remote, server, ghosts, posts>>

\* Ten minutes are over.
Expire(c) ==
  /\ code[c].row = "live" /\ ~code[c].expired
  /\ code' = [code EXCEPT ![c].expired = TRUE]
  /\ UNCHANGED <<remote, endpoint, made, request, ghosts, posts>>

-----------------------------------------------------------------------------

\* Some endpoints are there, not verified, each with the code it was sent.
Init ==
  /\ remote \in BOOLEAN
  /\ made \in 0 .. MaxCodes
  /\ \E owner \in [1 .. made -> Endpoints] :
       /\ \A c, d \in 1 .. made : c # d => owner[c] # owner[d]
       /\ endpoint = [e \in Endpoints |-> [exists |-> \E c \in 1 .. made : owner[c] = e, verified |-> NoCode]]
       /\ code = [c \in Codes |-> IF c <= made THEN [NotYet EXCEPT !.of = owner[c], !.row = "live", !.recorded = TRUE]
                                  ELSE NotYet]
  /\ request = [s \in Slots |-> Idle]
  /\ acked = 1 .. made /\ alone = 1 .. made /\ dead = {} /\ tries = [c \in Codes |-> 0] /\ posts = 0

Asks(s) == PostCreate(s) \/ PostResend(s) \/ PostConfirm(s)
Handles(s) ==
  \/ Find(s) \/ Clear(s) \/ Insert(s) \/ Send(s)
  \/ Read(s) \/ Count(s) \/ Judge(s) \/ Deny(s) \/ Break(s)

Next ==
  \/ \E s \in Slots : Asks(s) \/ Handles(s) \/ Told(s)
  \/ \E c \in Codes : Expire(c)

Spec == Init /\ [][Next]_vars

-----------------------------------------------------------------------------

\* However many confirmations race between the read of the attempts and their
\* count, a code is compared at most Limit times and once more for every other
\* request under way (services/endpoints.ts, MAX_CODE_ATTEMPTS).
TriesBounded == \A c \in Codes : tries[c] < Limit + Cardinality(Slots)

\* A code from before a later request that was answered, with an SMS or with
\* an error, never again verifies anything (requestEndpointVerification
\* deletes before it sends, and a failed SMS brings nothing back).
OldCodeDead ==
  \A s \in Slots : request[s].kind = "confirm" /\ request[s].answer = "done" =>
     request[s].guess \notin request[s].older

\* The code that the page was told of last, with no other request for one since,
\* is called wrong only by the provider that was asked about it, expired only if it
\* has expired or has verified the endpoint, and locked only after Limit attempts
\* (confirmEndpointVerification, verifyTermiiOtp).
RightCodeWorks ==
  \A s \in Slots :
     LET r == request[s]
         c == r.guess
     IN  r.good /\ c \in alone =>
           /\ r.answer = "wrong" => remote /\ r.denied
           /\ r.answer = "expired" => code[c].expired \/ endpoint[r.of].verified # NoCode
           /\ r.answer = "locked" => code[c].attempts >= Limit
=============================================================================
