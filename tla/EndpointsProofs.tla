--------------------------- MODULE EndpointsProofs ---------------------------
(* Verification codes, proved for any endpoints, requests and limit.       *)
EXTENDS Endpoints, FiniteSetTheorems, WellFoundedInduction, TLAPS

\* The newest of some codes is one of them.
LEMMA NewestIs ==
  ASSUME NEW cs \in SUBSET Codes, cs # {} PROVE Newest(cs) \in cs
<1> DEFINE Above(c) == {d \in cs : d > c}
           T == {Above(c) : c \in cs}
           Finite == FiniteSubsetsOf(Codes)
<1>1. IsFiniteSet(Codes)
  BY EndpointsAssumption, FS_Interval DEF Codes
<1>2. T \subseteq Finite /\ T # {}
  <2>1. Finite = SUBSET Codes
    BY <1>1, FS_FiniteSubsetsOfFinite
  <2> HIDE DEF Finite
  <2> QED BY <2>1
<1>3. IsWellFoundedOn(StrictSubsetOrdering(Codes), Finite)
  BY FS_StrictSubsetOrderingWellFounded
<1>4. PICK a \in T : \A b \in T : ~ (<<b, a>> \in StrictSubsetOrdering(Codes))
  <2> HIDE DEF T, Finite
  <2> QED BY <1>2, <1>3, WFMin
<1>5. PICK c \in cs : a = Above(c)
  BY DEF T
<1>6. ASSUME NEW d \in cs, d > c PROVE FALSE
  <2>1. Above(d) \subseteq Above(c) /\ Above(d) # Above(c)
    <3>1. cs \subseteq Nat
      BY EndpointsAssumption DEF Codes
    <3>2. d \in Above(c)
      BY <1>6
    <3>3. d \notin Above(d)
      BY <3>1
    <3>4. ASSUME NEW x \in Above(d) PROVE x \in Above(c)
      <4>1. x \in cs /\ x > d
        OBVIOUS
      <4>2. x > c
        BY <1>6, <3>1, <4>1
      <4> QED BY <4>1, <4>2
    <3> QED BY <3>2, <3>3, <3>4
  <2>2. <<Above(d), Above(c)>> \in StrictSubsetOrdering(Codes)
    BY <2>1 DEF StrictSubsetOrdering
  <2> QED BY <1>4, <1>5, <2>2
<1>7. \A d \in cs : d <= c
  BY <1>6 DEF Codes
<1> QED BY <1>7 DEF Newest
-----------------------------------------------------------------------------
(* The inductive invariant *)

Known == 1 .. made

\* A request that has drawn a code and not yet inserted it.
Makes(s) == request[s].at = "cleared" \/ (request[s].at = "found" /\ request[s].kind # "confirm")

Readers(c) == {s \in Slots : request[s].at = "read" /\ request[s].code = c}

\* Nobody has ever compared anything with c.
Untouched(c) == code[c].row = "none" /\ tries[c] = 0 /\ Readers(c) = {}

Numbered ==
  /\ acked \subseteq Known /\ dead \subseteq Known
  /\ \A s \in Slots : request[s].code \in Known \cup {NoCode} /\ request[s].older \subseteq Known
  /\ \A c \in Codes \ Known : Untouched(c)

Staged ==
  \A s \in Slots :
    /\ request[s].at \in {"cleared", "inserted"} => request[s].kind # "confirm" /\ request[s].code \in Known
    /\ request[s].answer = "done" /\ request[s].kind # "confirm" => request[s].code \in Known
    /\ request[s].at \in {"read", "counted"} => request[s].kind = "confirm" /\ request[s].code \in Known
    /\ Makes(s) => request[s].code \in Known

\* A code is drawn by one request.
Own ==
  \A s, t \in Slots :
    s # t /\ request[s].kind # "confirm" /\ request[t].kind # "confirm" /\ request[s].code # NoCode
    => request[s].code # request[t].code

\* A code that is not inserted yet is unknown to everybody else.
Secret ==
  \A s \in Slots : Makes(s) =>
    /\ Untouched(request[s].code)
    /\ request[s].code \notin acked \cup dead
    /\ \A t \in Slots : request[s].code \notin request[t].older

\* As long as its row is there, the row counts every comparison.
Counted == \A c \in Codes : code[c].row # "none" => tries[c] <= code[c].attempts

\* A comparison was begun below the limit, or by one of the requests that
\* had read the row before.
Bounded == \A c \in Codes : tries[c] + Cardinality(Readers(c)) < Limit + Cardinality(Slots)

\* Codes from before a request for a code: of its endpoint, under its DELETE,
\* and gone when it inserts its own.
Doomed ==
  \A s \in Slots : request[s].kind # "confirm" => \A c \in request[s].older :
    /\ code[c].of = request[s].of
    /\ request[s].at = "cleared" /\ code[c].row = "live" => c \in request[s].seen
    /\ request[s].at = "inserted" => code[c].row # "live"

Gone ==
  /\ \A c \in dead : code[c].row # "live"
  /\ \A s \in Slots : request[s].kind = "confirm" =>
       /\ request[s].older \subseteq dead
       /\ request[s].at \in {"read", "counted"} => request[s].code \notin request[s].older
       /\ request[s].answer = "done" => request[s].guess \notin request[s].older

Inv == TypeOK /\ Numbered /\ Staged /\ Own /\ Secret /\ Counted /\ Bounded /\ Doomed /\ Gone

-----------------------------------------------------------------------------

LEMMA IdleRequest ==
  /\ Idle \in Requests /\ Idle.at = "idle" /\ Idle.kind = "confirm" /\ Idle.code = NoCode
  /\ Idle.older = {} /\ Idle.seen = {} /\ Idle.answer = "none"
BY EndpointsAssumption DEF Idle, Requests, Kinds, Steps, Answers, NoCode, Codes

LEMMA KnownCodes == ASSUME TypeOK PROVE Known \subseteq Codes /\ NoCode \notin Known
BY EndpointsAssumption DEF TypeOK, Known, Codes, NoCode

LEMMA SlotCount == Cardinality(Slots) \in Nat
BY EndpointsAssumption, FS_CardinalityType

LEMMA ReaderCount ==
  ASSUME NEW c
  PROVE  /\ IsFiniteSet(Readers(c)) /\ Cardinality(Readers(c)) \in Nat
         /\ Cardinality(Readers(c)) <= Cardinality(Slots)
<1>1. Readers(c) \in SUBSET Slots
  BY DEF Readers
<1> QED BY <1>1, EndpointsAssumption, FS_Subset, FS_CardinalityType

\* Fewer readers, no more comparisons.
LEMMA FewerReaders ==
  ASSUME NEW c \in Codes, TypeOK, Bounded, tries'[c] = tries[c], Readers(c)' \subseteq Readers(c)
  PROVE  tries'[c] + Cardinality(Readers(c)') < Limit + Cardinality(Slots)
<1>1. /\ Cardinality(Readers(c)') \in Nat /\ Cardinality(Readers(c)) \in Nat
      /\ Cardinality(Readers(c)') <= Cardinality(Readers(c))
  BY ReaderCount, FS_Subset, FS_CardinalityType
<1>2. tries[c] \in Nat /\ tries[c] + Cardinality(Readers(c)) < Limit + Cardinality(Slots)
  BY DEF Bounded, TypeOK
<1> QED BY <1>1, <1>2, SlotCount, EndpointsAssumption DEF Bounded, TypeOK

LEMMA InitInv == Init => Inv
<1> SUFFICES ASSUME Init PROVE Inv
  OBVIOUS
<1> USE EndpointsAssumption
<1>0. /\ made \in 0 .. MaxCodes /\ remote \in BOOLEAN /\ request = [s \in Slots |-> Idle]
      /\ acked = Known /\ alone = Known /\ dead = {} /\ tries = [c \in Codes |-> 0] /\ posts = 0
  BY DEF Init, Known
<1>1. made \in 0 .. MaxCodes /\ Known \subseteq Codes /\ \A c \in Codes : c \in Known <=> c <= made
  BY <1>0 DEF Known, Codes
<1>2. \A s \in Slots : request[s] = Idle
  BY <1>0
<1>3. PICK owner \in [1 .. made -> Endpoints] :
        /\ endpoint = [e \in Endpoints |-> [exists |-> \E c \in 1 .. made : owner[c] = e, verified |-> NoCode]]
        /\ code = [c \in Codes |-> IF c <= made THEN [NotYet EXCEPT !.of = owner[c], !.row = "live", !.recorded = TRUE]
                                   ELSE NotYet]
  BY DEF Init
<1>4. TypeOK
  <2>1. NotYet \in Rows
    BY DEF NotYet, Rows
  <2>2. ASSUME NEW c \in Codes, c <= made
        PROVE  [NotYet EXCEPT !.of = owner[c], !.row = "live", !.recorded = TRUE] \in Rows
    <3>1. owner[c] \in Endpoints
      BY <1>1, <2>2 DEF Codes
    <3> QED BY <2>1, <3>1 DEF Rows
  <2>3. code \in [Codes -> Rows]
    BY <1>3, <2>1, <2>2
  <2>4. endpoint \in [Endpoints -> [exists : BOOLEAN, verified : 0 .. MaxCodes]]
    <3>1. \A e \in Endpoints : [exists |-> \E c \in 1 .. made : owner[c] = e, verified |-> NoCode]
                                 \in [exists : BOOLEAN, verified : 0 .. MaxCodes]
      BY DEF NoCode
    <3> QED BY <1>3, <3>1
  <2>5. request \in [Slots -> Requests]
    BY <1>0, IdleRequest
  <2>6. tries \in [Codes -> Nat]
    BY <1>0
  <2> QED BY <1>0, <1>1, <2>3, <2>4, <2>5, <2>6 DEF TypeOK
<1>5. \A c : Readers(c) = {}
  BY <1>2, IdleRequest DEF Readers
<1>6. \A c \in Codes : tries[c] = 0
  BY <1>0
<1>7. Numbered
  <2>1. \A c \in Codes \ Known : code[c] = NotYet
    BY <1>1, <1>3
  <2> QED BY <1>0, <1>2, <1>5, <1>6, <2>1, IdleRequest DEF Numbered, Untouched, NotYet
<1>8. Staged /\ Own /\ Secret
  BY <1>2, IdleRequest DEF Staged, Own, Secret, Makes
<1>9. Counted
  BY <1>4, <1>6 DEF Counted, TypeOK, Rows
<1>10. Bounded
  <2>1. \A c : Cardinality(Readers(c)) = 0
    BY <1>5, FS_EmptySet
  <2> QED BY <1>6, <2>1, SlotCount DEF Bounded
<1>11. Doomed /\ Gone
  BY <1>0, <1>2, IdleRequest DEF Doomed, Gone
<1> QED BY <1>4, <1>7, <1>8, <1>9, <1>10, <1>11 DEF Inv

-----------------------------------------------------------------------------
(* The steps *)

\* An action that ends a request, and may take rows away.
Ending(s, r) ==
  /\ request' = [request EXCEPT ![s] = r] /\ r \in Requests
  /\ r.at \in {"idle", "answered"}
  /\ \/ r.code = NoCode /\ r.older = {} /\ r.kind = "confirm" /\ r.answer # "done"
     \/ /\ r.kind = request[s].kind /\ r.code = request[s].code /\ r.of = request[s].of
        /\ r.older = request[s].older /\ r.guess = request[s].guess
  /\ made' = made /\ tries' = tries
  /\ code' \in [Codes -> Rows]
  /\ \A c \in Codes :
       /\ code'[c].of = code[c].of /\ code'[c].attempts = code[c].attempts
       /\ code[c].row = "none" => code'[c].row = "none"
       /\ code'[c].row = "live" => code[c].row = "live"

LEMMA EndingKeeps ==
  ASSUME Inv, TypeOK', NEW s \in Slots, NEW r, Ending(s, r),
         \/ acked' = acked
         \/ /\ request[s].at = "answered" /\ request[s].kind # "confirm" /\ request[s].code # NoCode
            /\ acked' = acked \cup {request[s].code},
         dead \subseteq dead',
         \A c \in dead' : c \in Known /\ ~(\E t \in Slots : Makes(t) /\ request[t].code = c)
                         /\ code'[c].row # "live",
         r.answer = "done" => IF r.kind = "confirm" THEN r.guess \notin r.older ELSE r.code \in Known
  PROVE  Inv'
<1> USE DEF Ending
<1>1. \A t \in Slots : request'[t] = IF t = s THEN r ELSE request[t]
  BY DEF Inv, TypeOK
<1>2. \A t \in Slots : Makes(t)' => t # s /\ Makes(t)
  BY <1>1 DEF Makes
<1>3. \A c : Readers(c)' \subseteq Readers(c)
  BY <1>1 DEF Readers
<1>4. \A c \in Codes : Untouched(c) => Untouched(c)'
  BY <1>3 DEF Untouched, Inv
<1>5. Numbered'
  <2>1. acked' \subseteq Known
    BY DEF Inv, Numbered
  <2> QED BY <1>1, <1>4, <2>1 DEF Inv, Numbered, Known
<1>6. Staged'
  BY <1>1, <1>2 DEF Inv, Staged, Known
<1>7. Own'
  BY <1>1 DEF Inv, Own
<1>8. Secret'
  <2> SUFFICES ASSUME NEW t \in Slots, Makes(t)'
               PROVE  /\ Untouched(request[t].code)'
                      /\ request'[t].code \notin acked' \cup dead'
                      /\ \A u \in Slots : request'[t].code \notin request'[u].older
    BY DEF Secret
  <2>1. t # s /\ Makes(t) /\ request'[t] = request[t] /\ request[t].code \in Codes
    <3>1. t # s /\ Makes(t) /\ request'[t] = request[t]
      BY <1>1, <1>2
    <3>2. request[t].code \in Known
      BY <3>1 DEF Inv, Staged
    <3> QED BY <3>1, <3>2, KnownCodes DEF Inv
  <2>2. Untouched(request[t].code)'
    BY <1>4, <2>1 DEF Inv, Secret
  <2>3. request[t].code \notin acked'
    BY <2>1 DEF Inv, Secret, Own, Staged, Makes
  <2> QED BY <1>1, <2>1, <2>2, <2>3 DEF Inv, Secret
<1>9. Counted'
  BY DEF Inv, Counted, TypeOK, Rows
<1>10. Bounded'
  BY <1>3, FewerReaders DEF Inv, Bounded
<1>11. Doomed'
  BY <1>1 DEF Inv, Doomed, TypeOK, Requests
<1>12. Gone'
  BY <1>1 DEF Inv, Gone, TypeOK
<1> QED BY <1>5, <1>6, <1>7, <1>8, <1>9, <1>10, <1>11, <1>12 DEF Inv

-----------------------------------------------------------------------------
(* Types *)

LEMMA AnswerRecord ==
  ASSUME TypeOK, NEW s \in Slots, NEW answer \in Answers, AnswerWith(s, answer)
  PROVE  \E r \in Requests :
           /\ request' = [request EXCEPT ![s] = r] /\ request' \in [Slots -> Requests]
           /\ r.at = "answered" /\ r.answer = answer
           /\ r.kind = request[s].kind /\ r.code = request[s].code /\ r.of = request[s].of
           /\ r.older = request[s].older /\ r.guess = request[s].guess
<1> DEFINE r == [request[s] EXCEPT !.at = "answered", !.answer = answer, !.seen = {}, !.known = FALSE]
<1>1. request[s] \in Requests
  BY DEF TypeOK
<1>2. r \in Requests /\ r.at = "answered" /\ r.answer = answer
      /\ r.kind = request[s].kind /\ r.code = request[s].code /\ r.of = request[s].of
      /\ r.older = request[s].older /\ r.guess = request[s].guess
  BY <1>1 DEF Requests, Steps
<1>3. request' = [request EXCEPT ![s] = r]
  BY DEF AnswerWith
<1> HIDE DEF r
<1> QED BY <1>2, <1>3 DEF TypeOK

LEMMA PostType ==
  ASSUME TypeOK, NEW s \in Slots, NEW r \in Requests, Post(s, r) PROVE TypeOK'
BY EndpointsAssumption DEF Post, TypeOK, server

LEMMA AsksType ==
  ASSUME TypeOK, NEW s \in Slots, Asks(s)
  PROVE  TypeOK' /\ \E r \in Requests :
           /\ Post(s, r) /\ r.at = "posted" /\ r.code = NoCode /\ r.seen = {} /\ r.answer = "none"
           /\ \/ r.kind = "create" /\ r.older = {}
              \/ r.kind = "resend" /\ r.older = Of(r.of) \cap acked
              \/ r.kind = "confirm" /\ r.older = dead
<1>1. CASE PostCreate(s)
  <2>1. PICK e \in Endpoints : Post(s, [Idle EXCEPT !.kind = "create", !.of = e, !.at = "posted"])
    BY <1>1 DEF PostCreate
  <2> DEFINE r == [Idle EXCEPT !.kind = "create", !.of = e, !.at = "posted"]
  <2>2. /\ r \in Requests /\ r.at = "posted" /\ r.code = NoCode /\ r.seen = {} /\ r.answer = "none"
        /\ r.kind = "create" /\ r.older = {}
    BY IdleRequest DEF Requests, Kinds, Steps
  <2> HIDE DEF r
  <2>3. Post(s, r)
    BY <2>1 DEF r
  <2> QED BY <2>2, <2>3, PostType
<1>2. CASE PostResend(s)
  <2>1. PICK e \in Endpoints :
          Post(s, [Idle EXCEPT !.kind = "resend", !.of = e, !.at = "posted", !.older = Of(e) \cap acked])
    BY <1>2 DEF PostResend
  <2> DEFINE r == [Idle EXCEPT !.kind = "resend", !.of = e, !.at = "posted", !.older = Of(e) \cap acked]
  <2>2. Of(e) \cap acked \in SUBSET Codes
    BY DEF TypeOK
  <2>3. /\ r \in Requests /\ r.at = "posted" /\ r.code = NoCode /\ r.seen = {} /\ r.answer = "none"
        /\ r.kind = "resend" /\ r.older = Of(r.of) \cap acked
    BY <2>2, IdleRequest DEF Requests, Kinds, Steps
  <2> HIDE DEF r
  <2>4. Post(s, r)
    BY <2>1 DEF r
  <2> QED BY <2>3, <2>4, PostType
<1>3. CASE PostConfirm(s)
  <2>0. PICK e \in Endpoints : \E c \in Of(e) \cup {NoCode} :
          Post(s, [Idle EXCEPT !.kind = "confirm", !.of = e, !.at = "posted", !.guess = c, !.older = dead,
                               !.good = c \in acked \cap alone])
    BY <1>3 DEF PostConfirm
  <2>1. PICK c \in Of(e) \cup {NoCode} :
          Post(s, [Idle EXCEPT !.kind = "confirm", !.of = e, !.at = "posted", !.guess = c, !.older = dead,
                               !.good = c \in acked \cap alone])
    BY <2>0
  <2> DEFINE good == c \in acked \cap alone
             r == [Idle EXCEPT !.kind = "confirm", !.of = e, !.at = "posted", !.guess = c, !.older = dead,
                               !.good = good]
  <2>2. c \in 0 .. MaxCodes /\ dead \in SUBSET Codes /\ good \in BOOLEAN
    BY EndpointsAssumption DEF TypeOK, Of, Codes, NoCode
  <2>3. Post(s, r)
    BY <2>1
  <2> HIDE DEF good
  <2>4. /\ r \in Requests /\ r.at = "posted" /\ r.code = NoCode /\ r.seen = {} /\ r.answer = "none"
        /\ r.kind = "confirm" /\ r.older = dead
    BY <2>2, IdleRequest DEF Requests, Kinds, Steps
  <2> HIDE DEF r
  <2> QED BY <2>3, <2>4, PostType
<1> QED BY <1>1, <1>2, <1>3 DEF Asks

-----------------------------------------------------------------------------
(* The invariant, action by action *)

LEMMA AsksKeeps == ASSUME Inv, NEW s \in Slots, Asks(s) PROVE Inv'
<1>0. PICK r \in Requests :
        /\ Post(s, r) /\ r.at = "posted" /\ r.code = NoCode /\ r.answer = "none"
        /\ \/ r.kind = "create" /\ r.older = {}
           \/ r.kind = "resend" /\ r.older = Of(r.of) \cap acked
           \/ r.kind = "confirm" /\ r.older = dead
  BY AsksType DEF Inv
<1>1. TypeOK' /\ UNCHANGED <<code, made, tries, acked, dead>>
      /\ \A t \in Slots : request'[t] = IF t = s THEN r ELSE request[t]
  BY <1>0, AsksType DEF Inv, TypeOK, Post, server
<1>2. \A t \in Slots : Makes(t)' => t # s /\ Makes(t)
  BY <1>0, <1>1 DEF Makes
<1>3. \A c : Readers(c)' \subseteq Readers(c)
  BY <1>0, <1>1 DEF Readers
<1>4. \A c \in Codes : Untouched(c) => Untouched(c)'
  BY <1>1, <1>3 DEF Untouched
<1>5. r.older \subseteq Known /\ r.older \subseteq acked \cup dead
  BY <1>0 DEF Inv, Numbered
<1>6. Numbered'
  BY <1>0, <1>1, <1>4, <1>5 DEF Inv, Numbered, Known
<1>7. Staged'
  BY <1>0, <1>1, <1>2 DEF Inv, Staged, Known
<1>8. Own'
  BY <1>0, <1>1 DEF Inv, Own
<1>9. Secret'
  <2> SUFFICES ASSUME NEW t \in Slots, Makes(t)'
               PROVE  /\ Untouched(request[t].code)'
                      /\ request'[t].code \notin acked' \cup dead'
                      /\ \A u \in Slots : request'[t].code \notin request'[u].older
    BY DEF Secret
  <2>1. t # s /\ Makes(t) /\ request'[t] = request[t]
    BY <1>1, <1>2
  <2>2. request[t].code \in Codes
    BY <2>1, KnownCodes DEF Inv, Staged
  <2>3. Untouched(request[t].code)'
    BY <1>4, <2>1, <2>2 DEF Inv, Secret
  <2> QED BY <1>1, <1>5, <2>1, <2>3 DEF Inv, Secret
<1>10. Counted'
  BY <1>1 DEF Inv, Counted
<1>11. Bounded'
  BY <1>1, <1>3, FewerReaders DEF Inv, Bounded
<1>12. Doomed'
  <2>1. r.kind # "confirm" => \A c \in r.older : code[c].of = r.of
    BY <1>0 DEF Of
  <2> QED BY <1>0, <1>1, <2>1 DEF Inv, Doomed
<1>13. Gone'
  BY <1>0, <1>1 DEF Inv, Gone
<1> QED BY <1>1, <1>6, <1>7, <1>8, <1>9, <1>10, <1>11, <1>12, <1>13 DEF Inv

LEMMA ToldKeeps == ASSUME Inv, NEW s \in Slots, Told(s) PROVE Inv'
<1>1. /\ request[s].at = "answered" /\ request' = [request EXCEPT ![s] = Idle]
      /\ UNCHANGED <<remote, endpoint, code, made, alone, dead, tries, posts>>
      /\ \/ /\ request[s].kind \in {"create", "resend"} /\ request[s].answer = "done"
            /\ acked' = acked \cup {request[s].code}
         \/ acked' = acked
  BY DEF Told, server
<1>2. Ending(s, Idle)
  BY <1>1, IdleRequest DEF Ending, Inv, TypeOK
<1>3. ASSUME NEW c \in dead'
      PROVE  /\ c \in Known /\ ~(\E t \in Slots : Makes(t) /\ request[t].code = c)
             /\ code'[c].row # "live"
  BY <1>1, <1>3 DEF Inv, Numbered, Gone, Secret
<1>4. CASE acked' = acked
  <2>1. TypeOK'
    BY <1>1, <1>4, IdleRequest DEF Inv, TypeOK
  <2> QED BY <1>1, <1>2, <1>3, <1>4, <2>1, IdleRequest, EndingKeeps
<1>5. CASE request[s].kind # "confirm" /\ request[s].code # NoCode /\ acked' = acked \cup {request[s].code}
  <2>1. request[s].code \in Codes
    BY <1>5, KnownCodes DEF Inv, Numbered
  <2>2. TypeOK'
    BY <1>1, <1>5, <2>1, IdleRequest DEF Inv, TypeOK
  <2> QED BY <1>1, <1>2, <1>3, <1>5, <2>2, IdleRequest, EndingKeeps
<1>6. request[s].kind # "confirm" /\ request[s].answer = "done" => request[s].code # NoCode
  BY KnownCodes DEF Inv, Staged
<1> QED BY <1>1, <1>4, <1>5, <1>6

\* A confirmation moves on, and the tables and the numbers stay.
LEMMA ConfirmMoves ==
  ASSUME Inv, NEW s \in Slots, NEW r \in Requests,
         request' = [request EXCEPT ![s] = r],
         r.at = "found", r.kind = "confirm", request[s].kind = "confirm", r.code = request[s].code,
         r.older = request[s].older, r.answer = request[s].answer, r.guess = request[s].guess,
         endpoint' \in [Endpoints -> [exists : BOOLEAN, verified : 0 .. MaxCodes]],
         UNCHANGED <<remote, code, made, tries, acked, alone, dead, posts>>
  PROVE  Inv'
<1>1. TypeOK' /\ \A t \in Slots : request'[t] = IF t = s THEN r ELSE request[t]
  BY DEF Inv, TypeOK
<1>2. \A t \in Slots : Makes(t)' => t # s /\ Makes(t)
  BY <1>1 DEF Makes
<1>3. \A c : Readers(c)' \subseteq Readers(c)
  BY <1>1 DEF Readers
<1>4. \A c \in Codes : Untouched(c) => Untouched(c)'
  BY <1>3 DEF Untouched
<1>5. Numbered'
  BY <1>1, <1>4 DEF Inv, Numbered, Known
<1>6. Staged' /\ Own'
  BY <1>1, <1>2 DEF Inv, Staged, Own, Known
<1>7. Secret'
  <2>1. \A t \in Slots : Makes(t) => request[t].code \in Codes
    BY KnownCodes DEF Inv, Staged
  <2> QED BY <1>1, <1>2, <1>4, <2>1 DEF Inv, Secret
<1>8. Counted'
  BY DEF Inv, Counted
<1>9. Bounded'
  BY <1>3, FewerReaders DEF Inv, Bounded
<1>10. Doomed' /\ Gone'
  BY <1>1 DEF Inv, Doomed, Gone
<1> QED BY <1>1, <1>5, <1>6, <1>7, <1>8, <1>9, <1>10 DEF Inv

\* A request for a code draws the next number.
LEMMA DrawKeeps ==
  ASSUME Inv, NEW s \in Slots, request[s].at = "posted", request[s].kind # "confirm",
         NEW n \in Codes \ Known, made' \in 0 .. MaxCodes, Known' = Known \cup {n},
         NEW r \in Requests, request' = [request EXCEPT ![s] = r],
         r.at = "found", r.kind = request[s].kind, r.code = n,
         r.of = request[s].of, r.older = request[s].older, r.answer = request[s].answer,
         code' \in [Codes -> Rows],
         \A c \in Codes : /\ code'[c].row = code[c].row /\ code'[c].attempts = code[c].attempts
                          /\ c # n => code'[c].of = code[c].of,
         alone' \subseteq Codes,
         endpoint' \in [Endpoints -> [exists : BOOLEAN, verified : 0 .. MaxCodes]],
         UNCHANGED <<remote, tries, acked, dead, posts>>
  PROVE  Inv'
<1>1. n # NoCode /\ Known \subseteq Codes /\ NoCode \notin Known /\ Known' \subseteq Codes
  BY EndpointsAssumption, KnownCodes DEF Inv, Codes, NoCode
<1>2. TypeOK' /\ \A t \in Slots : request'[t] = IF t = s THEN r ELSE request[t]
  BY DEF Inv, TypeOK
<1>3. \A t \in Slots : Makes(t)' => t = s \/ Makes(t)
  BY <1>2 DEF Makes
<1>4. \A c : Readers(c)' \subseteq Readers(c)
  BY <1>2 DEF Readers
<1>5. \A c \in Codes : Untouched(c) => Untouched(c)'
  BY <1>4 DEF Untouched
<1>6. Numbered'
  BY <1>1, <1>2, <1>5 DEF Inv, Numbered
<1>7. Staged'
  BY <1>1, <1>2, <1>3 DEF Inv, Staged
<1>8. Own'
  <2>1. \A t \in Slots : request[t].code # n
    BY <1>1 DEF Inv, Numbered
  <2> QED BY <1>2, <2>1 DEF Inv, Own
<1>9. Secret'
  <2> SUFFICES ASSUME NEW t \in Slots, Makes(t)'
               PROVE  /\ Untouched(request[t].code)'
                      /\ request'[t].code \notin acked' \cup dead'
                      /\ \A u \in Slots : request'[t].code \notin request'[u].older
    BY DEF Secret
  <2>1. \A u \in Slots : request'[u].older = request[u].older
    BY <1>2
  <2>2. CASE t = s
    BY <1>1, <1>2, <1>5, <2>1, <2>2 DEF Inv, Numbered
  <2>3. CASE t # s
    <3>1. Makes(t) /\ request'[t] = request[t] /\ request[t].code \in Codes
      BY <1>2, <1>3, <2>3, KnownCodes DEF Inv, Staged
    <3> QED BY <1>5, <2>1, <3>1 DEF Inv, Secret
  <2> QED BY <2>2, <2>3
<1>10. Counted'
  BY DEF Inv, Counted
<1>11. Bounded'
  BY <1>4, FewerReaders DEF Inv, Bounded
<1>12. Doomed'
  <2>1. \A t \in Slots : \A c \in request[t].older : c \in Codes /\ c # n
    BY <1>1, KnownCodes DEF Inv, Numbered
  <2> QED BY <1>2, <2>1 DEF Inv, Doomed
<1>13. Gone'
  BY <1>1, <1>2, KnownCodes DEF Inv, Gone, Numbered
<1> QED BY <1>2, <1>6, <1>7, <1>8, <1>9, <1>10, <1>11, <1>12, <1>13 DEF Inv

LEMMA FindKeeps == ASSUME Inv, NEW s \in Slots, Find(s) PROVE Inv'
<1> DEFINE e == request[s].of
           kind == request[s].kind
<1>1. /\ request[s] \in Requests /\ request[s].at = "posted"
      /\ UNCHANGED <<remote, acked, dead, tries, posts>>
  BY DEF Find, Inv, TypeOK
<1>2. endpoint' \in [Endpoints -> [exists : BOOLEAN, verified : 0 .. MaxCodes]]
  <2>1. NoCode \in 0 .. MaxCodes
    BY EndpointsAssumption DEF NoCode
  <2>2. [exists |-> TRUE, verified |-> NoCode] \in [exists : BOOLEAN, verified : 0 .. MaxCodes]
    BY <2>1
  <2>3. \/ endpoint' = [endpoint EXCEPT ![e] = [exists |-> TRUE, verified |-> NoCode]]
        \/ endpoint' = endpoint
    BY DEF Find
  <2> QED BY <2>2, <2>3 DEF Inv, TypeOK
<1>3. CASE UNCHANGED <<code, made, alone>> /\ \E answer \in {"already", "conflict"} : AnswerWith(s, answer)
  <2>1. PICK answer \in {"already", "conflict"} : AnswerWith(s, answer)
    BY <1>3
  <2>2. PICK r \in Requests :
           /\ request' = [request EXCEPT ![s] = r] /\ request' \in [Slots -> Requests]
           /\ r.at = "answered" /\ r.answer = answer
           /\ r.kind = request[s].kind /\ r.code = request[s].code /\ r.of = request[s].of
           /\ r.older = request[s].older /\ r.guess = request[s].guess
    BY <2>1, AnswerRecord DEF Inv, Answers
  <2>3. TypeOK'
    BY <1>1, <1>2, <1>3, <2>2 DEF Inv, TypeOK
  <2>4. Ending(s, r)
    BY <1>1, <1>3, <2>2 DEF Ending, Inv, TypeOK
  <2>5. ASSUME NEW c \in dead'
        PROVE  /\ c \in Known /\ ~(\E t \in Slots : Makes(t) /\ request[t].code = c)
               /\ code'[c].row # "live"
    BY <1>1, <1>3, <2>5 DEF Inv, Numbered, Gone, Secret
  <2> QED BY <1>1, <2>2, <2>3, <2>4, <2>5, EndingKeeps
<1>4. CASE UNCHANGED <<code, made, alone>> /\ kind = "confirm" /\ request' = [request EXCEPT ![s].at = "found"]
  <2> DEFINE r == [request[s] EXCEPT !.at = "found"]
  <2>1. /\ r \in Requests /\ r.at = "found" /\ r.kind = "confirm" /\ r.code = request[s].code
        /\ r.older = request[s].older /\ r.answer = request[s].answer /\ r.guess = request[s].guess
        /\ request' = [request EXCEPT ![s] = r]
    BY <1>1, <1>4 DEF Requests, Steps
  <2> HIDE DEF r
  <2> QED BY <1>1, <1>2, <1>4, <2>1, ConfirmMoves DEF Inv
<1>5. CASE /\ kind # "confirm" /\ made < MaxCodes /\ made' = made + 1
           /\ code' = [code EXCEPT ![made + 1].of = e] /\ alone' \subseteq alone \cup {made + 1}
           /\ request' = [request EXCEPT ![s].at = "found", ![s].code = made + 1]
  <2> DEFINE n == made + 1
             r == [request[s] EXCEPT !.at = "found", !.code = n]
  <2>1. /\ n \in Codes \ Known /\ n \in 0 .. MaxCodes /\ Known' = Known \cup {n}
    BY <1>5, EndpointsAssumption DEF Inv, TypeOK, Codes, Known
  <2>2. /\ r \in Requests /\ r.at = "found" /\ r.kind = request[s].kind /\ r.code = n
        /\ r.of = request[s].of /\ r.older = request[s].older /\ r.answer = request[s].answer
    BY <1>1, <2>1 DEF Requests, Steps
  <2>3. request' = [request EXCEPT ![s] = r]
    BY <1>5
  <2>4. code[n] \in Rows /\ e \in Endpoints \cup {Nothing}
    BY <1>1, <2>1 DEF Inv, TypeOK, Requests
  <2> DEFINE row == [code[n] EXCEPT !.of = e]
  <2>5. row \in Rows /\ row.row = code[n].row /\ row.attempts = code[n].attempts
    BY <2>4 DEF Rows
  <2>6. code' = [code EXCEPT ![n] = row]
    BY <1>5
  <2>7. made' = n /\ alone' \subseteq Codes
    BY <1>5, <2>1 DEF Inv, TypeOK
  <2>8. request[s].kind # "confirm"
    BY <1>5
  <2> HIDE DEF n, r, row, e, kind
  <2>9. code' \in [Codes -> Rows] /\ \A c \in Codes :
          /\ code'[c].row = code[c].row /\ code'[c].attempts = code[c].attempts
          /\ c # n => code'[c].of = code[c].of
    BY <2>1, <2>5, <2>6 DEF Inv, TypeOK
  <2> QED BY <1>1, <1>2, <2>1, <2>2, <2>3, <2>7, <2>8, <2>9, DrawKeeps
<1> QED BY <1>3, <1>4, <1>5 DEF Find

LEMMA ClearKeeps == ASSUME Inv, NEW s \in Slots, Clear(s) PROVE Inv'
<1> DEFINE r == [request[s] EXCEPT !.at = "cleared", !.seen = Live(request[s].of)]
<1>1. /\ request[s].at = "found" /\ request[s].kind # "confirm" /\ request[s] \in Requests
      /\ request' = [request EXCEPT ![s] = r]
      /\ UNCHANGED <<remote, endpoint, code, made, acked, alone, dead, tries, posts>>
  BY DEF Clear, server, ghosts, Inv, TypeOK
<1>2. Live(request[s].of) \in SUBSET Codes
  BY DEF Live, Of
<1>3. /\ r \in Requests /\ r.at = "cleared" /\ r.kind = request[s].kind /\ r.code = request[s].code
      /\ r.of = request[s].of /\ r.older = request[s].older /\ r.answer = request[s].answer
      /\ r.guess = request[s].guess /\ r.seen = Live(request[s].of)
  BY <1>1, <1>2 DEF Requests, Steps
<1> HIDE DEF r
<1>4. TypeOK' /\ \A t \in Slots : request'[t] = IF t = s THEN r ELSE request[t]
  BY <1>1, <1>3 DEF Inv, TypeOK
<1>5. \A t \in Slots : Makes(t)' => Makes(t) /\ request'[t].code = request[t].code
  BY <1>1, <1>3, <1>4 DEF Makes
<1>6. \A c : Readers(c)' \subseteq Readers(c)
  BY <1>3, <1>4 DEF Readers
<1>7. \A c \in Codes : Untouched(c) => Untouched(c)'
  BY <1>1, <1>6 DEF Untouched
<1>8. Numbered'
  BY <1>1, <1>3, <1>4, <1>7 DEF Inv, Numbered, Known
<1>9. Makes(s)
  BY <1>1 DEF Makes
<1>10. Staged' /\ Own'
  BY <1>1, <1>3, <1>4, <1>5, <1>9 DEF Inv, Staged, Own, Known
<1>11. Secret'
  <2>1. \A t \in Slots : Makes(t) => request[t].code \in Codes
    BY KnownCodes DEF Inv, Staged
  <2>2. \A t \in Slots : request'[t].older = request[t].older
    BY <1>3, <1>4
  <2> QED BY <1>1, <1>5, <1>7, <2>1, <2>2 DEF Inv, Secret
<1>12. Counted'
  BY <1>1 DEF Inv, Counted
<1>13. Bounded'
  BY <1>1, <1>6, FewerReaders DEF Inv, Bounded
<1>14. Doomed'
  <2>1. \A c \in request[s].older : code[c].row = "live" => c \in Live(request[s].of)
    BY <1>1, KnownCodes DEF Inv, Doomed, Numbered, Live, Of
  <2> QED BY <1>1, <1>3, <1>4, <2>1 DEF Inv, Doomed
<1>15. Gone'
  BY <1>1, <1>3, <1>4 DEF Inv, Gone
<1> QED BY <1>4, <1>8, <1>10, <1>11, <1>12, <1>13, <1>14, <1>15 DEF Inv

LEMMA InsertKeeps == ASSUME Inv, NEW s \in Slots, Insert(s) PROVE Inv'
<1> DEFINE r == [request[s] EXCEPT !.at = "inserted", !.seen = {}]
           n == request[s].code
           row(c) == IF c = n THEN [code[c] EXCEPT !.row = "live"]
                     ELSE IF c \in request[s].seen /\ code[c].row = "live" THEN [code[c] EXCEPT !.row = "none"]
                     ELSE code[c]
<1>1. /\ request[s].at = "cleared" /\ request[s] \in Requests /\ Makes(s)
      /\ request' = [request EXCEPT ![s] = r] /\ code' = [c \in Codes |-> row(c)]
      /\ UNCHANGED <<remote, endpoint, made, acked, alone, dead, tries, posts>>
  BY DEF Insert, ghosts, Inv, TypeOK, Makes
<1>2. /\ r \in Requests /\ r.at = "inserted" /\ r.kind = request[s].kind /\ r.code = n
      /\ r.of = request[s].of /\ r.older = request[s].older /\ r.answer = request[s].answer
      /\ r.guess = request[s].guess
  BY <1>1 DEF Requests, Steps
<1>3. n \in Known /\ n \in Codes /\ r.kind # "confirm" /\ Untouched(n) /\ n \notin acked \cup dead
      /\ \A t \in Slots : n \notin request[t].older
  BY <1>1, <1>2, KnownCodes DEF Inv, Staged, Secret
<1>4. \A c \in Codes : row(c) \in Rows /\ row(c).of = code[c].of /\ row(c).attempts = code[c].attempts
  BY DEF Inv, TypeOK, Rows
<1>5. \A c \in Codes : IF c = n THEN row(c).row = "live"
                       ELSE row(c).row = IF c \in request[s].seen /\ code[c].row = "live" THEN "none"
                                         ELSE code[c].row
  BY DEF Inv, TypeOK, Rows
<1>6. code' \in [Codes -> Rows] /\ \A c \in Codes :
        /\ code'[c].of = code[c].of /\ code'[c].attempts = code[c].attempts
        /\ IF c = n THEN code'[c].row = "live"
           ELSE code'[c].row = IF c \in request[s].seen /\ code[c].row = "live" THEN "none" ELSE code[c].row
  BY <1>1, <1>4, <1>5
<1> HIDE DEF r, n, row
<1>7. TypeOK' /\ \A t \in Slots : request'[t] = IF t = s THEN r ELSE request[t]
  BY <1>1, <1>2, <1>6 DEF Inv, TypeOK
<1>8. \A t \in Slots : Makes(t)' => t # s /\ Makes(t) /\ request[t].code # n /\ request[t].code \in Codes
  <2> SUFFICES ASSUME NEW t \in Slots, Makes(t)'
               PROVE  t # s /\ Makes(t) /\ request[t].code # n /\ request[t].code \in Codes
    OBVIOUS
  <2>1. t # s /\ Makes(t)
    BY <1>2, <1>7 DEF Makes
  <2>2. request[t].kind # "confirm" /\ request[t].code \in Codes
    BY <2>1, KnownCodes DEF Inv, Staged, Makes
  <2>3. request[s].kind # "confirm" /\ request[s].code # NoCode
    BY <1>1, KnownCodes DEF Inv, Staged
  <2> QED BY <2>1, <2>2, <2>3 DEF Inv, Own, n
<1>9. \A c : Readers(c)' \subseteq Readers(c)
  BY <1>2, <1>7 DEF Readers
<1>10. \A c \in Codes : Untouched(c) /\ c # n => Untouched(c)'
  BY <1>1, <1>6, <1>9 DEF Untouched
<1>11. Numbered'
  BY <1>1, <1>2, <1>3, <1>7, <1>10 DEF Inv, Numbered, Known, n
<1>12. Staged' /\ Own'
  BY <1>1, <1>2, <1>3, <1>7, <1>8 DEF Inv, Staged, Own, Known, n
<1>13. Secret'
  <2>1. \A t \in Slots : request'[t].older = request[t].older
    BY <1>2, <1>7
  <2>2. \A t \in Slots : t # s => request'[t] = request[t]
    BY <1>7
  <2> QED BY <1>1, <1>8, <1>10, <2>1, <2>2 DEF Inv, Secret
<1>14. Counted'
  <2>1. tries[n] = 0 /\ code'[n].attempts \in Nat
    BY <1>3, <1>6 DEF Untouched, Rows
  <2> QED BY <1>1, <1>3, <1>6, <2>1 DEF Inv, Counted, TypeOK, Rows
<1>15. Bounded'
  BY <1>1, <1>9, FewerReaders DEF Inv, Bounded
<1>16. Doomed'
  <2>1. \A t \in Slots : \A c \in request[t].older : c \in Codes /\ c # n
    BY <1>3, KnownCodes DEF Inv, Numbered
  <2>2. \A c \in request[s].older : code'[c].row # "live"
    BY <1>1, <1>2, <1>3, <1>6, <2>1 DEF Inv, Doomed
  <2>3. \A c \in Codes : c # n /\ code'[c].row = "live" => code[c].row = "live"
    BY <1>6
  <2> QED BY <1>2, <1>6, <1>7, <2>1, <2>2, <2>3 DEF Inv, Doomed
<1>17. Gone'
  <2>1. \A c \in dead : c \in Codes /\ c # n /\ code'[c].row # "live"
    BY <1>3, <1>6, KnownCodes DEF Inv, Numbered, Gone
  <2> QED BY <1>1, <1>2, <1>3, <1>7, <2>1 DEF Inv, Gone
<1> QED BY <1>7, <1>11, <1>12, <1>13, <1>14, <1>15, <1>16, <1>17 DEF Inv

\* A request ends without a success, and no table changes.
LEMMA RefusalKeeps ==
  ASSUME Inv, NEW s \in Slots, NEW r \in Requests, request' = [request EXCEPT ![s] = r],
         r.at = "answered", r.answer # "done",
         r.kind = request[s].kind, r.code = request[s].code, r.of = request[s].of,
         r.older = request[s].older, r.guess = request[s].guess,
         UNCHANGED <<remote, endpoint, code, made, acked, alone, dead, tries, posts>>
  PROVE  Inv'
<1>1. TypeOK' /\ Ending(s, r)
  BY DEF Inv, TypeOK, Ending
<1>2. ASSUME NEW c \in dead'
      PROVE  /\ c \in Known /\ ~(\E t \in Slots : Makes(t) /\ request[t].code = c)
             /\ code'[c].row # "live"
  BY <1>2 DEF Inv, Numbered, Gone, Secret
<1> QED BY <1>1, <1>2, EndingKeeps

LEMMA AnswerKeeps ==
  ASSUME Inv, NEW s \in Slots, NEW answer \in Answers \ {"done"}, AnswerWith(s, answer),
         UNCHANGED <<remote, endpoint, code, made, acked, alone, dead, tries, posts>>
  PROVE  Inv'
<1>1. PICK r \in Requests :
           /\ request' = [request EXCEPT ![s] = r] /\ request' \in [Slots -> Requests]
           /\ r.at = "answered" /\ r.answer = answer
           /\ r.kind = request[s].kind /\ r.code = request[s].code /\ r.of = request[s].of
           /\ r.older = request[s].older /\ r.guess = request[s].guess
  BY AnswerRecord DEF Inv
<1> QED BY <1>1, RefusalKeeps

LEMMA DenyKeeps == ASSUME Inv, NEW s \in Slots, Deny(s) PROVE Inv'
<1> DEFINE r == [request[s] EXCEPT !.at = "answered", !.answer = "wrong", !.denied = TRUE,
                                   !.seen = {}, !.known = FALSE]
<1>1. /\ request[s] \in Requests /\ request' = [request EXCEPT ![s] = r]
      /\ UNCHANGED <<remote, endpoint, code, made, acked, alone, dead, tries, posts>>
  BY DEF Deny, server, ghosts, Inv, TypeOK
<1>2. /\ r \in Requests /\ r.at = "answered" /\ r.answer # "done"
      /\ r.kind = request[s].kind /\ r.code = request[s].code /\ r.of = request[s].of
      /\ r.older = request[s].older /\ r.guess = request[s].guess
  BY <1>1 DEF Requests, Steps, Answers
<1> HIDE DEF r
<1> QED BY <1>1, <1>2, RefusalKeeps

LEMMA BreakKeeps == ASSUME Inv, NEW s \in Slots, Break(s) PROVE Inv'
BY AnswerKeeps DEF Break, server, ghosts, Answers

LEMMA SendKeeps == ASSUME Inv, NEW s \in Slots, Send(s) PROVE Inv'
<1> DEFINE n == request[s].code
<1>1. /\ request[s].at = "inserted" /\ request[s].kind # "confirm" /\ n \in Known /\ n \in Codes
      /\ dead' = dead \cup request[s].older
      /\ UNCHANGED <<remote, endpoint, made, acked, alone, tries, posts>>
  BY KnownCodes DEF Send, Inv, Staged
<1>2. PICK answer \in {"done", "unsent"} : AnswerWith(s, answer)
  BY DEF Send
<1>3. PICK r \in Requests :
           /\ request' = [request EXCEPT ![s] = r] /\ request' \in [Slots -> Requests]
           /\ r.at = "answered" /\ r.answer = answer
           /\ r.kind = request[s].kind /\ r.code = request[s].code /\ r.of = request[s].of
           /\ r.older = request[s].older /\ r.guess = request[s].guess
  BY <1>2, AnswerRecord DEF Inv, Answers
<1>4. code[n] \in Rows
  BY <1>1 DEF Inv, TypeOK
<1>5. PICK row \in Rows :
        /\ code' = [code EXCEPT ![n] = row]
        /\ row.of = code[n].of /\ row.attempts = code[n].attempts /\ row.row \in {code[n].row, "none"}
  <2>1. CASE code' = [code EXCEPT ![n].recorded = code[n].row # "none"]
    <3> DEFINE sent == code[n].row # "none"
               row == [code[n] EXCEPT !.recorded = sent]
    <3>1. sent \in BOOLEAN
      OBVIOUS
    <3>2. code' = [code EXCEPT ![n] = row]
      BY <2>1
    <3> HIDE DEF sent
    <3>3. row \in Rows /\ row.of = code[n].of /\ row.attempts = code[n].attempts /\ row.row = code[n].row
      BY <1>4, <3>1 DEF Rows
    <3> HIDE DEF row
    <3> QED BY <3>2, <3>3
  <2>2. CASE code' = [code EXCEPT ![n].row = "none"]
    <3> DEFINE row == [code[n] EXCEPT !.row = "none"]
    <3>1. row \in Rows /\ row.of = code[n].of /\ row.attempts = code[n].attempts /\ row.row = "none"
      BY <1>4 DEF Rows
    <3>2. code' = [code EXCEPT ![n] = row]
      BY <2>2
    <3> HIDE DEF row
    <3> QED BY <3>1, <3>2
  <2> QED BY <2>1, <2>2 DEF Send
<1>6. code' \in [Codes -> Rows] /\ \A c \in Codes :
        /\ code'[c].of = code[c].of /\ code'[c].attempts = code[c].attempts
        /\ code'[c].row \in {code[c].row, "none"}
  BY <1>1, <1>5 DEF Inv, TypeOK
<1> HIDE DEF n
<1>7. request[s].older \subseteq Known /\ request[s].older \subseteq Codes /\ dead \subseteq Known /\ dead \subseteq Codes
  BY KnownCodes DEF Inv, Numbered
<1>8. Ending(s, r)
  BY <1>1, <1>3, <1>6 DEF Ending
<1>9. TypeOK'
  BY <1>1, <1>3, <1>6, <1>7 DEF Inv, TypeOK
<1>10. ASSUME NEW c \in dead'
       PROVE  /\ c \in Known /\ ~(\E t \in Slots : Makes(t) /\ request[t].code = c)
              /\ code'[c].row # "live"
  <2>1. c \in Known /\ c \in Codes
    BY <1>1, <1>7, <1>10
  <2>2. ~(\E t \in Slots : Makes(t) /\ request[t].code = c)
    BY <1>1, <1>10 DEF Inv, Secret
  <2>3. code[c].row # "live"
    BY <1>1, <1>10 DEF Inv, Doomed, Gone
  <2> QED BY <1>6, <2>1, <2>2, <2>3
<1>11. r.kind # "confirm" /\ r.code \in Known
  BY <1>1, <1>3 DEF n
<1> QED BY <1>1, <1>8, <1>9, <1>10, <1>11, EndingKeeps

LEMMA JudgeKeeps == ASSUME Inv, NEW s \in Slots, Judge(s) PROVE Inv'
<1> DEFINE n == request[s].code
           e == request[s].of
<1>1. /\ request[s].at = "counted" /\ request[s].kind = "confirm" /\ n \in Known /\ n \in Codes
      /\ n \in 0 .. MaxCodes /\ n \notin request[s].older
      /\ UNCHANGED <<remote, made, acked, alone, dead, tries, posts>>
  BY KnownCodes DEF Judge, ghosts, Inv, Staged, Gone, TypeOK, Requests
<1>2. CASE AnswerWith(s, "wrong") /\ UNCHANGED <<endpoint, code>>
  BY <1>1, <1>2, AnswerKeeps DEF Answers
<1>3. CASE /\ request[s].guess = n /\ endpoint' = [endpoint EXCEPT ![e].verified = n]
           /\ code' = [code EXCEPT ![n].row = IF @ = "live" THEN "consumed" ELSE @]
           /\ AnswerWith(s, "done")
  <2> DEFINE answer == "done"
  <2>1. PICK r \in Requests :
           /\ request' = [request EXCEPT ![s] = r] /\ request' \in [Slots -> Requests]
           /\ r.at = "answered" /\ r.answer = answer
           /\ r.kind = request[s].kind /\ r.code = request[s].code /\ r.of = request[s].of
           /\ r.older = request[s].older /\ r.guess = request[s].guess
    BY <1>3, AnswerRecord DEF Inv, Answers
  <2>2. endpoint' \in [Endpoints -> [exists : BOOLEAN, verified : 0 .. MaxCodes]]
    BY <1>1, <1>3 DEF Inv, TypeOK
  <2> DEFINE row == [code[n] EXCEPT !.row = IF code[n].row = "live" THEN "consumed" ELSE code[n].row]
  <2>3. code[n] \in Rows
    BY <1>1 DEF Inv, TypeOK
  <2>4. /\ row \in Rows /\ row.of = code[n].of /\ row.attempts = code[n].attempts
        /\ row.row # "live" /\ (code[n].row = "none" => row.row = "none")
    BY <2>3 DEF Rows
  <2>5. code' = [code EXCEPT ![n] = row]
    BY <1>3
  <2> HIDE DEF row, n
  <2>6. code' \in [Codes -> Rows] /\ \A c \in Codes :
          /\ code'[c].of = code[c].of /\ code'[c].attempts = code[c].attempts
          /\ code[c].row = "none" => code'[c].row = "none"
          /\ code'[c].row = "live" => code[c].row = "live"
    BY <1>1, <2>4, <2>5 DEF Inv, TypeOK
  <2>7. TypeOK' /\ Ending(s, r)
    BY <1>1, <2>1, <2>2, <2>6 DEF Inv, TypeOK, Ending
  <2>8. ASSUME NEW c \in dead'
        PROVE  /\ c \in Known /\ ~(\E t \in Slots : Makes(t) /\ request[t].code = c)
               /\ code'[c].row # "live"
    <3>1. c \in Known /\ c \in Codes /\ code[c].row # "live"
      BY <1>1, <2>8, KnownCodes DEF Inv, Numbered, Gone
    <3>2. ~(\E t \in Slots : Makes(t) /\ request[t].code = c)
      BY <1>1, <2>8 DEF Inv, Secret
    <3> QED BY <2>6, <3>1, <3>2
  <2>9. r.kind = "confirm" /\ r.guess \notin r.older
    BY <1>1, <1>3, <2>1
  <2> QED BY <1>1, <2>1, <2>7, <2>8, <2>9, EndingKeeps
<1> QED BY <1>2, <1>3 DEF Judge

LEMMA ReadKeeps == ASSUME Inv, NEW s \in Slots, Read(s) PROVE Inv'
<1> DEFINE live == Live(request[s].of)
           n == Newest(live)
           r == [request[s] EXCEPT !.at = "read", !.code = n, !.known = code[n].recorded]
<1>1. /\ request[s].at = "found" /\ request[s].kind = "confirm" /\ request[s] \in Requests
      /\ UNCHANGED <<remote, endpoint, code, made, acked, alone, dead, tries, posts>>
  BY DEF Read, server, ghosts, Inv, TypeOK
<1>2. CASE \E answer \in {"expired", "locked"} : AnswerWith(s, answer)
  BY <1>1, <1>2, AnswerKeeps DEF Answers
<1>3. CASE live # {} /\ code[n].attempts < Limit /\ request' = [request EXCEPT ![s] = r]
  <2>1. n \in Codes /\ code[n].row = "live" /\ code[n] \in Rows
    <3>1. live \in SUBSET Codes
      BY DEF Live, Of
    <3>2. n \in live
      BY <1>3, <3>1, NewestIs
    <3> QED BY <3>2 DEF Live, Of, Inv, TypeOK
  <2>2. n \in Known /\ n \notin dead /\ ~Untouched(n)
    BY <2>1 DEF Inv, Numbered, Gone, Untouched
  <2>3. n \in 0 .. MaxCodes /\ code[n].recorded \in BOOLEAN
    BY <2>1, EndpointsAssumption DEF Codes, Rows
  <2>4. /\ r \in Requests /\ r.at = "read" /\ r.kind = "confirm" /\ r.code = n
        /\ r.older = request[s].older /\ r.answer = request[s].answer /\ r.guess = request[s].guess
    BY <1>1, <2>3 DEF Requests, Steps
  <2>5. code[n].attempts < Limit
    BY <1>3
  <2>6. request' = [request EXCEPT ![s] = r]
    BY <1>3
  <2> HIDE DEF r, n, live
  <2>7. TypeOK' /\ \A t \in Slots : request'[t] = IF t = s THEN r ELSE request[t]
    BY <1>1, <2>4, <2>6 DEF Inv, TypeOK
  <2>8. \A t \in Slots : Makes(t)' => t # s /\ Makes(t)
    BY <2>4, <2>7 DEF Makes
  <2>9. \A c : c # n => Readers(c)' \subseteq Readers(c)
    BY <2>4, <2>7 DEF Readers
  <2>10. \A c \in Codes : Untouched(c) => Untouched(c)'
    BY <1>1, <2>2, <2>9 DEF Untouched
  <2>11. Numbered'
    BY <1>1, <2>2, <2>4, <2>7, <2>10 DEF Inv, Numbered, Known
  <2>12. Staged' /\ Own'
    BY <1>1, <2>2, <2>4, <2>7, <2>8 DEF Inv, Staged, Own, Known
  <2>13. Secret'
    <3>1. \A t \in Slots : Makes(t) => request[t].code \in Codes
      BY KnownCodes DEF Inv, Staged
    <3>2. \A t \in Slots : request'[t].older = request[t].older /\ (t # s => request'[t] = request[t])
      BY <2>4, <2>7
    <3> QED BY <1>1, <2>8, <2>10, <3>1, <3>2 DEF Inv, Secret
  <2>14. Counted'
    BY <1>1 DEF Inv, Counted
  <2>15. Bounded'
    <3>1. ASSUME NEW c \in Codes, c = n
          PROVE  tries'[c] + Cardinality(Readers(c)') < Limit + Cardinality(Slots)
      <4>1. tries'[c] = tries[c] /\ tries[c] \in Nat /\ tries[c] <= code[n].attempts /\ code[n].attempts \in Nat
        BY <1>1, <2>1, <3>1 DEF Inv, Counted, TypeOK, Rows
      <4>2. Readers(c)' \in SUBSET Slots
        BY DEF Readers
      <4>3. Cardinality(Readers(c)') \in Nat /\ Cardinality(Readers(c)') <= Cardinality(Slots)
        BY <4>2, EndpointsAssumption, FS_Subset, FS_CardinalityType
      <4> QED BY <2>5, <4>1, <4>3, SlotCount, EndpointsAssumption
    <3>2. ASSUME NEW c \in Codes, c # n
          PROVE  tries'[c] + Cardinality(Readers(c)') < Limit + Cardinality(Slots)
      BY <1>1, <2>9, <3>2, FewerReaders DEF Inv
    <3> QED BY <3>1, <3>2 DEF Bounded
  <2>16. Doomed'
    BY <1>1, <2>4, <2>7 DEF Inv, Doomed
  <2>17. Gone'
    BY <1>1, <2>2, <2>4, <2>7 DEF Inv, Gone
  <2> QED BY <2>7, <2>11, <2>12, <2>13, <2>14, <2>15, <2>16, <2>17 DEF Inv
<1> QED BY <1>2, <1>3 DEF Read

LEMMA CountKeeps == ASSUME Inv, NEW s \in Slots, Count(s) PROVE Inv'
<1> DEFINE n == request[s].code
           r == [request[s] EXCEPT !.at = "counted"]
           row == [code[n] EXCEPT !.attempts = IF code[n].row = "none" THEN code[n].attempts
                                               ELSE code[n].attempts + 1]
<1>1. /\ request[s].at = "read" /\ request[s].kind = "confirm" /\ request[s] \in Requests
      /\ n \in Known /\ n \in Codes /\ code[n] \in Rows /\ tries[n] \in Nat
      /\ UNCHANGED <<remote, endpoint, made, acked, alone, dead, posts>>
  BY KnownCodes DEF Count, Inv, Staged, TypeOK
<1>2. /\ row \in Rows /\ row.of = code[n].of /\ row.row = code[n].row
      /\ row.attempts = IF code[n].row = "none" THEN code[n].attempts ELSE code[n].attempts + 1
  BY <1>1 DEF Rows
<1>3. /\ r \in Requests /\ r.at = "counted" /\ r.kind = request[s].kind /\ r.code = n /\ r.of = request[s].of
      /\ r.older = request[s].older /\ r.answer = request[s].answer /\ r.guess = request[s].guess
  BY <1>1 DEF Requests, Steps
<1>4. /\ request' = [request EXCEPT ![s] = r] /\ code' = [code EXCEPT ![n] = row]
      /\ tries' = [tries EXCEPT ![n] = tries[n] + 1]
  BY DEF Count
<1> HIDE DEF n, r, row
<1>5. TypeOK' /\ \A t \in Slots : request'[t] = IF t = s THEN r ELSE request[t]
  BY <1>1, <1>2, <1>3, <1>4 DEF Inv, TypeOK
<1>6. \A c \in Codes : /\ code'[c].of = code[c].of /\ code'[c].row = code[c].row
                       /\ c # n => code'[c] = code[c] /\ tries'[c] = tries[c]
  BY <1>1, <1>2, <1>4 DEF Inv, TypeOK
<1>7. \A t \in Slots : Makes(t)' => t # s /\ Makes(t)
  BY <1>3, <1>5 DEF Makes
<1>8. /\ \A c : Readers(c)' \subseteq Readers(c)
      /\ \A c : c = n => s \in Readers(c) /\ Readers(c)' \subseteq Readers(c) \ {s}
  BY <1>1, <1>3, <1>5 DEF Readers, n
<1>9. \A c \in Codes : Untouched(c) => c # n /\ Untouched(c)'
  BY <1>6, <1>8 DEF Untouched
<1>10. Numbered'
  BY <1>1, <1>3, <1>5, <1>9 DEF Inv, Numbered, Known
<1>11. Staged' /\ Own'
  BY <1>1, <1>3, <1>5, <1>7 DEF Inv, Staged, Own, Known
<1>12. Secret'
  <2>1. \A t \in Slots : Makes(t) => request[t].code \in Codes
    BY KnownCodes DEF Inv, Staged
  <2>2. \A t \in Slots : request'[t].older = request[t].older /\ (t # s => request'[t] = request[t])
    BY <1>3, <1>5
  <2> QED BY <1>1, <1>7, <1>9, <2>1, <2>2 DEF Inv, Secret
<1>13. Counted'
  <2>1. code'[n] = row /\ tries'[n] = tries[n] + 1 /\ code[n].attempts \in Nat
    BY <1>1, <1>4 DEF Inv, TypeOK, Rows
  <2>2. code'[n].row # "none" => tries'[n] <= code'[n].attempts
    BY <1>1, <1>2, <2>1 DEF Inv, Counted
  <2> QED BY <1>6, <2>2 DEF Inv, Counted
<1>14. Bounded'
  <2>1. ASSUME NEW c \in Codes, c = n
        PROVE  tries'[c] + Cardinality(Readers(c)') < Limit + Cardinality(Slots)
    <3>1. /\ IsFiniteSet(Readers(c)) /\ Cardinality(Readers(c)) \in Nat
          /\ IsFiniteSet(Readers(c) \ {s}) /\ Cardinality(Readers(c) \ {s}) = Cardinality(Readers(c)) - 1
      BY <1>8, <2>1, ReaderCount, FS_RemoveElement
    <3>2. Readers(c)' \in SUBSET (Readers(c) \ {s})
      BY <1>8, <2>1
    <3>3. Cardinality(Readers(c)') \in Nat /\ Cardinality(Readers(c)') <= Cardinality(Readers(c)) - 1
      BY <3>1, <3>2, FS_Subset, FS_CardinalityType
    <3>4. /\ tries[c] \in Nat /\ tries'[c] = tries[c] + 1
          /\ tries[c] + Cardinality(Readers(c)) < Limit + Cardinality(Slots)
      BY <1>1, <1>4, <2>1 DEF Inv, TypeOK, Bounded
    <3> QED BY <3>1, <3>3, <3>4, SlotCount, EndpointsAssumption
  <2>2. ASSUME NEW c \in Codes, c # n
        PROVE  tries'[c] + Cardinality(Readers(c)') < Limit + Cardinality(Slots)
    BY <1>6, <1>8, <2>2, FewerReaders DEF Inv
  <2> QED BY <2>1, <2>2 DEF Bounded
<1>15. Doomed'
  <2>1. \A t \in Slots : request[t].older \subseteq Codes
    BY KnownCodes DEF Inv, Numbered
  <2> QED BY <1>1, <1>3, <1>5, <1>6, <2>1 DEF Inv, Doomed
<1>16. Gone'
  BY <1>1, <1>3, <1>5, <1>6, KnownCodes DEF Inv, Gone, Numbered, n
<1> QED BY <1>5, <1>10, <1>11, <1>12, <1>13, <1>14, <1>15, <1>16 DEF Inv

LEMMA ExpireKeeps == ASSUME Inv, NEW n \in Codes, Expire(n) PROVE Inv'
<1> DEFINE row == [code[n] EXCEPT !.expired = TRUE]
<1>1. /\ code' = [code EXCEPT ![n] = row]
      /\ UNCHANGED <<remote, endpoint, made, request, acked, alone, dead, tries, posts>>
  BY DEF Expire, ghosts
<1>2. row \in Rows /\ row.of = code[n].of /\ row.row = code[n].row /\ row.attempts = code[n].attempts
  BY DEF Inv, TypeOK, Rows
<1> HIDE DEF row
<1>3. TypeOK' /\ \A c \in Codes : /\ code'[c].of = code[c].of /\ code'[c].row = code[c].row
                                  /\ code'[c].attempts = code[c].attempts
  BY <1>1, <1>2 DEF Inv, TypeOK
<1>4. /\ \A c : Readers(c)' = Readers(c)
      /\ \A t \in Slots : Makes(t)' <=> Makes(t)
  BY <1>1 DEF Readers, Makes
<1>5. \A c \in Codes : Untouched(c) => Untouched(c)'
  BY <1>1, <1>3, <1>4 DEF Untouched
<1>6. Numbered' /\ Staged' /\ Own'
  BY <1>1, <1>4, <1>5 DEF Inv, Numbered, Staged, Own, Known
<1>7. Secret'
  <2>1. \A t \in Slots : Makes(t) => request[t].code \in Codes
    BY KnownCodes DEF Inv, Staged
  <2> QED BY <1>1, <1>4, <1>5, <2>1 DEF Inv, Secret
<1>8. Counted' /\ Bounded'
  BY <1>1, <1>3, <1>4 DEF Inv, Counted, Bounded
<1>9. Doomed' /\ Gone'
  <2>1. dead \subseteq Codes /\ \A t \in Slots : request[t].older \subseteq Codes
    BY KnownCodes DEF Inv, Numbered
  <2> QED BY <1>1, <1>3, <2>1 DEF Inv, Doomed, Gone
<1> QED BY <1>3, <1>6, <1>7, <1>8, <1>9 DEF Inv

LEMMA Invariance == Spec => []Inv
<1>1. Inv /\ [Next]_vars => Inv'
  <2> SUFFICES ASSUME Inv, [Next]_vars PROVE Inv'
    OBVIOUS
  <2>1. CASE UNCHANGED vars
    BY <2>1 DEF vars, server, ghosts, Inv, TypeOK, Numbered, Staged, Own, Secret, Counted, Bounded, Doomed,
                Gone, Untouched, Makes, Readers, Known
  <2>2. CASE Next
    <3>1. ASSUME NEW s \in Slots, Asks(s) \/ Handles(s) \/ Told(s) PROVE Inv'
      BY <3>1, AsksKeeps, ToldKeeps, FindKeeps, ClearKeeps, InsertKeeps, SendKeeps, ReadKeeps, CountKeeps,
         JudgeKeeps, DenyKeeps, BreakKeeps DEF Handles
    <3>2. ASSUME NEW c \in Codes, Expire(c) PROVE Inv'
      BY <3>2, ExpireKeeps
    <3> QED BY <2>2, <3>1, <3>2 DEF Next
  <2> QED BY <2>1, <2>2
<1> QED BY <1>1, InitInv, PTL DEF Spec

-----------------------------------------------------------------------------
(* The right code works *)

\* A request knows its endpoint, and its code as one of the endpoint; a code
\* is not reported before its request is over.
Placed(s) ==
  LET r == request[s]
  IN  /\ r.at # "idle" => r.of \in Endpoints /\ (r.kind = "confirm" => endpoint[r.of].exists)
      /\ r.at = "posted" => r.code = NoCode
      /\ r.code # NoCode => code[r.code].of = r.of
      /\ \A d \in r.seen : d \in Known /\ code[d].of = r.of
      /\ r.at # "answered" => r.answer = "none"
      /\ UnderWay(s) /\ r.kind # "confirm" => r.code \notin acked

\* A request that creates an endpoint is the only one for a code of it.
Creates(s) ==
  request[s].at = "posted" /\ request[s].kind = "create" =>
    /\ ~endpoint[request[s].of].exists
    /\ \A t \in Slots \ {s} : ~(UnderWay(t) /\ MakesCode(t, request[s].of))

\* What an answer to the right code c of e takes.
Excused(answer, denied, c, e) ==
  /\ answer = "wrong" => remote /\ denied
  /\ answer = "expired" => code[c].expired \/ endpoint[e].verified # NoCode
  /\ answer = "locked" => code[c].attempts >= Limit

\* What was typed is the code that was reported, and it is the one that is read.
Heard(s) ==
  LET r == request[s]
      c == r.guess
  IN  r.good /\ r.at # "idle" =>
        /\ r.kind = "confirm" /\ c \in acked /\ code[c].of = r.of
        /\ c \in alone /\ r.at \in {"read", "counted"} => r.code = c /\ r.known
        /\ c \in alone => Excused(r.answer, r.denied, c, r.of)

\* Its SMS was sent; its row was inserted.
Sent(c) ==
  \/ c \in acked
  \/ \E t \in Slots : request[t].kind # "confirm" /\ request[t].code = c /\ request[t].answer = "done"
Inserted(c) ==
  \/ Sent(c)
  \/ \E t \in Slots : request[t].kind # "confirm" /\ request[t].code = c /\ request[t].at = "inserted"

\* A code that met no other request replaces the ones before it, and stays
\* until it has verified its endpoint.
Sound(c) ==
  LET e == code[c].of
  IN  /\ c \in Known /\ e \in Endpoints
      /\ \A t \in Slots : UnderWay(t) /\ MakesCode(t, e) => request[t].code = c
      /\ \A t \in Slots : request[t].at = "cleared" /\ request[t].code = c => Live(e) \subseteq request[t].seen
      /\ Inserted(c) => /\ Live(e) \subseteq {c} /\ code[c].row # "none"
                        /\ code[c].row = "consumed" => endpoint[e].verified # NoCode
      /\ Sent(c) => code[c].recorded

WorkInv ==
  /\ \A s \in Slots : Placed(s) /\ Creates(s) /\ Heard(s)
  /\ \A c \in alone : Sound(c)
  /\ \A e \in Endpoints : endpoint[e].verified # NoCode => endpoint[e].exists

LEMMA WorkInit == Init => WorkInv
<1> SUFFICES ASSUME Init PROVE WorkInv
  OBVIOUS
<1> USE EndpointsAssumption
<1>1. /\ made \in 0 .. MaxCodes /\ acked = Known /\ alone = Known
      /\ \A s \in Slots : request[s] = Idle
  BY DEF Init, Known
<1>2. Idle.at = "idle" /\ Idle.code = NoCode /\ Idle.seen = {} /\ Idle.kind = "confirm" /\ Idle.answer = "none"
  BY IdleRequest
<1>3. \A s \in Slots : Placed(s) /\ Creates(s) /\ Heard(s)
  BY <1>1, <1>2 DEF Placed, Creates, Heard, UnderWay
<1>4. PICK owner \in [1 .. made -> Endpoints] :
        /\ \A c, d \in 1 .. made : c # d => owner[c] # owner[d]
        /\ endpoint = [e \in Endpoints |-> [exists |-> \E c \in 1 .. made : owner[c] = e, verified |-> NoCode]]
        /\ code = [c \in Codes |-> IF c <= made THEN [NotYet EXCEPT !.of = owner[c], !.row = "live", !.recorded = TRUE]
                                   ELSE NotYet]
  BY DEF Init
<1>5. Known \subseteq Codes /\ \A c \in Codes : c \in Known <=> c <= made
  BY <1>1 DEF Known, Codes
<1>6. \A c \in Codes : IF c \in Known
                       THEN code[c].of = owner[c] /\ code[c].row = "live" /\ code[c].recorded
                       ELSE code[c].row = "none"
  BY <1>4, <1>5 DEF NotYet
<1>7. ASSUME NEW c \in alone
      PROVE  Sound(c)
  <2>1. c \in Known /\ c \in Codes /\ owner[c] \in Endpoints /\ code[c].of = owner[c]
    BY <1>1, <1>5, <1>6, <1>7 DEF Known
  <2>2. ASSUME NEW d \in Live(owner[c])
        PROVE  d = c
    <3>1. d \in Codes /\ code[d].of = owner[c] /\ code[d].row = "live"
      BY DEF Live, Of
    <3>2. d \in Known /\ owner[d] = owner[c]
      BY <1>6, <3>1
    <3> QED BY <1>4, <2>1, <3>2 DEF Known
  <2> QED BY <1>1, <1>2, <1>6, <2>1, <2>2 DEF Sound, UnderWay
<1>8. \A e \in Endpoints : endpoint[e].verified = NoCode
  BY <1>4
<1> QED BY <1>3, <1>7, <1>8 DEF WorkInv

\* What no step takes back.
Onward ==
  /\ remote' = remote
  /\ Known \subseteq Known' /\ acked \subseteq acked' /\ alone' \cap Known \subseteq alone
  /\ \A c \in Known : /\ code'[c].of = code[c].of
                      /\ code[c].expired => code'[c].expired
                      /\ code[c].attempts >= Limit => code'[c].attempts >= Limit
  /\ \A e \in Endpoints : /\ endpoint[e].exists => endpoint'[e].exists
                          /\ endpoint[e].verified # NoCode => endpoint'[e].verified # NoCode

\* The other requests do not notice.
LEMMA OthersKeep ==
  ASSUME Inv, WorkInv, NEW s \in Slots, Onward,
         \A t \in Slots : t # s => request'[t] = request[t],
         \/ acked' = acked
         \/ /\ request[s].kind # "confirm" /\ request[s].code # NoCode
            /\ acked' = acked \cup {request[s].code}
  PROVE  \A t \in Slots : t # s => Placed(t)' /\ Heard(t)'
<1> SUFFICES ASSUME NEW t \in Slots, t # s
             PROVE  Placed(t)' /\ Heard(t)'
  OBVIOUS
<1>1. /\ request'[t] = request[t] /\ Placed(t) /\ Heard(t)
      /\ request[t].code \in Known \cup {NoCode} /\ acked \subseteq Known
  BY DEF WorkInv, Inv, Numbered
<1>2. Placed(t)'
  <2>1. UnderWay(t) /\ request[t].kind # "confirm" => request[t].code \notin acked'
    BY <1>1 DEF Placed, Inv, Own
  <2>2. request[t].code # NoCode => code'[request[t].code].of = request[t].of
    BY <1>1 DEF Placed, Onward
  <2>3. \A d \in request[t].seen : d \in Known' /\ code'[d].of = request[t].of
    BY <1>1 DEF Placed, Onward
  <2>4. request[t].at # "idle" => /\ request[t].of \in Endpoints
                                  /\ request[t].kind = "confirm" => endpoint'[request[t].of].exists
    BY <1>1 DEF Placed, Onward
  <2> QED BY <1>1, <2>1, <2>2, <2>3, <2>4 DEF Placed, UnderWay
<1>3. Heard(t)'
  <2> DEFINE r == request[t]
             c == r.guess
             Gives(answer, denied, d, e) ==
               /\ answer = "wrong" => remote' /\ denied
               /\ answer = "expired" => code'[d].expired \/ endpoint'[e].verified # NoCode
               /\ answer = "locked" => code'[d].attempts >= Limit
  <2> SUFFICES ASSUME r.good, r.at # "idle"
               PROVE  /\ r.kind = "confirm" /\ c \in acked' /\ code'[c].of = r.of
                      /\ c \in alone' /\ r.at \in {"read", "counted"} => r.code = c /\ r.known
                      /\ c \in alone' => Gives(r.answer, r.denied, c, r.of)
    BY <1>1 DEF Heard, Excused
  <2>1. /\ r.kind = "confirm" /\ c \in acked /\ c \in Known /\ code[c].of = r.of /\ r.of \in Endpoints
        /\ c \in alone' => c \in alone
    BY <1>1 DEF Heard, Onward, Placed
  <2>2. c \in acked' /\ code'[c].of = r.of
    BY <2>1 DEF Onward
  <2>3. c \in alone' /\ r.at \in {"read", "counted"} => r.code = c /\ r.known
    BY <1>1, <2>1 DEF Heard
  <2>4. c \in alone' => Excused(r.answer, r.denied, c, r.of)
    BY <1>1, <2>1 DEF Heard
  <2>5. c \in alone' => Gives(r.answer, r.denied, c, r.of)
    BY <2>1, <2>4 DEF Onward, Excused
  <2> QED BY <2>1, <2>2, <2>3, <2>5
<1> QED BY <1>2, <1>3

\* No request begins to create an endpoint.
LEMMA CreatesKeep ==
  ASSUME WorkInv, NEW s \in Slots,
         \A t \in Slots : t # s => request'[t] = request[t],
         request'[s].at # "posted",
         request'[s].kind # "confirm" /\ request'[s].at # "answered" =>
           UnderWay(s) /\ request'[s].kind = request[s].kind /\ request'[s].of = request[s].of,
         \A e \in Endpoints :
           endpoint'[e].exists => endpoint[e].exists \/ (UnderWay(s) /\ MakesCode(s, e))
  PROVE  \A t \in Slots : Creates(t)'
<1> SUFFICES ASSUME NEW t \in Slots, request'[t].at = "posted", request'[t].kind = "create"
             PROVE  /\ ~endpoint'[request'[t].of].exists
                    /\ \A u \in Slots \ {t} : ~(UnderWay(u)' /\ MakesCode(u, request[t].of)')
  BY DEF Creates
<1>1. t # s /\ request'[t] = request[t] /\ Creates(t) /\ request[t].of \in Endpoints
  BY DEF WorkInv, Placed
<1>2. ~endpoint'[request'[t].of].exists
  BY <1>1 DEF Creates
<1>3. ASSUME NEW u \in Slots \ {t}, UnderWay(u)', MakesCode(u, request[t].of)'
      PROVE  FALSE
  <2>1. ~(UnderWay(u) /\ MakesCode(u, request[t].of))
    BY <1>1 DEF Creates
  <2>2. CASE u # s
    BY <1>1, <1>3, <2>1, <2>2 DEF UnderWay, MakesCode
  <2>3. CASE u = s
    BY <1>1, <1>3, <2>1, <2>3 DEF UnderWay, MakesCode
  <2> QED BY <2>2, <2>3
<1> QED BY <1>2, <1>3

\* A code that stays alone.
LEMMA SoundKeeps ==
  ASSUME Inv, NEW c \in alone, Sound(c), NEW s \in Slots, Onward,
         \A t \in Slots : t # s => request'[t] = request[t],
         request'[s].kind # "confirm" /\ request'[s].at \notin {"idle", "answered"}
           /\ request'[s].of = code[c].of => request'[s].code = c,
         request'[s].at = "cleared" /\ request'[s].code = c => Live(code[c].of) \subseteq request'[s].seen,
         \A d \in Codes : code'[d].row = "live" /\ code'[d].of = code[c].of => d \in Live(code[c].of),
         Inserted(c)' => Inserted(c), Sent(c)' => Sent(c),
         Inserted(c) =>
           /\ code'[c].row = "none" => code[c].row = "none"
           /\ code'[c].row = "consumed" =>
                code[c].row = "consumed" \/ endpoint'[code[c].of].verified # NoCode,
         code[c].recorded => code'[c].recorded
  PROVE  Sound(c)'
<1> DEFINE e == code[c].of
<1>1. c \in Known /\ c \in Known' /\ e \in Endpoints /\ code'[c].of = e
  BY DEF Sound, Onward
<1>2. \A d \in Codes : code'[d].row = "live" /\ code'[d].of = e => d \in Live(e)
  OBVIOUS
<1>3. /\ \A t \in Slots : UnderWay(t) /\ MakesCode(t, e) => request[t].code = c
      /\ \A t \in Slots : request[t].at = "cleared" /\ request[t].code = c => Live(e) \subseteq request[t].seen
      /\ Inserted(c) => /\ Live(e) \subseteq {c} /\ code[c].row # "none"
                        /\ code[c].row = "consumed" => endpoint[e].verified # NoCode
      /\ Sent(c) => code[c].recorded
  BY DEF Sound
<1>4. /\ request'[s].kind # "confirm" /\ request'[s].at \notin {"idle", "answered"}
           /\ request'[s].of = e => request'[s].code = c
      /\ request'[s].at = "cleared" /\ request'[s].code = c => Live(e) \subseteq request'[s].seen
      /\ Inserted(c) =>
           /\ code'[c].row = "none" => code[c].row = "none"
           /\ code'[c].row = "consumed" => code[c].row = "consumed" \/ endpoint'[e].verified # NoCode
  OBVIOUS
<1>5. endpoint[e].verified # NoCode => endpoint'[e].verified # NoCode
  BY <1>1 DEF Onward
<1>6. \A t \in Slots : request'[t].at \notin {"idle", "answered"}
         /\ request'[t].kind \in {"create", "resend"} /\ request'[t].of = e => request'[t].code = c
  BY <1>3, <1>4 DEF UnderWay, MakesCode
<1>7. \A t \in Slots : request'[t].at = "cleared" /\ request'[t].code = c =>
         \A d \in Codes : code'[d].row = "live" /\ code'[d].of = e => d \in request'[t].seen
  BY <1>2, <1>3, <1>4
<1>8. Inserted(c)' => /\ \A d \in Codes : code'[d].row = "live" /\ code'[d].of = e => d = c
                      /\ code'[c].row # "none"
                      /\ code'[c].row = "consumed" => endpoint'[e].verified # NoCode
  BY <1>2, <1>3, <1>4, <1>5
<1>9. Sent(c)' => code'[c].recorded
  BY <1>3
<1> HIDE DEF e
<1> QED BY <1>1, <1>6, <1>7, <1>8, <1>9 DEF Sound, UnderWay, MakesCode, Live, Of

\* A step that begins no request and draws, clears, inserts or sends no code.
LEMMA QuietKeeps ==
  ASSUME Inv, WorkInv, NEW s \in Slots,
         \A t \in Slots : t # s => request'[t] = request[t],
         remote' = remote, made' = made, alone' = alone,
         \/ acked' = acked
         \/ /\ request[s].kind # "confirm" /\ request[s].code # NoCode /\ request[s].answer = "done"
            /\ acked' = acked \cup {request[s].code},
         \A c \in Codes : /\ code'[c].of = code[c].of
                          /\ code[c].expired => code'[c].expired
                          /\ code[c].attempts >= Limit => code'[c].attempts >= Limit
                          /\ code[c].recorded => code'[c].recorded
                          /\ code'[c].row = "live" => code[c].row = "live"
                          /\ code'[c].row = "none" => code[c].row = "none"
                          /\ code'[c].row = "consumed" =>
                               code[c].row = "consumed" \/ endpoint'[code[c].of].verified # NoCode,
         \A e \in Endpoints : /\ endpoint[e].verified # NoCode => endpoint'[e].verified # NoCode
                              /\ endpoint'[e].exists = endpoint[e].exists
                              /\ endpoint'[e].verified # NoCode => endpoint[e].exists,
         request'[s].at \notin {"posted", "cleared"},
         request'[s].kind # "confirm" => request'[s].at = "answered" /\ request'[s].answer # "done",
         Placed(s)', Heard(s)'
  PROVE  WorkInv'
<1>1. Known' = Known /\ Known \subseteq Codes /\ acked \subseteq acked'
  BY KnownCodes DEF Inv, Known
<1>2. Onward
  BY <1>1 DEF Onward
<1>3. \A t \in Slots : Placed(t)' /\ Heard(t)'
  BY <1>2, OthersKeep
<1>4. \A t \in Slots : Creates(t)'
  BY CreatesKeep
<1>5. ASSUME NEW c \in alone
      PROVE  Sound(c)'
  <2>1. Sound(c) /\ c \in Codes
    BY <1>1 DEF WorkInv, Sound
  <2>2. \A d : Sent(d)' => Sent(d)
    BY DEF Sent
  <2>3. \A d : Inserted(d)' => Inserted(d)
    BY <2>2 DEF Inserted
  <2>4. \A d \in Codes : code'[d].row = "live" /\ code'[d].of = code[c].of => d \in Live(code[c].of)
    BY DEF Live, Of
  <2> QED BY <1>2, <2>1, <2>2, <2>3, <2>4, SoundKeeps
<1> QED BY <1>3, <1>4, <1>5 DEF WorkInv

\* The request of s is answered, and the others stay as they are.
Ends(s, answer, denied) ==
  /\ \A t \in Slots : t # s => request'[t] = request[t]
  /\ request'[s].at = "answered" /\ request'[s].answer = answer /\ request'[s].seen = {}
  /\ request'[s].kind = request[s].kind /\ request'[s].code = request[s].code
  /\ request'[s].of = request[s].of /\ request'[s].older = request[s].older
  /\ request'[s].guess = request[s].guess /\ request'[s].good = request[s].good
  /\ request'[s].denied = denied

LEMMA AnswerIs ==
  ASSUME TypeOK, NEW s \in Slots, NEW answer, AnswerWith(s, answer)
  PROVE  Ends(s, answer, request[s].denied)
<1>1. request \in [Slots -> Requests] /\ request[s] \in Requests
  BY DEF TypeOK
<1> DEFINE r == [request[s] EXCEPT !.at = "answered", !.answer = answer, !.seen = {}, !.known = FALSE]
<1>2. /\ r.at = "answered" /\ r.answer = answer /\ r.seen = {}
      /\ r.kind = request[s].kind /\ r.code = request[s].code
      /\ r.of = request[s].of /\ r.older = request[s].older
      /\ r.guess = request[s].guess /\ r.good = request[s].good /\ r.denied = request[s].denied
  BY <1>1 DEF Requests
<1>3. request' = [request EXCEPT ![s] = r]
  BY DEF AnswerWith
<1> HIDE DEF r
<1> QED BY <1>1, <1>2, <1>3 DEF Ends

LEMMA DenyIs == ASSUME TypeOK, NEW s \in Slots, Deny(s) PROVE Ends(s, "wrong", TRUE)
<1>1. request \in [Slots -> Requests] /\ request[s] \in Requests
  BY DEF TypeOK
<1> DEFINE r == [request[s] EXCEPT !.at = "answered", !.answer = "wrong", !.denied = TRUE,
                                   !.seen = {}, !.known = FALSE]
<1>2. /\ r.at = "answered" /\ r.answer = "wrong" /\ r.seen = {}
      /\ r.kind = request[s].kind /\ r.code = request[s].code
      /\ r.of = request[s].of /\ r.older = request[s].older
      /\ r.guess = request[s].guess /\ r.good = request[s].good /\ r.denied = TRUE
  BY <1>1 DEF Requests
<1>3. request' = [request EXCEPT ![s] = r]
  BY DEF Deny
<1> HIDE DEF r
<1> QED BY <1>1, <1>2, <1>3 DEF Ends

\* What an answer owes to who typed the right code.
Owed(s, answer, denied) ==
  request[s].good /\ request[s].guess \in alone => Excused(answer, denied, request[s].guess, request[s].of)

\* An answer is placed, and hears what the request had heard.
LEMMA AnswerPlaced ==
  ASSUME Inv, WorkInv, NEW s \in Slots, NEW answer, NEW denied, Ends(s, answer, denied), request[s].at # "idle",
         remote' = remote, acked' = acked, alone' = alone, made' = made, Owed(s, answer, denied),
         \A c \in Codes : /\ code'[c].of = code[c].of
                          /\ code[c].expired => code'[c].expired
                          /\ code[c].attempts >= Limit => code'[c].attempts >= Limit,
         \A e \in Endpoints : /\ endpoint[e].exists => endpoint'[e].exists
                              /\ endpoint[e].verified # NoCode => endpoint'[e].verified # NoCode
  PROVE  Placed(s)' /\ Heard(s)'
<1>1. /\ request'[s].at = "answered" /\ request'[s].answer = answer /\ request'[s].seen = {}
      /\ request'[s].kind = request[s].kind /\ request'[s].code = request[s].code
      /\ request'[s].of = request[s].of /\ request'[s].denied = denied
      /\ request'[s].guess = request[s].guess /\ request'[s].good = request[s].good
  BY DEF Ends
<1>2. Placed(s) /\ Heard(s) /\ request[s].of \in Endpoints /\ acked \subseteq Codes
      /\ request[s].code \in Codes \cup {NoCode}
  BY KnownCodes DEF WorkInv, Placed, Inv, TypeOK, Numbered
<1>3. Placed(s)'
  BY <1>1, <1>2 DEF Placed, UnderWay
<1>4. Heard(s)'
  <2> DEFINE c == request[s].guess
  <2>1. request[s].good => request[s].kind = "confirm" /\ c \in acked /\ c \in Codes /\ code[c].of = request[s].of
    BY <1>2 DEF Heard
  <2>2. request[s].good /\ c \in alone => Excused(answer, denied, c, request[s].of)
    BY DEF Owed
  <2>3. request[s].good /\ c \in alone =>
          /\ answer = "wrong" => remote' /\ denied
          /\ answer = "expired" => code'[c].expired \/ endpoint'[request[s].of].verified # NoCode
          /\ answer = "locked" => code'[c].attempts >= Limit
    BY <1>2, <2>1, <2>2 DEF Excused
  <2> QED BY <1>1, <1>2, <2>1, <2>3 DEF Heard, Excused
<1> QED BY <1>3, <1>4

LEMMA AnswerWorks ==
  ASSUME Inv, WorkInv, NEW s \in Slots, NEW answer, NEW denied, answer # "done", request[s].at # "idle",
         Ends(s, answer, denied), Owed(s, answer, denied),
         UNCHANGED <<remote, endpoint, code, made, acked, alone>>
  PROVE  WorkInv'
<1>1. Placed(s)' /\ Heard(s)'
  BY AnswerPlaced
<1>2. /\ \A t \in Slots : t # s => request'[t] = request[t]
      /\ request'[s].at = "answered" /\ request'[s].answer = answer
  BY DEF Ends
<1>3. \A e \in Endpoints : endpoint[e].verified # NoCode => endpoint[e].exists
  BY DEF WorkInv
<1> QED BY <1>1, <1>2, <1>3, QuietKeeps

\* The provider's refusal of the right code is the excuse that it leaves.
LEMMA DenyWorks == ASSUME Inv, WorkInv, NEW s \in Slots, Deny(s) PROVE WorkInv'
<1>1. /\ request[s].at # "idle" /\ Ends(s, "wrong", TRUE)
      /\ UNCHANGED <<remote, endpoint, code, made, acked, alone>>
  BY DenyIs DEF Deny, server, ghosts, Inv
<1>2. Owed(s, "wrong", TRUE)
  BY DEF Owed, Excused, Deny
<1> QED BY <1>1, <1>2, AnswerWorks

LEMMA BreakWorks == ASSUME Inv, WorkInv, NEW s \in Slots, Break(s) PROVE WorkInv'
<1>1. /\ request[s].at # "idle" /\ Ends(s, "failed", request[s].denied)
      /\ UNCHANGED <<remote, endpoint, code, made, acked, alone>>
  BY AnswerIs DEF Break, UnderWay, server, ghosts, Inv
<1>2. Owed(s, "failed", request[s].denied)
  BY DEF Owed, Excused
<1> QED BY <1>1, <1>2, AnswerWorks

LEMMA ToldWorks == ASSUME Inv, WorkInv, NEW s \in Slots, Told(s) PROVE WorkInv'
<1>1. /\ request[s].at = "answered"
      /\ UNCHANGED <<remote, endpoint, code, made, alone>>
      /\ \/ /\ request[s].kind # "confirm" /\ request[s].answer = "done"
            /\ acked' = acked \cup {request[s].code}
         \/ acked' = acked
  BY DEF Told, server
<1>2. (\A t \in Slots : t # s => request'[t] = request[t]) /\ request'[s] = Idle
  BY DEF Told, Inv, TypeOK
<1>3. request[s].kind # "confirm" /\ request[s].answer = "done" => request[s].code # NoCode
  BY KnownCodes DEF Inv, Staged
<1>4. Placed(s)' /\ Heard(s)'
  BY <1>2, IdleRequest DEF Placed, Heard, UnderWay
<1>5. \A e \in Endpoints : endpoint[e].verified # NoCode => endpoint[e].exists
  BY DEF WorkInv
<1> QED BY <1>1, <1>2, <1>3, <1>4, <1>5, IdleRequest, QuietKeeps

LEMMA ReadWorks == ASSUME Inv, WorkInv, NEW s \in Slots, Read(s) PROVE WorkInv'
<1> DEFINE live == Live(request[s].of)
           n == Newest(live)
           g == request[s].guess
           r == [request[s] EXCEPT !.at = "read", !.code = n, !.known = code[n].recorded]
<1>1. /\ request[s].at = "found" /\ request[s].kind = "confirm" /\ request[s] \in Requests
      /\ request[s].of \in Endpoints /\ request[s].answer = "none" /\ Placed(s) /\ Heard(s)
      /\ UNCHANGED <<remote, endpoint, code, made, acked, alone>>
  BY DEF Read, server, ghosts, Inv, TypeOK, WorkInv, Placed, UnderWay
<1>2. live # {} => n \in live /\ n \in Known /\ code[n].of = request[s].of
  <2>1. live \in SUBSET Codes
    BY DEF Live, Of
  <2>2. live # {} => n \in live
    BY <2>1, NewestIs
  <2>3. \A d \in live : d \in Known /\ code[d].of = request[s].of
    BY DEF Live, Of, Inv, Numbered, Untouched
  <2> QED BY <2>2, <2>3
<1>3. request[s].good /\ g \in alone =>
        /\ live \subseteq {g} /\ code[g].recorded
        /\ live = {} => endpoint[request[s].of].verified # NoCode
  <2> SUFFICES ASSUME request[s].good, g \in alone
               PROVE  /\ live \subseteq {g} /\ code[g].recorded
                      /\ live = {} => endpoint[request[s].of].verified # NoCode
    OBVIOUS
  <2>1. g \in acked /\ code[g].of = request[s].of /\ Sound(g) /\ Sent(g) /\ Inserted(g) /\ g \in Codes
    BY <1>1 DEF Heard, Sent, Inserted, WorkInv, Inv, TypeOK
  <2>2. /\ live \subseteq {g} /\ code[g].row # "none" /\ code[g].recorded
        /\ code[g].row = "consumed" => endpoint[request[s].of].verified # NoCode
    BY <2>1 DEF Sound
  <2>3. code[g].row \in {"none", "live", "consumed"}
    BY <2>1 DEF Inv, TypeOK, Rows
  <2>4. code[g].row = "live" => g \in live
    BY <2>1 DEF Live, Of
  <2> QED BY <2>2, <2>3, <2>4
<1>4. CASE \E answer \in {"expired", "locked"} :
             /\ AnswerWith(s, answer)
             /\ answer = "expired" => live = {} \/ (live # {} /\ code[n].expired)
             /\ answer = "locked" => live # {} /\ code[n].attempts >= Limit
  <2>1. PICK answer \in {"expired", "locked"} :
               /\ AnswerWith(s, answer)
               /\ answer = "expired" => live = {} \/ (live # {} /\ code[n].expired)
               /\ answer = "locked" => live # {} /\ code[n].attempts >= Limit
    BY <1>4
  <2>2. Owed(s, answer, request[s].denied)
    <3> SUFFICES ASSUME request[s].good, g \in alone
                 PROVE  Excused(answer, request[s].denied, g, request[s].of)
      BY DEF Owed
    <3>1. live # {} => n = g
      BY <1>2, <1>3
    <3> QED BY <1>3, <2>1, <3>1 DEF Excused
  <2>3. Ends(s, answer, request[s].denied) /\ answer # "done" /\ request[s].at # "idle"
    BY <1>1, <2>1, AnswerIs DEF Inv
  <2> QED BY <1>1, <2>2, <2>3, AnswerWorks
<1>5. CASE live # {} /\ request' = [request EXCEPT ![s] = r]
  <2>1. /\ r.at = "read" /\ r.kind = "confirm" /\ r.code = n /\ r.known = code[n].recorded
        /\ r.of = request[s].of /\ r.seen = request[s].seen /\ r.answer = "none"
        /\ r.guess = g /\ r.good = request[s].good
    BY <1>1 DEF Requests
  <2>2. request[s].good /\ g \in alone => n = g /\ code[g].recorded
    BY <1>2, <1>3, <1>5
  <2>3. request' = [request EXCEPT ![s] = r]
    BY <1>5
  <2>4. live # {}
    BY <1>5
  <2> HIDE DEF r, n, live
  <2>5. (\A t \in Slots : t # s => request'[t] = request[t]) /\ request'[s] = r
    BY <2>3 DEF Inv, TypeOK
  <2>6. Placed(s)'
    BY <1>1, <1>2, <2>1, <2>4, <2>5 DEF Placed, UnderWay, Known
  <2>7. Heard(s)'
    BY <1>1, <2>1, <2>2, <2>5 DEF Heard, Excused
  <2>8. \A e \in Endpoints : endpoint[e].verified # NoCode => endpoint[e].exists
    BY DEF WorkInv
  <2> QED BY <1>1, <2>1, <2>5, <2>6, <2>7, <2>8, QuietKeeps
<1> QED BY <1>4, <1>5 DEF Read

LEMMA CountWorks == ASSUME Inv, WorkInv, NEW s \in Slots, Count(s) PROVE WorkInv'
<1> DEFINE n == request[s].code
           r == [request[s] EXCEPT !.at = "counted"]
           row == [code[n] EXCEPT !.attempts = IF code[n].row = "none" THEN code[n].attempts
                                               ELSE code[n].attempts + 1]
<1>1. /\ request[s].at = "read" /\ request[s].kind = "confirm" /\ request[s] \in Requests
      /\ n \in Known /\ n \in Codes /\ code[n] \in Rows /\ Placed(s) /\ Heard(s)
      /\ UNCHANGED <<remote, endpoint, made, acked, alone>>
  BY KnownCodes DEF Count, Inv, Staged, TypeOK, WorkInv
<1>2. /\ row.of = code[n].of /\ row.row = code[n].row /\ row.expired = code[n].expired
      /\ row.recorded = code[n].recorded
      /\ code[n].attempts >= Limit => row.attempts >= Limit
  BY <1>1, EndpointsAssumption DEF Rows
<1>3. /\ r.at = "counted" /\ r.kind = request[s].kind /\ r.code = n /\ r.of = request[s].of
      /\ r.answer = request[s].answer /\ r.guess = request[s].guess /\ r.good = request[s].good
      /\ r.known = request[s].known /\ r.seen = request[s].seen
  BY <1>1 DEF Requests
<1>4. request' = [request EXCEPT ![s] = r] /\ code' = [code EXCEPT ![n] = row]
  BY DEF Count
<1> HIDE DEF n, r, row
<1>5. (\A t \in Slots : t # s => request'[t] = request[t]) /\ request'[s] = r
  BY <1>4 DEF Inv, TypeOK
<1>6. \A c \in Codes : /\ code'[c].of = code[c].of /\ code'[c].row = code[c].row
                       /\ code'[c].expired = code[c].expired /\ code'[c].recorded = code[c].recorded
                       /\ code[c].attempts >= Limit => code'[c].attempts >= Limit
  BY <1>1, <1>2, <1>4 DEF Inv, TypeOK
<1>7. Placed(s)'
  BY <1>1, <1>3, <1>5, <1>6, KnownCodes DEF Placed, UnderWay, Known, Inv, n
<1>8. Heard(s)'
  BY <1>1, <1>3, <1>5, <1>6 DEF Heard, Excused, Placed, UnderWay, Inv, TypeOK, n
<1>9. \A e \in Endpoints : endpoint[e].verified # NoCode => endpoint[e].exists
  BY DEF WorkInv
<1> QED BY <1>1, <1>3, <1>5, <1>6, <1>7, <1>8, <1>9, QuietKeeps

LEMMA JudgeWorks == ASSUME Inv, WorkInv, NEW s \in Slots, Judge(s) PROVE WorkInv'
<1> DEFINE n == request[s].code
           e == request[s].of
<1>1. /\ request[s].at = "counted" /\ request[s].kind = "confirm"
      /\ n \in Known /\ n \in Codes /\ n # NoCode /\ e \in Endpoints /\ code[n].of = e
      /\ Placed(s) /\ Heard(s)
      /\ UNCHANGED <<remote, made, acked, alone>>
  BY KnownCodes DEF Judge, ghosts, Inv, Staged, WorkInv, Placed
<1>2. CASE AnswerWith(s, "wrong") /\ ~(request[s].guess = n /\ request[s].known) /\ UNCHANGED <<remote, endpoint, code>>
  <2>1. Owed(s, "wrong", request[s].denied)
    BY <1>1, <1>2 DEF Owed, Heard
  <2>2. Ends(s, "wrong", request[s].denied) /\ request[s].at # "idle"
    BY <1>1, <1>2, AnswerIs DEF Inv
  <2> QED BY <1>1, <1>2, <2>1, <2>2, AnswerWorks
<1>3. CASE /\ endpoint' = [endpoint EXCEPT ![e].verified = n]
           /\ code' = [code EXCEPT ![n].row = IF @ = "live" THEN "consumed" ELSE @]
           /\ AnswerWith(s, "done")
  <2> DEFINE row == [code[n] EXCEPT !.row = IF code[n].row = "live" THEN "consumed" ELSE code[n].row]
  <2>1. code[n] \in Rows
    BY <1>1 DEF Inv, TypeOK
  <2>2. /\ row.of = code[n].of /\ row.attempts = code[n].attempts /\ row.expired = code[n].expired
        /\ row.recorded = code[n].recorded
        /\ row.row = IF code[n].row = "live" THEN "consumed" ELSE code[n].row
    BY <2>1 DEF Rows
  <2>3. code' = [code EXCEPT ![n] = row]
    BY <1>3
  <2>4. \A f \in Endpoints : /\ endpoint'[f].exists = endpoint[f].exists
                             /\ endpoint'[f].verified = IF f = e THEN n ELSE endpoint[f].verified
    BY <1>3 DEF Inv, TypeOK
  <2>5. endpoint[e].exists
    BY <1>1 DEF Placed
  <2> HIDE DEF row, n, e
  <2>6. \A c \in Codes : /\ code'[c].of = code[c].of /\ code'[c].attempts = code[c].attempts
                         /\ code'[c].expired = code[c].expired /\ code'[c].recorded = code[c].recorded
                         /\ code'[c].row = IF c = n /\ code[c].row = "live" THEN "consumed" ELSE code[c].row
    BY <2>2, <2>3 DEF Inv, TypeOK
  <2>7. Owed(s, "done", request[s].denied) /\ Ends(s, "done", request[s].denied)
    BY <1>3, AnswerIs DEF Owed, Excused, Inv
  <2>8. Placed(s)' /\ Heard(s)'
    BY <1>1, <1>3, <2>4, <2>6, <2>7, AnswerPlaced
  <2>9. /\ \A t \in Slots : t # s => request'[t] = request[t]
        /\ request'[s].at = "answered" /\ request'[s].kind = "confirm"
    BY <1>1, <2>7 DEF Ends
  <2>10. \A f \in Endpoints : /\ endpoint[f].verified # NoCode => endpoint'[f].verified # NoCode
                              /\ endpoint'[f].verified # NoCode => endpoint[f].exists
    BY <1>1, <2>4, <2>5 DEF WorkInv
  <2> QED BY <1>1, <2>4, <2>6, <2>8, <2>9, <2>10, QuietKeeps
<1> QED BY <1>2, <1>3 DEF Judge

LEMMA ExpireWorks == ASSUME Inv, WorkInv, NEW n \in Codes, Expire(n) PROVE WorkInv'
<1> DEFINE row == [code[n] EXCEPT !.expired = TRUE]
<1>1. /\ code' = [code EXCEPT ![n] = row]
      /\ UNCHANGED <<remote, endpoint, made, request, acked, alone>>
  BY DEF Expire, ghosts
<1>2. /\ row.of = code[n].of /\ row.row = code[n].row /\ row.attempts = code[n].attempts
      /\ row.recorded = code[n].recorded /\ row.expired
  BY DEF Inv, TypeOK, Rows
<1> HIDE DEF row
<1>3. \A c \in Codes : /\ code'[c].of = code[c].of /\ code'[c].row = code[c].row
                       /\ code'[c].attempts = code[c].attempts /\ code'[c].recorded = code[c].recorded
                       /\ code[c].expired => code'[c].expired
  BY <1>1, <1>2 DEF Inv, TypeOK
<1>4. Known' = Known /\ Known \subseteq Codes /\ acked \subseteq Codes
  BY <1>1, KnownCodes DEF Inv, TypeOK, Known
<1>5. \A t \in Slots : Placed(t) /\ Creates(t) /\ Heard(t)
  BY DEF WorkInv
<1>6. \A t \in Slots : Placed(t)'
  BY <1>1, <1>3, <1>4, <1>5 DEF Placed, UnderWay, Inv, Numbered
<1>7. \A t \in Slots : Creates(t)'
  BY <1>1, <1>5 DEF Creates, UnderWay, MakesCode
<1>8. \A t \in Slots : Heard(t)'
  BY <1>1, <1>3, <1>4, <1>5 DEF Heard, Excused
<1>9. ASSUME NEW c \in alone
      PROVE  Sound(c)'
  <2>1. Sound(c) /\ c \in Codes
    BY <1>4 DEF WorkInv, Sound
  <2>2. \A e : Live(e)' = Live(e)
    BY <1>3 DEF Live, Of
  <2>3. (Sent(c)' <=> Sent(c)) /\ (Inserted(c)' <=> Inserted(c))
    BY <1>1 DEF Sent, Inserted
  <2> QED BY <1>1, <1>3, <1>4, <2>1, <2>2, <2>3 DEF Sound, UnderWay, MakesCode
<1> QED BY <1>1, <1>6, <1>7, <1>8, <1>9 DEF WorkInv

LEMMA ClearWorks == ASSUME Inv, WorkInv, NEW s \in Slots, Clear(s) PROVE WorkInv'
<1> DEFINE r == [request[s] EXCEPT !.at = "cleared", !.seen = Live(request[s].of)]
<1>1. /\ request[s].at = "found" /\ request[s].kind # "confirm" /\ request[s] \in Requests
      /\ request[s].code \in Known /\ request[s].code # NoCode
      /\ request' = [request EXCEPT ![s] = r] /\ Placed(s) /\ Heard(s)
      /\ UNCHANGED <<remote, endpoint, code, made, acked, alone>>
  BY KnownCodes DEF Clear, server, ghosts, Inv, TypeOK, Staged, Makes, WorkInv
<1>2. /\ r.at = "cleared" /\ r.kind = request[s].kind /\ r.code = request[s].code
      /\ r.of = request[s].of /\ r.answer = request[s].answer
      /\ r.guess = request[s].guess /\ r.good = request[s].good /\ r.seen = Live(request[s].of)
  BY <1>1 DEF Requests
<1> HIDE DEF r
<1>3. (\A t \in Slots : t # s => request'[t] = request[t]) /\ request'[s] = r
  BY <1>1 DEF Inv, TypeOK
<1>4. Onward
  BY <1>1 DEF Onward, Known
<1>5. \A d \in Live(request[s].of) : d \in Known /\ code[d].of = request[s].of
  BY DEF Live, Of, Inv, Numbered, Untouched
<1>6. Placed(s)'
  BY <1>1, <1>2, <1>3, <1>5 DEF Placed, UnderWay, Known
<1>7. Heard(s)'
  BY <1>1, <1>2, <1>3 DEF Heard
<1>8. \A t \in Slots : Placed(t)' /\ Heard(t)'
  BY <1>1, <1>3, <1>4, <1>6, <1>7, OthersKeep
<1>9. UnderWay(s)
  BY <1>1 DEF UnderWay
<1>10. \A t \in Slots : Creates(t)'
  BY <1>1, <1>2, <1>3, <1>9, CreatesKeep
<1>11. ASSUME NEW c \in alone
       PROVE  Sound(c)'
  <2>1. Sound(c)
    BY DEF WorkInv
  <2>2. r.of = code[c].of => r.code = c
    BY <1>1, <1>2, <1>9, <2>1 DEF Sound, MakesCode, Requests, Kinds
  <2>3. r.code = c => r.of = code[c].of
    BY <1>1, <1>2 DEF Placed
  <2>4. (Sent(c)' => Sent(c)) /\ (Inserted(c)' => Inserted(c))
    BY <1>1, <1>2, <1>3 DEF Sent, Inserted
  <2>5. \A d \in Codes : code'[d].row = "live" /\ code'[d].of = code[c].of => d \in Live(code[c].of)
    BY <1>1 DEF Live, Of
  <2> QED BY <1>1, <1>2, <1>3, <1>4, <2>1, <2>2, <2>3, <2>4, <2>5, SoundKeeps
<1> QED BY <1>1, <1>8, <1>10, <1>11 DEF WorkInv

\* The INSERT of a code that is alone leaves no other one.
LEMMA InsertWorks == ASSUME Inv, WorkInv, NEW s \in Slots, Insert(s) PROVE WorkInv'
<1> DEFINE r == [request[s] EXCEPT !.at = "inserted", !.seen = {}]
           n == request[s].code
           row(c) == IF c = n THEN [code[c] EXCEPT !.row = "live"]
                     ELSE IF c \in request[s].seen /\ code[c].row = "live" THEN [code[c] EXCEPT !.row = "none"]
                     ELSE code[c]
<1>1. /\ request[s].at = "cleared" /\ request[s] \in Requests /\ request[s].kind # "confirm"
      /\ request[s].kind \in {"create", "resend"} /\ UnderWay(s)
      /\ n \in Known /\ n \in Codes /\ n # NoCode /\ Placed(s) /\ Heard(s)
      /\ request' = [request EXCEPT ![s] = r] /\ code' = [c \in Codes |-> row(c)]
      /\ UNCHANGED <<remote, endpoint, made, acked, alone>>
  BY KnownCodes DEF Insert, ghosts, Inv, TypeOK, Staged, WorkInv, UnderWay, Requests, Kinds
<1>2. /\ r.at = "inserted" /\ r.kind = request[s].kind /\ r.code = n
      /\ r.of = request[s].of /\ r.answer = request[s].answer
      /\ r.guess = request[s].guess /\ r.good = request[s].good /\ r.seen = {}
  BY <1>1 DEF Requests
<1>3. \A c \in Codes : /\ row(c).of = code[c].of /\ row(c).attempts = code[c].attempts
                       /\ row(c).expired = code[c].expired /\ row(c).recorded = code[c].recorded
                       /\ row(c).row = IF c = n THEN "live"
                                       ELSE IF c \in request[s].seen /\ code[c].row = "live" THEN "none"
                                       ELSE code[c].row
  BY DEF Inv, TypeOK, Rows
<1>4. \A c \in Codes : /\ code'[c].of = code[c].of /\ code'[c].attempts = code[c].attempts
                       /\ code'[c].expired = code[c].expired /\ code'[c].recorded = code[c].recorded
                       /\ code'[c].row = IF c = n THEN "live"
                                         ELSE IF c \in request[s].seen /\ code[c].row = "live" THEN "none"
                                         ELSE code[c].row
  BY <1>1, <1>3
<1>5. n \notin acked /\ code[n].of = request[s].of /\ request[s].answer = "none"
      /\ \A d \in request[s].seen : code[d].of = request[s].of
  BY <1>1 DEF Placed
<1> HIDE DEF r, n, row
<1>6. (\A t \in Slots : t # s => request'[t] = request[t]) /\ request'[s] = r
  BY <1>1 DEF Inv, TypeOK
<1>7. Onward
  BY <1>1, <1>4, KnownCodes DEF Onward, Known, Inv
<1>8. Placed(s)'
  BY <1>1, <1>2, <1>4, <1>5, <1>6 DEF Placed, UnderWay
<1>9. Heard(s)'
  BY <1>1, <1>2, <1>6 DEF Heard
<1>10. \A t \in Slots : Placed(t)' /\ Heard(t)'
  BY <1>1, <1>6, <1>7, <1>8, <1>9, OthersKeep
<1>11. \A t \in Slots : Creates(t)'
  BY <1>1, <1>2, <1>6, CreatesKeep
<1>12. \A t \in Slots : t # s /\ request[t].kind # "confirm" => request[t].code # n
  BY <1>1 DEF Inv, Own, n
<1>13. ASSUME NEW c \in alone
       PROVE  Sound(c)'
  <2> DEFINE e == code[c].of
  <2>1. Sound(c) /\ c \in Codes
    BY KnownCodes DEF WorkInv, Sound, Inv
  <2>2. r.of = e => c = n
    BY <1>1, <1>2, <2>1 DEF Sound, MakesCode, n
  <2>3. CASE c = n
    <3>1. /\ c \in Known /\ e \in Endpoints /\ e = request[s].of
          /\ \A t \in Slots : UnderWay(t) /\ MakesCode(t, e) => request[t].code = c
          /\ Live(e) \subseteq request[s].seen
      BY <1>1, <1>5, <2>1, <2>3 DEF Sound, n
    <3>2. \A t \in Slots : request'[t].at \notin {"idle", "answered"}
             /\ request'[t].kind \in {"create", "resend"} /\ request'[t].of = e => request'[t].code = c
      BY <1>2, <1>6, <2>3, <3>1 DEF UnderWay, MakesCode
    <3>3. \A t \in Slots : request'[t].at = "cleared" => request'[t].code # c
      BY <1>2, <1>6, <1>12, <2>3 DEF Inv, Staged
    <3>4. ASSUME NEW d \in Codes, code'[d].row = "live", code'[d].of = e
          PROVE  d = c
      <4>1. d # n => d \notin Live(e)
        BY <1>4, <3>1, <3>4
      <4> QED BY <1>4, <2>3, <3>4, <4>1 DEF Live, Of
    <3>5. code'[c].row = "live" /\ code'[c].of = e
      BY <1>4, <2>1, <2>3
    <3>6. ~Sent(c)'
      BY <1>1, <1>2, <1>5, <1>6, <1>12, <2>3 DEF Sent
    <3> HIDE DEF e
    <3> QED BY <1>1, <3>1, <3>2, <3>3, <3>4, <3>5, <3>6 DEF Sound, UnderWay, MakesCode, Live, Of, Known
  <2>4. CASE c # n
    <3>1. r.of # e
      BY <2>2, <2>4
    <3>2. code'[c].row = code[c].row
      BY <1>2, <1>4, <1>5, <2>1, <2>4, <3>1
    <3>3. \A d \in Codes : code'[d].row = "live" /\ code'[d].of = code[c].of => d \in Live(code[c].of)
      BY <1>2, <1>4, <1>5, <3>1 DEF Live, Of
    <3>4. Sent(c)' => Sent(c)
      BY <1>1, <1>2, <1>6, <2>4 DEF Sent
    <3>5. Inserted(c)' => Inserted(c)
      BY <1>1, <1>2, <1>6, <2>4, <3>4 DEF Inserted
    <3>6. code[c].recorded => code'[c].recorded
      BY <1>4, <2>1
    <3> QED BY <1>2, <1>6, <1>7, <2>1, <3>1, <3>2, <3>3, <3>4, <3>5, <3>6, SoundKeeps
  <2> QED BY <2>3, <2>4
<1> QED BY <1>1, <1>10, <1>11, <1>13 DEF WorkInv

LEMMA SendWorks == ASSUME Inv, WorkInv, NEW s \in Slots, Send(s) PROVE WorkInv'
<1> DEFINE n == request[s].code
<1>1. /\ request[s].at = "inserted" /\ request[s].kind # "confirm" /\ UnderWay(s)
      /\ n \in Known /\ n \in Codes /\ n # NoCode /\ n \notin acked /\ code[n].of = request[s].of
      /\ UNCHANGED <<remote, endpoint, made, acked, alone>>
  BY KnownCodes DEF Send, Inv, Staged, WorkInv, Placed, UnderWay
<1>2. PICK answer \in {"done", "unsent"} :
        /\ AnswerWith(s, answer)
        /\ answer = "done" => code' = [code EXCEPT ![n].recorded = code[n].row # "none"]
        /\ answer = "unsent" => code' = [code EXCEPT ![n].row = "none"]
  BY DEF Send
<1>3. \A c \in Codes : /\ code'[c].of = code[c].of /\ code'[c].attempts = code[c].attempts
                       /\ code'[c].expired = code[c].expired
                       /\ code'[c].row = IF c = n /\ answer = "unsent" THEN "none" ELSE code[c].row
                       /\ c # n => code'[c].recorded = code[c].recorded
                       /\ c = n /\ answer = "done" => code'[c].recorded = (code[c].row # "none")
  <2>1. CASE answer = "done"
    BY <1>1, <1>2, <2>1 DEF Inv, TypeOK, Rows
  <2>2. CASE answer = "unsent"
    BY <1>1, <1>2, <2>2 DEF Inv, TypeOK, Rows
  <2> QED BY <2>1, <2>2
<1>4. /\ \A t \in Slots : t # s => request'[t] = request[t]
      /\ request'[s].at = "answered" /\ request'[s].answer = answer
      /\ request'[s].kind = request[s].kind /\ request'[s].code = n /\ request'[s].of = request[s].of
  BY <1>2, AnswerIs DEF Inv, Ends
<1>5. Owed(s, answer, request[s].denied) /\ Ends(s, answer, request[s].denied)
  BY <1>2, AnswerIs DEF Owed, Excused, Inv
<1>6. Placed(s)' /\ Heard(s)'
  BY <1>1, <1>3, <1>5, AnswerPlaced
<1> HIDE DEF n
<1>7. Onward
  BY <1>1, <1>3, KnownCodes DEF Onward, Known, Inv
<1>8. \A t \in Slots : Placed(t)' /\ Heard(t)'
  BY <1>1, <1>4, <1>6, <1>7, OthersKeep
<1>9. \A t \in Slots : Creates(t)'
  BY <1>1, <1>4, CreatesKeep
<1>10. \A t \in Slots : t # s /\ request[t].kind # "confirm" => request[t].code # n
  BY <1>1 DEF Inv, Own, n
<1>11. ASSUME NEW c \in alone
       PROVE  Sound(c)'
  <2>1. Sound(c) /\ c \in Codes
    BY KnownCodes DEF WorkInv, Sound, Inv
  <2>2. \A d \in Codes : code'[d].row = "live" /\ code'[d].of = code[c].of => d \in Live(code[c].of)
    BY <1>3 DEF Live, Of
  <2>3. CASE c # n
    <3>1. Sent(c)' => Sent(c)
      BY <1>1, <1>4, <2>3 DEF Sent
    <3>2. Inserted(c)' => Inserted(c)
      BY <1>1, <1>4, <2>3, <3>1 DEF Inserted
    <3> QED BY <1>3, <1>4, <1>7, <2>1, <2>2, <2>3, <3>1, <3>2, SoundKeeps
  <2>4. CASE c = n
    <3>1. /\ c \in Known /\ code[c].of \in Endpoints
          /\ \A t \in Slots : UnderWay(t) /\ MakesCode(t, code[c].of) => request[t].code = c
          /\ \A t \in Slots : request[t].at = "cleared" /\ request[t].code = c =>
                                Live(code[c].of) \subseteq request[t].seen
      BY <2>1 DEF Sound
    <3>2. /\ Live(code[c].of) \subseteq {c} /\ code[c].row # "none"
          /\ code[c].row = "consumed" => endpoint[code[c].of].verified # NoCode
      BY <1>1, <2>1, <2>4 DEF Sound, Inserted, n
    <3>3. answer = "unsent" => ~Sent(c)' /\ ~Inserted(c)'
      BY <1>1, <1>4, <1>10, <2>4 DEF Sent, Inserted
    <3>4. answer = "done" => code'[c].recorded /\ code'[c].row = code[c].row
      BY <1>3, <2>1, <2>4, <3>2
    <3> DEFINE e == code[c].of
    <3>5. /\ c \in Known' /\ code'[c].of = e /\ e \in Endpoints
          /\ \A t \in Slots : request'[t].at \notin {"idle", "answered"}
               /\ request'[t].kind \in {"create", "resend"} /\ request'[t].of = e => request'[t].code = c
      BY <1>1, <1>3, <1>4, <2>1, <3>1 DEF UnderWay, MakesCode, Known
    <3>6. \A t \in Slots : request'[t].at = "cleared" /\ request'[t].code = c =>
             \A d \in Codes : code'[d].row = "live" /\ code'[d].of = e => d \in request'[t].seen
      BY <1>4, <2>2, <3>1
    <3>7. answer = "done" => \A d \in Codes : code'[d].row = "live" /\ code'[d].of = e => d = c
      BY <2>2, <3>2
    <3>8. answer = "done" => /\ code'[c].row # "none" /\ code'[c].recorded
                             /\ code'[c].row = "consumed" => endpoint'[e].verified # NoCode
      BY <1>1, <3>2, <3>4
    <3>9. answer \in {"done", "unsent"}
      OBVIOUS
    <3> HIDE DEF e
    <3> QED BY <3>3, <3>5, <3>6, <3>7, <3>8, <3>9 DEF Sound, UnderWay, MakesCode, Live, Of
  <2> QED BY <2>3, <2>4
<1> QED BY <1>1, <1>8, <1>9, <1>11 DEF WorkInv

\* What a page asks for.
LEMMA AsksWhat ==
  ASSUME Inv, NEW s \in Slots, Asks(s)
  PROVE  \E r \in Requests :
           /\ Post(s, r) /\ r.at = "posted" /\ r.of \in Endpoints
           /\ r.code = NoCode /\ r.seen = {} /\ r.answer = "none"
           /\ r.kind = "create" => /\ ~endpoint[r.of].exists
                                   /\ \A t \in Slots : ~(UnderWay(t) /\ MakesCode(t, r.of))
           /\ r.kind # "create" => endpoint[r.of].exists
           /\ r.good => r.kind = "confirm" /\ r.guess \in acked /\ code[r.guess].of = r.of
<1> DEFINE Asked(r) ==
      /\ r \in Requests
      /\ Post(s, r) /\ r.at = "posted" /\ r.of \in Endpoints
      /\ r.code = NoCode /\ r.seen = {} /\ r.answer = "none"
      /\ r.kind = "create" => /\ ~endpoint[r.of].exists
                              /\ \A t \in Slots : ~(UnderWay(t) /\ MakesCode(t, r.of))
      /\ r.kind # "create" => endpoint[r.of].exists
      /\ r.good => r.kind = "confirm" /\ r.guess \in acked /\ code[r.guess].of = r.of
<1>0. Idle.good = FALSE /\ acked \subseteq Codes /\ NoCode \notin acked /\ dead \in SUBSET Codes
  BY KnownCodes DEF Idle, Inv, TypeOK, Numbered
<1>1. CASE PostCreate(s)
  <2>1. PICK e \in Endpoints :
          /\ ~endpoint[e].exists /\ \A t \in Slots : ~(UnderWay(t) /\ MakesCode(t, e))
          /\ Post(s, [Idle EXCEPT !.kind = "create", !.of = e, !.at = "posted"])
    BY <1>1 DEF PostCreate
  <2> DEFINE r == [Idle EXCEPT !.kind = "create", !.of = e, !.at = "posted"]
  <2>2. /\ r \in Requests /\ r.at = "posted" /\ r.code = NoCode /\ r.seen = {} /\ r.answer = "none"
        /\ r.kind = "create" /\ r.of = e /\ r.good = FALSE
    BY <1>0, IdleRequest DEF Requests, Kinds, Steps
  <2>3. Post(s, r)
    BY <2>1
  <2> HIDE DEF r
  <2>4. Asked(r)
    BY <2>1, <2>2, <2>3
  <2> QED BY <2>4
<1>2. CASE PostResend(s)
  <2>1. PICK e \in Endpoints :
          /\ endpoint[e].exists
          /\ Post(s, [Idle EXCEPT !.kind = "resend", !.of = e, !.at = "posted", !.older = Of(e) \cap acked])
    BY <1>2 DEF PostResend
  <2> DEFINE r == [Idle EXCEPT !.kind = "resend", !.of = e, !.at = "posted", !.older = Of(e) \cap acked]
  <2>2. Of(e) \cap acked \in SUBSET Codes
    BY <1>0
  <2>3. /\ r \in Requests /\ r.at = "posted" /\ r.code = NoCode /\ r.seen = {} /\ r.answer = "none"
        /\ r.kind = "resend" /\ r.of = e /\ r.good = FALSE
    BY <1>0, <2>2, IdleRequest DEF Requests, Kinds, Steps
  <2>4. Post(s, r)
    BY <2>1
  <2> HIDE DEF r
  <2>5. Asked(r)
    BY <2>1, <2>3, <2>4
  <2> QED BY <2>5
<1>3. CASE PostConfirm(s)
  <2>1. PICK e \in Endpoints : \E c \in Of(e) \cup {NoCode} :
          /\ endpoint[e].exists
          /\ Post(s, [Idle EXCEPT !.kind = "confirm", !.of = e, !.at = "posted", !.guess = c, !.older = dead,
                                  !.good = c \in acked \cap alone])
    BY <1>3 DEF PostConfirm
  <2>2. PICK c \in Of(e) \cup {NoCode} :
          /\ endpoint[e].exists
          /\ Post(s, [Idle EXCEPT !.kind = "confirm", !.of = e, !.at = "posted", !.guess = c, !.older = dead,
                                  !.good = c \in acked \cap alone])
    BY <2>1
  <2> DEFINE good == c \in acked \cap alone
             r == [Idle EXCEPT !.kind = "confirm", !.of = e, !.at = "posted", !.guess = c, !.older = dead,
                               !.good = good]
  <2>3. c \in 0 .. MaxCodes /\ good \in BOOLEAN
    BY EndpointsAssumption DEF Of, Codes, NoCode
  <2>4. good => c \in acked /\ code[c].of = e
    BY <1>0 DEF Of
  <2>5. Post(s, r)
    BY <2>2
  <2> HIDE DEF good
  <2>6. /\ r \in Requests /\ r.at = "posted" /\ r.code = NoCode /\ r.seen = {} /\ r.answer = "none"
        /\ r.kind = "confirm" /\ r.of = e /\ r.good = good /\ r.guess = c
    BY <1>0, <2>3, IdleRequest DEF Requests, Kinds, Steps
  <2> HIDE DEF r
  <2>7. Asked(r)
    BY <2>2, <2>4, <2>5, <2>6
  <2> QED BY <2>7
<1> QED BY <1>1, <1>2, <1>3 DEF Asks

LEMMA AsksWorks == ASSUME Inv, WorkInv, NEW s \in Slots, Asks(s) PROVE WorkInv'
<1>1. PICK r \in Requests :
        /\ Post(s, r) /\ r.at = "posted" /\ r.of \in Endpoints
        /\ r.code = NoCode /\ r.seen = {} /\ r.answer = "none"
        /\ r.kind = "create" => /\ ~endpoint[r.of].exists
                                /\ \A t \in Slots : ~(UnderWay(t) /\ MakesCode(t, r.of))
        /\ r.kind # "create" => endpoint[r.of].exists
        /\ r.good => r.kind = "confirm" /\ r.guess \in acked /\ code[r.guess].of = r.of
  BY AsksWhat
<1>2. /\ UNCHANGED <<remote, endpoint, code, made, acked>>
      /\ alone' = IF r.kind \in {"create", "resend"} THEN alone \ Of(r.of) ELSE alone
      /\ request' = [request EXCEPT ![s] = r]
  BY <1>1 DEF Post, server
<1>3. (\A t \in Slots : t # s => request'[t] = request[t]) /\ request'[s] = r
  BY <1>2 DEF Inv, TypeOK
<1>4. Onward
  BY <1>2 DEF Onward, Known
<1>5. NoCode \notin acked /\ r.kind \in Kinds
  BY <1>1, KnownCodes DEF Inv, Numbered, Requests
<1>6. Placed(s)' /\ Heard(s)'
  BY <1>1, <1>2, <1>3, <1>5 DEF Placed, Heard, Excused, UnderWay
<1>7. \A t \in Slots : Placed(t)' /\ Heard(t)'
  BY <1>2, <1>3, <1>4, <1>6, OthersKeep
<1>8. ASSUME NEW t \in Slots
      PROVE  Creates(t)'
  <2> SUFFICES ASSUME request'[t].at = "posted", request'[t].kind = "create"
               PROVE  /\ ~endpoint'[request'[t].of].exists
                      /\ \A u \in Slots \ {t} : ~(UnderWay(u)' /\ MakesCode(u, request[t].of)')
    <3>1. CASE t = s
      BY <1>1, <1>3, <3>1 DEF Creates, UnderWay, MakesCode
    <3>2. CASE t # s
      BY <1>3, <3>2 DEF Creates, UnderWay, MakesCode
    <3> QED BY <3>1, <3>2
  <2>1. CASE t = s
    BY <1>1, <1>2, <1>3, <2>1 DEF UnderWay, MakesCode
  <2>2. CASE t # s
    <3>1. /\ request'[t] = request[t] /\ ~endpoint[request[t].of].exists
          /\ \A u \in Slots \ {t} : ~(UnderWay(u) /\ MakesCode(u, request[t].of))
          /\ UnderWay(t) /\ MakesCode(t, request[t].of)
      BY <1>3, <2>2 DEF WorkInv, Creates, UnderWay, MakesCode
    <3>2. ~(r.kind \in {"create", "resend"} /\ r.of = request[t].of)
      BY <1>1, <3>1
    <3> QED BY <1>2, <1>3, <3>1, <3>2 DEF UnderWay, MakesCode
  <2> QED BY <2>1, <2>2
<1>9. ASSUME NEW c \in alone'
      PROVE  Sound(c)'
  <2>1. c \in alone /\ Sound(c) /\ c \in Codes
    BY <1>2, KnownCodes DEF WorkInv, Sound, Inv
  <2>2. r.kind # "confirm" => r.of # code[c].of
    BY <1>2, <1>5, <2>1 DEF Kinds, Of
  <2>3. Sent(c)' => Sent(c)
    BY <1>1, <1>2, <1>3 DEF Sent
  <2>4. Inserted(c)' => Inserted(c)
    BY <1>1, <1>2, <1>3, <2>3 DEF Inserted
  <2>5. \A d \in Codes : code'[d].row = "live" /\ code'[d].of = code[c].of => d \in Live(code[c].of)
    BY <1>2 DEF Live, Of
  <2> QED BY <1>1, <1>2, <1>3, <1>4, <2>1, <2>2, <2>3, <2>4, <2>5, SoundKeeps
<1> QED BY <1>2, <1>7, <1>8, <1>9 DEF WorkInv

\* A code is drawn: no code of the endpoint is alone until then.
LEMMA DrawWorks ==
  ASSUME Inv, WorkInv, NEW s \in Slots, request[s].at = "posted", request[s].kind # "confirm",
         NEW n \in Codes \ Known, Known' = Known \cup {n},
         \A t \in Slots : t # s => request'[t] = request[t],
         request'[s].at = "found", request'[s].kind = request[s].kind, request'[s].code = n,
         request'[s].of = request[s].of, request'[s].answer = request[s].answer,
         request'[s].seen = request[s].seen, request'[s].good = request[s].good,
         \A c \in Codes : /\ code'[c].row = code[c].row /\ code'[c].attempts = code[c].attempts
                          /\ code'[c].expired = code[c].expired /\ code'[c].recorded = code[c].recorded
                          /\ code'[c].of = IF c = n THEN request[s].of ELSE code[c].of,
         alone' = IF \E t \in Slots \ {s} : UnderWay(t) /\ MakesCode(t, request[s].of) THEN alone
                  ELSE alone \cup {n},
         \A e \in Endpoints :
           /\ endpoint[e].exists => endpoint'[e].exists
           /\ endpoint'[e].exists => endpoint[e].exists \/ e = request[s].of
           /\ endpoint'[e].verified = endpoint[e].verified,
         acked' = acked, remote' = remote
  PROVE  WorkInv'
<1>1. /\ Placed(s) /\ Heard(s) /\ UnderWay(s) /\ request[s].of \in Endpoints /\ request[s].code = NoCode
      /\ MakesCode(s, request[s].of)
  BY DEF WorkInv, Placed, UnderWay, MakesCode, Inv, TypeOK, Requests, Kinds
<1>2. Known \subseteq Codes /\ acked \subseteq Known /\ n \notin acked /\ n # NoCode /\ code[n].row = "none"
  BY KnownCodes, EndpointsAssumption DEF Inv, Numbered, Untouched, Codes, NoCode
<1>3. alone \subseteq Known
  BY DEF WorkInv, Sound
<1>4. Onward
  BY <1>2, <1>3 DEF Onward
<1>5. Placed(s)'
  BY <1>1, <1>2 DEF Placed, UnderWay
<1>6. Heard(s)'
  BY <1>1 DEF Heard
<1>7. \A t \in Slots : Placed(t)' /\ Heard(t)'
  BY <1>4, <1>5, <1>6, OthersKeep
<1>8. \A t \in Slots : Creates(t)'
  BY <1>1, CreatesKeep DEF MakesCode
<1>9. ASSUME NEW c \in alone'
      PROVE  Sound(c)'
  <2>1. CASE c \in alone
    <3>1. Sound(c) /\ c \in Codes /\ c # n /\ c # NoCode
      BY <1>2, <1>3, <2>1, KnownCodes DEF WorkInv, Inv
    <3>2. request[s].of # code[c].of
      BY <1>1, <1>2, <3>1 DEF Sound
    <3>3. Sent(c)' => Sent(c)
      BY <3>1 DEF Sent
    <3>4. Inserted(c)' => Inserted(c)
      BY <3>1, <3>3 DEF Inserted
    <3>5. \A d \in Codes : code'[d].row = "live" /\ code'[d].of = code[c].of => d \in Live(code[c].of)
      BY <3>2 DEF Live, Of
    <3>6. /\ code'[c].row = code[c].row /\ code'[c].recorded = code[c].recorded
      BY <3>1
    <3> QED BY <1>4, <2>1, <3>1, <3>2, <3>3, <3>4, <3>5, <3>6, SoundKeeps
  <2>2. CASE c \notin alone
    <3>1. c = n /\ \A t \in Slots \ {s} : ~(UnderWay(t) /\ MakesCode(t, request[s].of))
      BY <2>2
    <3>2. code'[n].of = request[s].of
      OBVIOUS
    <3>3. \A t \in Slots : UnderWay(t)' /\ MakesCode(t, request[s].of)' => request'[t].code = n
      BY <3>1 DEF UnderWay, MakesCode
    <3>4. \A t \in Slots : t # s => request'[t].code # n
      BY <1>2 DEF Inv, Numbered
    <3>5. ~Sent(n)'
      BY <1>1, <1>2, <3>4 DEF Sent, Placed
    <3>6. ~Inserted(n)'
      BY <3>4, <3>5 DEF Inserted
    <3>7. \A t \in Slots : ~(request'[t].at = "cleared" /\ request'[t].code = n)
      BY <3>4
    <3> QED BY <1>1, <3>1, <3>2, <3>3, <3>5, <3>6, <3>7 DEF Sound, UnderWay, MakesCode
  <2> QED BY <2>1, <2>2
<1>10. \A e \in Endpoints : endpoint'[e].verified # NoCode => endpoint'[e].exists
  BY DEF WorkInv
<1> QED BY <1>7, <1>8, <1>9, <1>10 DEF WorkInv

LEMMA FindWorks == ASSUME Inv, WorkInv, NEW s \in Slots, Find(s) PROVE WorkInv'
<1> DEFINE e == request[s].of
           kind == request[s].kind
<1>1. /\ request[s] \in Requests /\ request[s].at = "posted" /\ UnderWay(s)
      /\ e \in Endpoints /\ Placed(s) /\ Creates(s) /\ Heard(s) /\ request[s].code = NoCode
      /\ acked' = acked /\ remote' = remote
      /\ endpoint' = IF kind = "create" THEN [endpoint EXCEPT ![e] = [exists |-> TRUE, verified |-> NoCode]]
                     ELSE endpoint
  BY DEF Find, Inv, TypeOK, WorkInv, Placed, UnderWay
<1>2. kind = "create" => ~endpoint[e].exists /\ endpoint[e].verified = NoCode
  BY <1>1 DEF Creates, WorkInv
<1>3. CASE /\ endpoint[e].verified # NoCode
           /\ UNCHANGED <<code, made, alone>> /\ \E answer \in {"already", "conflict"} : AnswerWith(s, answer)
  <2>1. PICK answer \in {"already", "conflict"} : AnswerWith(s, answer)
    BY <1>3
  <2>2. endpoint' = endpoint
    BY <1>1, <1>2, <1>3
  <2>3. Owed(s, answer, request[s].denied) /\ Ends(s, answer, request[s].denied)
    BY <2>1, AnswerIs DEF Owed, Excused, Inv
  <2> QED BY <1>1, <1>3, <2>2, <2>3, AnswerWorks
<1>4. CASE UNCHANGED <<code, made, alone>> /\ kind = "confirm" /\ request' = [request EXCEPT ![s].at = "found"]
  <2> DEFINE r == [request[s] EXCEPT !.at = "found"]
  <2>1. /\ r.at = "found" /\ r.kind = "confirm" /\ r.code = request[s].code /\ r.of = e
        /\ r.answer = request[s].answer /\ r.guess = request[s].guess /\ r.good = request[s].good
        /\ r.seen = request[s].seen
        /\ request' = [request EXCEPT ![s] = r]
    BY <1>1, <1>4 DEF Requests
  <2> HIDE DEF r
  <2>2. (\A t \in Slots : t # s => request'[t] = request[t]) /\ request'[s] = r
    BY <2>1 DEF Inv, TypeOK
  <2>3. endpoint' = endpoint
    BY <1>1, <1>4
  <2>4. Placed(s)'
    BY <1>1, <1>4, <2>1, <2>2, <2>3 DEF Placed, UnderWay, Known
  <2>5. Heard(s)'
    BY <1>1, <1>4, <2>1, <2>2, <2>3 DEF Heard, Excused, Placed
  <2>6. \A f \in Endpoints : endpoint[f].verified # NoCode => endpoint[f].exists
    BY DEF WorkInv
  <2> QED BY <1>1, <1>4, <2>1, <2>2, <2>3, <2>4, <2>5, <2>6, QuietKeeps
<1>5. CASE /\ kind # "confirm" /\ made < MaxCodes /\ made' = made + 1
           /\ code' = [code EXCEPT ![made + 1].of = e]
           /\ alone' = IF \E t \in Slots \ {s} : UnderWay(t) /\ MakesCode(t, e) THEN alone
                       ELSE alone \cup {made + 1}
           /\ request' = [request EXCEPT ![s].at = "found", ![s].code = made + 1]
  <2> DEFINE n == made + 1
             r == [request[s] EXCEPT !.at = "found", !.code = n]
             row == [code[n] EXCEPT !.of = e]
  <2>1. n \in Codes \ Known /\ Known' = Known \cup {n}
    BY <1>5, EndpointsAssumption DEF Inv, TypeOK, Codes, Known
  <2>2. /\ r.at = "found" /\ r.kind = request[s].kind /\ r.code = n
        /\ r.of = e /\ r.answer = request[s].answer /\ r.seen = request[s].seen
        /\ r.good = request[s].good
        /\ request' = [request EXCEPT ![s] = r]
    BY <1>1, <1>5 DEF Requests
  <2>3. code[n] \in Rows
    BY <2>1 DEF Inv, TypeOK
  <2>4. /\ row.of = e /\ row.row = code[n].row /\ row.attempts = code[n].attempts
        /\ row.expired = code[n].expired /\ row.recorded = code[n].recorded
        /\ code' = [code EXCEPT ![n] = row]
    BY <1>5, <2>3 DEF Rows
  <2>5. alone' = IF \E t \in Slots \ {s} : UnderWay(t) /\ MakesCode(t, e) THEN alone ELSE alone \cup {n}
    BY <1>5
  <2>6. \A f \in Endpoints :
           /\ endpoint[f].exists => endpoint'[f].exists
           /\ endpoint'[f].exists => endpoint[f].exists \/ f = e
           /\ endpoint'[f].verified = endpoint[f].verified
    <3>1. CASE kind = "create"
      BY <1>1, <1>2, <3>1 DEF Inv, TypeOK
    <3>2. CASE kind # "create"
      BY <1>1, <3>2
    <3> QED BY <3>1, <3>2
  <2>7. request[s].kind # "confirm"
    BY <1>5
  <2> HIDE DEF n, r, row
  <2>8. (\A t \in Slots : t # s => request'[t] = request[t]) /\ request'[s] = r
    BY <2>2 DEF Inv, TypeOK
  <2>9. \A c \in Codes :
          /\ code'[c].row = code[c].row /\ code'[c].attempts = code[c].attempts
          /\ code'[c].expired = code[c].expired /\ code'[c].recorded = code[c].recorded
          /\ code'[c].of = IF c = n THEN e ELSE code[c].of
    BY <2>1, <2>4 DEF Inv, TypeOK
  <2>10. /\ request'[s].at = "found" /\ request'[s].kind = request[s].kind /\ request'[s].code = n
         /\ request'[s].of = request[s].of /\ request'[s].answer = request[s].answer
         /\ request'[s].seen = request[s].seen /\ request'[s].good = request[s].good
    BY <2>2, <2>8
  <2>11. request[s].at = "posted" /\ acked' = acked /\ remote' = remote
    BY <1>1
  <2> QED BY <2>1, <2>5, <2>6, <2>7, <2>8, <2>9, <2>10, <2>11, DrawWorks
<1> QED BY <1>1, <1>3, <1>4, <1>5 DEF Find

LEMMA WorkInvariance == Spec => []WorkInv
<1>1. Inv /\ WorkInv /\ [Next]_vars => WorkInv'
  <2> SUFFICES ASSUME Inv, WorkInv, [Next]_vars PROVE WorkInv'
    OBVIOUS
  <2>1. CASE UNCHANGED vars
    BY <2>1 DEF vars, server, ghosts, WorkInv, Placed, Creates, Heard, Excused, Sound, Sent, Inserted,
                UnderWay, MakesCode, Live, Of, Known
  <2>2. CASE Next
    <3>1. ASSUME NEW s \in Slots, Asks(s) \/ Handles(s) \/ Told(s) PROVE WorkInv'
      BY <3>1, AsksWorks, ToldWorks, FindWorks, ClearWorks, InsertWorks, SendWorks, ReadWorks, CountWorks,
         JudgeWorks, DenyWorks, BreakWorks DEF Handles
    <3>2. ASSUME NEW c \in Codes, Expire(c) PROVE WorkInv'
      BY <3>2, ExpireWorks
    <3> QED BY <2>2, <3>1, <3>2 DEF Next
  <2> QED BY <2>1, <2>2
<1> QED BY <1>1, WorkInit, Invariance, PTL DEF Spec

-----------------------------------------------------------------------------
(* Theorems *)

\* The tables and the requests keep their types (services/endpoints.ts).
THEOREM TypeCorrect == Spec => []TypeOK
<1>1. Inv => TypeOK
  BY DEF Inv
<1> QED BY <1>1, Invariance, PTL

\* However many confirmations race between the read of the attempts and their
\* count, a code is compared fewer than Limit times and once for every request
\* under way (confirmEndpointVerification).
THEOREM TriesAreBounded == Spec => []TriesBounded
<1>1. Inv => TriesBounded
  <2> SUFFICES ASSUME Inv, NEW c \in Codes PROVE tries[c] < Limit + Cardinality(Slots)
    BY DEF TriesBounded
  <2>1. tries[c] \in Nat /\ tries[c] + Cardinality(Readers(c)) < Limit + Cardinality(Slots)
    BY DEF Inv, TypeOK, Bounded
  <2> QED BY <2>1, ReaderCount, SlotCount, EndpointsAssumption
<1> QED BY <1>1, Invariance, PTL

\* A code from before a later request that was answered, with an SMS or with
\* an error, never again verifies anything (requestEndpointVerification).
THEOREM OldCodesDie == Spec => []OldCodeDead
<1>1. Inv => OldCodeDead
  BY DEF Inv, Gone, OldCodeDead
<1> QED BY <1>1, Invariance, PTL

\* Whoever types the code of the last SMS, which no other request for a code
\* of the endpoint has met since, is told that it is wrong only if the provider was asked
\* and did not say yes, that it has expired only if it has or the endpoint is verified,
\* and that there were too many attempts only if there were, whatever
\* requests of the person's tabs interleave (requestEndpointVerification,
\* confirmEndpointVerification, verifyTermiiOtp).
THEOREM RightCodesWork == Spec => []RightCodeWorks
<1>1. Inv /\ WorkInv => RightCodeWorks
  <2> SUFFICES ASSUME Inv, WorkInv, NEW s \in Slots, request[s].good, request[s].guess \in alone
               PROVE  LET r == request[s]
                          c == r.guess
                      IN  /\ r.answer = "wrong" => remote /\ r.denied
                          /\ r.answer = "expired" => code[c].expired \/ endpoint[r.of].verified # NoCode
                          /\ r.answer = "locked" => code[c].attempts >= Limit
    BY DEF RightCodeWorks
  <2>1. CASE request[s].at = "idle"
    BY <2>1 DEF WorkInv, Placed
  <2>2. CASE request[s].at # "idle"
    BY <2>2 DEF WorkInv, Heard, Excused
  <2> QED BY <2>1, <2>2
<1> QED BY <1>1, Invariance, WorkInvariance, PTL
=============================================================================
