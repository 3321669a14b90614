------------------------------ MODULE Workspace ------------------------------
(***************************************************************************)
(* One signed-in tab: the shell, the page it shows, the resources that     *)
(* hooks/useAsync.ts keeps for them, and the buttons of the pages, against *)
(* the handlers of server/routes.  The directory page (MembersPage,        *)
(* listMembers) is modelled with its filter and its pages of rows; for the *)
(* other resources only the age of what they show is.                      *)
(*                                                                         *)
(* The role of a user never changes.  One button of a page is busy at a    *)
(* time, and its request goes on when the page is left; answers to loads   *)
(* arrive in any order, or fail.                                           *)
(***************************************************************************)
EXTENDS Naturals, FiniteSets, Access

CONSTANTS
  Directory,  \* members there are
  MaxTurns,   \* bound: pages opened in all
  MaxRuns,    \* bound: loads of each resource while its page is open
  MaxChanges  \* bound: changes to the parish's data

ASSUME WorkspaceAssumption ==
  Directory \in Nat \ {0} /\ MaxTurns \in Nat /\ MaxRuns \in [Loads -> Nat \ {0}] /\ MaxChanges \in Nat

\* PAGE_SIZE, cut down from 20.
PageSize == 1
MaxPage == Directory + 2

VARIABLES
  role, page,
  question,  \* the inputs of the page's useAsync: a filter and a page number
  res,       \* of each resource, the state of its reducer
  flights,   \* loads under way
  sent,      \* requests of buttons under way, each of one mounting of a page
  version,   \* changes to the parish's data so far
  actives,   \* active members
  acked,     \* ghost: of what a load shows, the version of the last success told on this page
  turns      \* pages opened so far: the number of the mounting on the screen

vars == <<role, page, question, res, flights, sent, version, actives, acked, turns>>

Filters == {"all", "active"}
Questions == [filter : Filters, number : 0 .. MaxPage]
First == [filter |-> "all", number |-> 1]
NoData == [asked |-> First, asOf |-> 0, rows |-> 0, total |-> 0, any |-> FALSE]
Data == [asked : Questions, asOf : 0 .. MaxChanges, rows : 0 .. PageSize, total : 0 .. Directory, any : BOOLEAN]
Unmounted == [token |-> 0, status |-> "loading", data |-> NoData]

\* The page on the screen, and everything that is loaded for it and the shell.
Failed == "error" \in {res[l].status : l \in Route(page, role, FALSE).loads \cap {"dashboard", "settings"}}
Page == Route(page, role, Failed)
Mounted == Page.loads \cup ShellLoads(role)

TypeOK ==
  /\ role \in Roles /\ page \in Pages
  /\ question \in Questions
  /\ res \in [Loads -> [token : Nat, status : {"loading", "success", "error"}, data : Data]]
  /\ \A f \in flights :
       /\ f.load \in Mounted /\ f.token \in 1 .. res[f.load].token
       /\ f.own \in BOOLEAN /\ f.at \in {"out", "reading", "answered", "failed"} /\ f.data \in Data
  /\ \A r \in sent :
       /\ r.name \in Requests /\ r.turn \in 0 .. turns /\ r.at \in {"out", "done", "failed"}
       /\ r.turn = turns => r.name \in Route(page, role, FALSE).buttons
  /\ version \in 0 .. MaxChanges /\ actives \in 0 .. Directory
  /\ acked \in [Loads -> 0 .. MaxChanges] /\ turns \in 0 .. MaxTurns

-----------------------------------------------------------------------------
(* useAsync *)

\* The resources that take an abort signal; the others run on, unheard.
TakesSignal == {"dashboard", "notifications", "members", "audit"}

Asking == {"members", "upcoming", "audit"}
\* own: started by the effect, which can abort it, and not by refresh.
Flight(l, token, q, own) ==
  [load |-> l, token |-> token, own |-> own, at |-> "out",
   data |-> [NoData EXCEPT !.asked = IF l \in Asking THEN q ELSE First]]

\* run of each resource of L: a new token, "start", a request.
Runs(L, old, over, q, own) ==
  /\ \A l \in L : over[l].token < MaxRuns[l]
  /\ res' = [l \in Loads |-> IF l \in L THEN [over[l] EXCEPT !.token = @ + 1, !.status = "loading"]
                             ELSE over[l]]
  /\ flights' = old \cup {Flight(l, over[l].token + 1, q, own) : l \in L}

\* A slip: no second request while one is under way.
RefreshOnce(L) ==
  /\ \A l \in L : res[l].token < MaxRuns[l]
  /\ res' = [l \in Loads |-> IF l \in L THEN [res[l] EXCEPT !.token = @ + 1, !.status = "loading"]
                             ELSE res[l]]
  /\ flights' = flights \cup {Flight(l, res[l].token + 1, question, FALSE) :
                                l \in {k \in L : ~\E f \in flights : f.load = k}}

\* refresh: what is under way is not aborted.
Refresh(L) == Runs(L, flights, res, question, FALSE)

\* A change of the inputs: the effect aborts what it started itself.
Aborted(f) == f.own /\ f.load \in TakesSignal
Rerun(L, q) == Runs(L, {f \in flights : f.load \in L => ~Aborted(f)}, res, q, TRUE)

\* A slip: whatever arrives is shown.
LandUnchecked(f) ==
  /\ f.at \in {"answered", "failed"}
  /\ flights' = flights \ {f}
  /\ res' = [res EXCEPT ![f.load] =
               IF f.at = "answered" THEN [@ EXCEPT !.status = "success", !.data = f.data]
               ELSE [@ EXCEPT !.status = "error"]]
  /\ UNCHANGED <<role, page, question, sent, version, actives, acked, turns>>

\* reduce of "success" and "error": only the last token counts.
Land(f) ==
  /\ f.at \in {"answered", "failed"}
  /\ flights' = flights \ {f}
  /\ res' = IF f.token # res[f.load].token THEN res
            ELSE [res EXCEPT ![f.load] =
                    IF f.at = "answered" THEN [@ EXCEPT !.status = "success", !.data = f.data]
                    ELSE [@ EXCEPT !.status = "error"]]
  /\ UNCHANGED <<role, page, question, sent, version, actives, acked, turns>>

-----------------------------------------------------------------------------
(* The server *)

AtMost(a, b) == IF a <= b THEN a ELSE b

\* listMembers counts first and reads the rows after, and the groups last; the
\* page number is at least 1, the offset may be past the end.  Every member
\* counts under "all", archived or not.
Total(asked) == IF asked.filter = "all" THEN Directory ELSE actives
ListMembers(d) ==
  LET skip == (IF d.asked.number < 1 THEN 0 ELSE d.asked.number - 1) * PageSize
      left == IF Total(d.asked) < skip THEN 0 ELSE Total(d.asked) - skip
  IN  [d EXCEPT !.rows = AtMost(PageSize, left), !.any = actives > 0]

\* The loads of several queries, one after the other and in no transaction:
\* listMembers, dashboardFor, the settings, the staff and the state of MFA.  The
\* first one is read here.
Several == {"members", "dashboard", "settings", "access", "mfaStatus"}
FirstRead(f) ==
  /\ f.at = "out" /\ f.load \in Several /\ Allowed(f.load, role)
  /\ flights' = (flights \ {f}) \cup
       {[f EXCEPT !.at = "reading", !.data.asOf = version,
                  !.data.total = IF f.load = "members" THEN Total(f.data.asked) ELSE @]}
  /\ UNCHANGED <<role, page, question, res, sent, version, actives, acked, turns>>

\* A load is answered, refused by its guard, or lost.
Answer(f) ==
  /\ \/ /\ f.at = "out" /\ f.load \notin Several /\ Allowed(f.load, role)
        /\ flights' = (flights \ {f}) \cup {[f EXCEPT !.at = "answered", !.data.asOf = version]}
     \/ /\ f.at = "reading"
        /\ flights' = (flights \ {f}) \cup
             {[f EXCEPT !.at = "answered", !.data = IF f.load = "members" THEN ListMembers(@) ELSE @]}
     \/ /\ f.at \in {"out", "reading"}
        /\ flights' = (flights \ {f}) \cup {[f EXCEPT !.at = "failed"]}
  /\ UNCHANGED <<role, page, question, res, sent, version, actives, acked, turns>>

\* Something changes: a member is archived or restored, or anything else.
Change(archives) ==
  /\ version < MaxChanges
  /\ version' = version + 1
  /\ IF archives THEN actives' = IF actives > 0 THEN actives - 1 ELSE 0
     ELSE actives' \in {actives, AtMost(actives + 1, Directory)}

Answered(r, outcome) == (sent \ {r}) \cup {[r EXCEPT !.at = outcome]}

\* The handler behind a button runs, or refuses; or the answer is lost
\* although it ran.
Perform(r) ==
  /\ r.at = "out"
  /\ \/ /\ Allowed(r.name, role)
        /\ Change(r.name = "archive")
        /\ \E outcome \in {"done", "failed"} : sent' = Answered(r, outcome)
     \/ /\ sent' = Answered(r, "failed")
        /\ UNCHANGED <<version, actives>>
  /\ UNCHANGED <<role, page, question, res, flights, acked, turns>>

\* Another member of staff, or the worker.
Elsewhere ==
  /\ \E archives \in BOOLEAN : Change(archives)
  /\ UNCHANGED <<role, page, question, res, flights, sent, acked, turns>>

-----------------------------------------------------------------------------
(* The user *)

\* A slip: the loads of the page that is left are heard by the next one.
OpenStillHeard(p) ==
  /\ turns < MaxTurns /\ p # page
  /\ turns' = turns + 1
  /\ page' = p /\ question' = First
  /\ LET kept == ShellLoads(role)
     IN  Runs(Route(p, role, FALSE).loads \ kept, flights,
              [l \in Loads |-> IF l \in kept THEN res[l] ELSE Unmounted], First, TRUE)
  /\ acked' = [l \in Loads |-> 0]
  /\ UNCHANGED <<role, sent, version, actives>>

\* A page is left and another one is mounted: whether the user follows the
\* navigation or types an address.  A request of the page that is left goes
\* on; nobody on the new page waits for it.
Open(p) ==
  /\ turns < MaxTurns /\ p # page
  /\ turns' = turns + 1
  /\ page' = p /\ question' = First
  /\ LET kept == ShellLoads(role)
     IN  Runs(Route(p, role, FALSE).loads \ kept, {f \in flights : f.load \in kept},
              [l \in Loads |-> IF l \in kept THEN res[l] ELSE Unmounted], First, TRUE)
  /\ acked' = [l \in Loads |-> 0]
  /\ UNCHANGED <<role, sent, version, actives>>

Ask(q) ==
  /\ q # question
  /\ question' = q
  /\ Rerun(Page.loads, q)
  /\ UNCHANGED <<role, page, sent, version, actives, acked, turns>>

List == res["members"].data
Pages_(total) == IF total = 0 THEN 1 ELSE (total + PageSize - 1) \div PageSize
\* What the last answer says of its page: listMembers has made 0 a 1.
AnsweredPage == IF List.asked.number < 1 THEN 1 ELSE List.asked.number
\* The table with its pagination, and not an error or an empty state.
TableShown == page = "members" /\ Page.may /\ res["members"].status # "error" /\ List.rows > 0

\* The selects of the directory, and the chips and the debounced search, which
\* leave the page number alone; the inputs of the two other pages that have any.
SetFilter == page = "members" /\ Page.may /\ \E g \in Filters : Ask([filter |-> g, number |-> 1])
SetFilterOnly == page = "members" /\ Page.may /\ \E g \in Filters : Ask([question EXCEPT !.filter = g])
SetRange == page \in {"birthdays", "audit"} /\ Page.may /\ \E n \in 1 .. 2 : Ask([First EXCEPT !.number = n])

\* Next and Previous look at the last answer and count from the last question.
NextPage ==
  /\ TableShown /\ AnsweredPage < Pages_(List.total) /\ question.number < MaxPage
  /\ Ask([question EXCEPT !.number = @ + 1])
PreviousPage ==
  /\ TableShown /\ AnsweredPage > 1 /\ question.number > 0
  /\ Ask([question EXCEPT !.number = @ - 1])

\* The Refresh button and "try again" of the error panel.
Reload ==
  /\ Page.may /\ Page.again # {}
  /\ Refresh(Page.again)
  /\ UNCHANGED <<role, page, question, sent, version, actives, acked, turns>>

Press(b) ==
  /\ \A r \in sent : r.turn # turns
  /\ Page.may /\ b \in Page.buttons
  /\ b = "archive" => TableShown /\ List.any
  /\ sent' = sent \cup {[name |-> b, turn |-> turns, at |-> "out"]}
  /\ UNCHANGED <<role, page, question, res, flights, version, actives, acked, turns>>

\* The answer to a button, in a toast wherever the user is by now: on success
\* the page that was pressed loads again, if it is still there.
Told(r) ==
  /\ r.at \in {"done", "failed"}
  /\ sent' = sent \ {r}
  /\ IF r.at = "done" /\ r.turn = turns
     THEN /\ Refresh(Reloads(page, r.name))
          /\ acked' = [l \in Loads |-> IF l \in Shows(r.name) THEN version ELSE acked[l]]
     ELSE UNCHANGED <<res, flights, acked>>
  /\ UNCHANGED <<role, page, question, version, actives, turns>>

-----------------------------------------------------------------------------

\* The shell and the dashboard are mounted after a sign-in.
Init ==
  /\ role \in Roles /\ page = "dashboard" /\ question = First
  /\ LET start == Route("dashboard", role, FALSE).loads \cup ShellLoads(role)
     IN  /\ res = [l \in Loads |-> IF l \in start THEN [Unmounted EXCEPT !.token = 1] ELSE Unmounted]
         /\ flights = {[load |-> l, token |-> 1, own |-> TRUE, at |-> "out", data |-> NoData] : l \in start}
  /\ sent = {} /\ version = 0 /\ actives = Directory
  /\ acked = [l \in Loads |-> 0] /\ turns = 0

Asks ==
  \/ \E p \in Pages : Open(p)
  \/ SetFilter \/ SetFilterOnly \/ SetRange \/ NextPage \/ PreviousPage
  \/ Reload
  \/ \E b \in Requests : Press(b)

Next ==
  \/ Asks \/ Elsewhere
  \/ \E r \in sent : Perform(r) \/ Told(r)
  \/ \E f \in flights : FirstRead(f) \/ Answer(f) \/ Land(f)

Spec == Init /\ [][Next]_vars

\* Every load is answered or fails in the end, and its promise is settled.
FairSpec == Spec /\ WF_vars(\E f \in flights : FirstRead(f) \/ Answer(f) \/ Land(f))

-----------------------------------------------------------------------------

\* A settled resource answers the question that its page asks now, however
\* the answers to earlier ones were delayed (useAsync reduce, MembersPage).
ShownAnswersAsked ==
  \A l \in Mounted \cap Asking :
     res[l].status = "success" => res[l].data.asked = question

\* Whoever was told, on the page where he pressed a button, that it succeeded
\* sees what it did as soon as that page has settled, in every load of the page
\* that shows it (the pages' data.refresh, useAsync refresh).  Not promised: to
\* somebody who left the page meanwhile, whose toast comes without a refresh of
\* the page he is on, and of the badge of the shell, which is loaded once.
ReadYourWrites ==
  \A l \in Page.loads : res[l].status = "success" => res[l].data.asOf >= acked[l]

\* Nobody is led to a page that is not for his role or whose loads the server
\* refuses: what the comment of AppShell says of its navigation.
NavNeverRefused ==
  page \in Nav(role) => Page.may /\ \A f \in flights : Allowed(f.load, role)

\* No load is abandoned: while a resource on the screen is loading, the request
\* with its last token is under way, whatever was aborted or superseded since.
NoLoadAbandoned ==
  \A l \in Mounted : res[l].status = "loading" =>
     \E f \in flights : f.load = l /\ f.token = res[l].token

\* Again and again everything on the screen has settled: no load waits for an
\* answer that was dropped (useAsync run and reduce).
AllSettled == \A l \in Mounted : res[l].status # "loading"
LoadsSettle == []<>AllSettled
=============================================================================
