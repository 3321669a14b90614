--------------------------- MODULE WorkspaceProofs ---------------------------
(***************************************************************************)
(* Proofs about Workspace, for any directory, any number of pages opened,  *)
(* of loads and of changes: type correctness, that a page shows the answer *)
(* to what it asks and what its user was told, and that the navigation and *)
(* the guards of the server agree.                                         *)
(***************************************************************************)
EXTENDS Workspace, TLAPS

-----------------------------------------------------------------------------
(* The tables of Access *)

\* What a page loads, whether it may be seen, and that an error panel or a
\* button only takes something away or loads anew what the page has.
LEMMA RouteFacts ==
  ASSUME NEW p \in Pages, NEW r \in Roles, NEW failed \in BOOLEAN
  PROVE  /\ Route(p, r, failed).loads = Route(p, r, FALSE).loads
         /\ Route(p, r, failed).may = Route(p, r, FALSE).may
         /\ Route(p, r, failed).buttons \subseteq Route(p, r, FALSE).buttons
         /\ Route(p, r, FALSE).loads \subseteq Loads \ {"today"}
         /\ Route(p, r, FALSE).may => Route(p, r, failed).again \subseteq Route(p, r, FALSE).loads
<1> USE DEF Route, Loads, Only
<1>1. CASE p = "dashboard"
  BY <1>1 DEF DashboardPage
<1>2. CASE p = "birthdays"
  BY <1>2 DEF BirthdaysPage
<1>3. CASE p = "notifications"
  BY <1>3 DEF NotificationsPage
<1>4. CASE p = "endpoints"
  BY <1>4 DEF EndpointsPage
<1>5. CASE p = "members"
  BY <1>5 DEF MembersPage
<1>6. CASE p = "imports"
  BY <1>6 DEF ImportsPage
<1>7. CASE p = "audit"
  BY <1>7 DEF AuditPage
<1>8. CASE p = "staff"
  BY <1>8 DEF StaffPage
<1>9. CASE p = "settings"
  BY <1>9 DEF SettingsPage
<1> QED BY <1>1, <1>2, <1>3, <1>4, <1>5, <1>6, <1>7, <1>8, <1>9 DEF Pages

\* The success of a button loads anew only what its page has loaded.
LEMMA ReloadsFacts ==
  ASSUME NEW p \in Pages, NEW r \in Roles, NEW b \in Route(p, r, FALSE).buttons, Route(p, r, FALSE).may
  PROVE  Reloads(p, b) \subseteq Route(p, r, FALSE).loads
<1> USE DEF Route, Reloads, Only
<1>1. CASE p = "dashboard"
  BY <1>1 DEF DashboardPage, RunNow
<1>2. CASE p = "birthdays"
  BY <1>2 DEF BirthdaysPage
<1>3. CASE p = "notifications"
  BY <1>3 DEF NotificationsPage, RunNow
<1>4. CASE p = "endpoints"
  BY <1>4 DEF EndpointsPage
<1>5. CASE p = "members"
  BY <1>5 DEF MembersPage
<1>6. CASE p = "imports"
  BY <1>6 DEF ImportsPage
<1>7. CASE p = "audit"
  BY <1>7 DEF AuditPage
<1>8. CASE p = "staff"
  BY <1>8 DEF StaffPage
<1>9. CASE p = "settings"
  BY <1>9 DEF SettingsPage
<1> QED BY <1>1, <1>2, <1>3, <1>4, <1>5, <1>6, <1>7, <1>8, <1>9 DEF Pages

\* It loads anew all of them that show what its handler writes.
LEMMA ReloadsEnough ==
  ASSUME NEW p \in Pages, NEW r \in Roles, NEW b \in Route(p, r, FALSE).buttons
  PROVE  Shows(b) \cap Route(p, r, FALSE).loads \subseteq Reloads(p, b)
<1> USE DEF Route, Reloads, Shows, Only
<1>1. CASE p = "dashboard"
  BY <1>1 DEF DashboardPage, RunNow
<1>2. CASE p = "birthdays"
  BY <1>2 DEF BirthdaysPage
<1>3. CASE p = "notifications"
  BY <1>3 DEF NotificationsPage, RunNow
<1>4. CASE p = "endpoints"
  BY <1>4 DEF EndpointsPage
<1>5. CASE p = "members"
  BY <1>5 DEF MembersPage
<1>6. CASE p = "imports"
  BY <1>6 DEF ImportsPage
<1>7. CASE p = "audit"
  BY <1>7 DEF AuditPage
<1>8. CASE p = "staff"
  BY <1>8 DEF StaffPage
<1>9. CASE p = "settings"
  BY <1>9 DEF SettingsPage
<1> QED BY <1>1, <1>2, <1>3, <1>4, <1>5, <1>6, <1>7, <1>8, <1>9 DEF Pages

\* The guards as the pages meet them.
LEMMA Admits ==
  ASSUME NEW r \in Roles
  PROVE  /\ \A l \in {"dashboard", "notifications", "settings", "mfaStatus"} : Allowed(l, r)
         /\ r \in Alerted => Allowed("today", r) /\ Allowed("upcoming", r)
         /\ r \in Officers => Allowed("members", r)
         /\ r \in {"owner", "auditor"} => Allowed("audit", r)
         /\ r = "owner" => Allowed("access", r)
<1>1. Allowed("dashboard", r)
  BY DEF Allowed, Routers, DashboardRouter
<1>2. Allowed("notifications", r)
  BY DEF Allowed, Routers, NotificationsRouter
<1>3. Allowed("settings", r)
  BY DEF Allowed, Routers, SettingsRouter
<1>4. Allowed("mfaStatus", r)
  BY DEF Allowed, Routers, AuthRouter
<1>5. r \in Alerted => Allowed("today", r) /\ Allowed("upcoming", r)
  BY DEF Allowed, Routers, BirthdaysRouter
<1>6. r \in Officers => Allowed("members", r)
  BY DEF Allowed, Routers, MembersRouter
<1>7. r \in {"owner", "auditor"} => Allowed("audit", r)
  BY DEF Allowed, Routers, AuditRouter
<1>8. r = "owner" => Allowed("access", r)
  BY DEF Allowed, Routers, StaffRouter
<1> QED BY <1>1, <1>2, <1>3, <1>4, <1>5, <1>6, <1>7, <1>8

\* Nobody is offered a page that he may not see, or that loads what the server
\* refuses him.
LEMMA NavFacts ==
  ASSUME NEW r \in Roles, NEW p \in Pages, p \in Nav(r)
  PROVE  /\ Route(p, r, FALSE).may
         /\ \A l \in Route(p, r, FALSE).loads \cup ShellLoads(r) : Allowed(l, r)
<1> USE Admits DEF Route, Nav, Only, Holders
<1>0. \A l \in ShellLoads(r) : Allowed(l, r)
  BY DEF ShellLoads
<1>1. CASE p = "dashboard"
  BY <1>0, <1>1 DEF DashboardPage
<1>2. CASE p = "birthdays"
  BY <1>0, <1>2 DEF BirthdaysPage
<1>3. CASE p = "notifications"
  BY <1>0, <1>3 DEF NotificationsPage
<1>4. CASE p = "endpoints"
  BY <1>0, <1>4 DEF EndpointsPage
<1>5. CASE p = "members"
  BY <1>0, <1>5 DEF MembersPage
<1>6. CASE p = "imports"
  BY <1>0, <1>6 DEF ImportsPage
<1>7. CASE p = "audit"
  BY <1>0, <1>7 DEF AuditPage
<1>8. CASE p = "staff"
  BY <1>0, <1>8 DEF StaffPage
<1>9. CASE p = "settings"
  BY <1>0, <1>9 DEF SettingsPage
<1> QED BY <1>1, <1>2, <1>3, <1>4, <1>5, <1>6, <1>7, <1>8, <1>9 DEF Pages

-----------------------------------------------------------------------------
(* Type correctness *)

Cells == [token : Nat, status : {"loading", "success", "error"}, data : Data]
Flights == [load : Loads, token : Nat, own : BOOLEAN, at : {"out", "reading", "answered", "failed"}, data : Data]

Sent == [name : Requests, turn : Nat, at : {"out", "done", "failed"}]

\* A button that was pressed on the page on the screen is one of its own, and the
\* page may be seen.
Pressed ==
  /\ sent \subseteq Sent
  /\ \A r \in sent :
       /\ r.turn \in 0 .. turns
       /\ r.turn = turns =>
            Route(page, role, FALSE).may /\ r.name \in Route(page, role, FALSE).buttons

TypeInv == TypeOK /\ flights \subseteq Flights /\ Pressed

LEMMA DataTypes ==
  /\ First \in Questions /\ NoData \in Data /\ Unmounted \in Cells
  /\ \A n \in 1 .. 2 : [First EXCEPT !.number = n] \in Questions
BY WorkspaceAssumption
   DEF First, Questions, Filters, MaxPage, NoData, Data, PageSize, Unmounted, Cells

LEMMA FlightType ==
  ASSUME NEW l \in Loads, NEW token \in Nat, NEW q \in Questions, NEW own \in BOOLEAN
  PROVE  /\ Flight(l, token, q, own) \in Flights
         /\ Flight(l, token, q, own).load = l /\ Flight(l, token, q, own).token = token
         /\ Flight(l, token, q, own).at = "out"
         /\ l \in Asking => Flight(l, token, q, own).data.asked = q
<1>1. [NoData EXCEPT !.asked = IF l \in Asking THEN q ELSE First] \in Data
  BY DataTypes DEF Data
<1>2. [NoData EXCEPT !.asked = IF l \in Asking THEN q ELSE First].asked = IF l \in Asking THEN q ELSE First
  BY DataTypes DEF Data
<1> QED BY <1>1, <1>2 DEF Flight, Flights

\* What is there when the loads of L have been started: theirs is the last token.
LEMMA RunsFacts ==
  ASSUME NEW L \in SUBSET Loads, NEW old \in SUBSET Flights, NEW over \in [Loads -> Cells],
         NEW q \in Questions, NEW own \in BOOLEAN, Runs(L, old, over, q, own)
  PROVE  /\ res' \in [Loads -> Cells]
         /\ \A l \in L : res'[l].token = over[l].token + 1 /\ res'[l].status = "loading"
         /\ \A l \in Loads \ L : res'[l] = over[l]
         /\ flights' \subseteq Flights
         /\ \A f \in flights' :
              \/ f \in old
              \/ /\ f.load \in L /\ f.at = "out" /\ f.token = over[f.load].token + 1
                 /\ f.load \in Asking => f.data.asked = q
<1>1. \A l \in L : /\ [over[l] EXCEPT !.token = @ + 1, !.status = "loading"] \in Cells
                   /\ [over[l] EXCEPT !.token = @ + 1, !.status = "loading"].token = over[l].token + 1
                   /\ [over[l] EXCEPT !.token = @ + 1, !.status = "loading"].status = "loading"
  <2>1. \A c \in Cells : \A n \in Nat : /\ [c EXCEPT !.token = n] \in Cells
                                       /\ [c EXCEPT !.token = n].token = n
    BY DEF Cells
  <2>2. \A c \in Cells : /\ [c EXCEPT !.status = "loading"] \in Cells
                          /\ [c EXCEPT !.status = "loading"].token = c.token
                          /\ [c EXCEPT !.status = "loading"].status = "loading"
    BY DEF Cells
  <2>3. ASSUME NEW l \in L
        PROVE  /\ over[l] \in Cells /\ over[l].token + 1 \in Nat
               /\ [over[l] EXCEPT !.token = over[l].token + 1] \in Cells
               /\ [over[l] EXCEPT !.token = over[l].token + 1].token = over[l].token + 1
    <3>1. over[l] \in Cells /\ over[l].token + 1 \in Nat
      BY DEF Cells
    <3> QED BY <3>1, <2>1
  <2> QED BY <2>2, <2>3
<1>2. /\ res' \in [Loads -> Cells]
      /\ \A l \in L : res'[l].token = over[l].token + 1 /\ res'[l].status = "loading"
      /\ \A l \in Loads \ L : res'[l] = over[l]
  BY <1>1 DEF Runs
<1>3. ASSUME NEW l \in L
      PROVE  over[l].token + 1 \in Nat
  BY DEF Cells
<1>4. ASSUME NEW f \in flights', f \notin old
      PROVE  /\ f \in Flights
             /\ f.load \in L /\ f.at = "out" /\ f.token = over[f.load].token + 1
             /\ f.load \in Asking => f.data.asked = q
  <2>1. PICK l \in L : f = Flight(l, over[l].token + 1, q, own)
    BY <1>4 DEF Runs
  <2> QED BY <2>1, <1>3, FlightType
<1> QED BY <1>2, <1>4

LEMMA MountedLoads ==
  TypeOK => /\ Page.loads = Route(page, role, FALSE).loads /\ Page.may = Route(page, role, FALSE).may
            /\ Page.buttons \subseteq Route(page, role, FALSE).buttons
            /\ Mounted = Route(page, role, FALSE).loads \cup ShellLoads(role)
            /\ Route(page, role, FALSE).may => Page.again \subseteq Route(page, role, FALSE).loads
<1>1. Failed \in BOOLEAN
  BY DEF Failed
<1> QED BY <1>1, RouteFacts DEF TypeOK, Mounted, Page

LEMMA ShellFacts == \A r \in Roles : ShellLoads(r) \subseteq {"today"}
BY DEF ShellLoads, Only

\* The flights after a start of loads are of what is mounted and have tokens
\* that were given out, if those before it are and have.
LEMMA RunsFit ==
  ASSUME NEW M \in SUBSET Loads, NEW L \in SUBSET M, NEW old \in SUBSET Flights,
         NEW over \in [Loads -> Cells], NEW q \in Questions, NEW own \in BOOLEAN, Runs(L, old, over, q, own),
         \A f \in old : f.load \in M /\ f.token \in 1 .. over[f.load].token
  PROVE  \A f \in flights' : f.load \in M /\ f.token \in 1 .. res'[f.load].token
<1> SUFFICES ASSUME NEW f \in flights'
             PROVE  f.load \in M /\ f.token \in 1 .. res'[f.load].token
  OBVIOUS
<1>1. /\ \A l \in L : res'[l].token = over[l].token + 1
      /\ \A l \in Loads \ L : res'[l] = over[l]
      /\ f \in old \/ (f.load \in L /\ f.token = over[f.load].token + 1)
  BY RunsFacts
<1>2. \A l \in Loads : over[l].token \in Nat
  BY DEF Cells
<1>3. CASE f \in old
  <2>1. f.load \in M /\ f.token \in 1 .. over[f.load].token
    BY <1>3
  <2>2. res'[f.load].token \in {over[f.load].token, over[f.load].token + 1}
    BY <1>1, <2>1
  <2> QED BY <1>2, <2>1, <2>2
<1>4. CASE f.load \in L /\ f.token = over[f.load].token + 1
  BY <1>1, <1>2, <1>4
<1> QED BY <1>1, <1>3, <1>4

\* Every change of a page's inputs is a question that can be asked.
LEMMA AskCases ==
  ASSUME TypeInv, SetFilter \/ SetFilterOnly \/ SetRange \/ NextPage \/ PreviousPage
  PROVE  \E q \in Questions : Ask(q)
<1> USE DEF TypeInv, TypeOK, Questions
<1>1. CASE SetFilter
  BY <1>1, WorkspaceAssumption DEF SetFilter, Filters, MaxPage
<1>2. CASE SetFilterOnly
  BY <1>2 DEF SetFilterOnly
<1>3. CASE SetRange
  BY <1>3, DataTypes DEF SetRange
<1>4. CASE NextPage
  BY <1>4, WorkspaceAssumption DEF NextPage, MaxPage
<1>5. CASE PreviousPage
  BY <1>5, WorkspaceAssumption DEF PreviousPage, MaxPage
<1> QED BY <1>1, <1>2, <1>3, <1>4, <1>5

LEMMA ServerTypes ==
  /\ actives \in 0 .. Directory => \A q \in Questions : Total(q) \in 0 .. Directory
  /\ actives \in 0 .. Directory => \A d \in Data : ListMembers(d) \in Data /\ ListMembers(d).asOf = d.asOf
                                                   /\ ListMembers(d).asked = d.asked
<1>1. ASSUME actives \in 0 .. Directory, NEW q \in Questions
      PROVE  Total(q) \in 0 .. Directory
  BY <1>1, WorkspaceAssumption DEF Total
<1>2. ASSUME actives \in 0 .. Directory, NEW d \in Data
      PROVE  ListMembers(d) \in Data /\ ListMembers(d).asOf = d.asOf /\ ListMembers(d).asked = d.asked
  <2> DEFINE skip == (IF d.asked.number < 1 THEN 0 ELSE d.asked.number - 1) * PageSize
             left == IF Total(d.asked) < skip THEN 0 ELSE Total(d.asked) - skip
             n == AtMost(PageSize, left)
             b == actives > 0
  <2>1. skip \in Nat
    BY DEF Data, Questions, PageSize, MaxPage
  <2>2. left \in Nat
    BY <1>1, <1>2, <2>1 DEF Data
  <2>3. n \in 0 .. PageSize
    <3> HIDE DEF left
    <3> QED BY <2>2 DEF AtMost, PageSize
  <2>4. b \in BOOLEAN
    OBVIOUS
  <2>5. ListMembers(d) = [d EXCEPT !.rows = n, !.any = b]
    BY DEF ListMembers
  <2> HIDE DEF n, b
  <2> QED BY <2>3, <2>4, <2>5 DEF Data
<1> QED BY <1>1, <1>2

\* The server's steps put another flight in the place of one: of the same load,
\* with the same token and question, and the age of its first read.
LEMMA ServerSteps ==
  ASSUME TypeInv, NEW f \in flights, FirstRead(f) \/ Answer(f)
  PROVE  \E g \in Flights :
           /\ flights' = (flights \ {f}) \cup {g}
           /\ g.load = f.load /\ g.token = f.token /\ g.data.asked = f.data.asked
           /\ f.at = "out" /\ g.at \in {"reading", "answered"} => g.data.asOf = version
           /\ f.at # "out" => f.at = "reading" /\ g.data.asOf = f.data.asOf
<1> USE DEF TypeInv
<1>1. f \in Flights /\ version \in 0 .. MaxChanges /\ actives \in 0 .. Directory
  BY DEF TypeOK
<1>2. CASE FirstRead(f)
  <2> DEFINE total == IF f.load = "members" THEN Total(f.data.asked) ELSE f.data.total
             g == [f EXCEPT !.at = "reading", !.data.asOf = version, !.data.total = total]
  <2>1. total \in 0 .. Directory
    BY <1>1, ServerTypes DEF Flights, Data
  <2>2. flights' = (flights \ {f}) \cup {g} /\ f.at = "out"
    BY <1>2 DEF FirstRead
  <2> HIDE DEF total
  <2>3. g \in Flights /\ g.load = f.load /\ g.token = f.token /\ g.data.asked = f.data.asked
        /\ g.data.asOf = version
    BY <1>1, <2>1 DEF Flights, Data
  <2> QED BY <2>2, <2>3
<1>3. CASE Answer(f)
  <2>1. CASE f.at = "out" /\ flights' = (flights \ {f}) \cup {[f EXCEPT !.at = "answered", !.data.asOf = version]}
    <3> DEFINE g == [f EXCEPT !.at = "answered", !.data.asOf = version]
    <3>1. g \in Flights /\ g.load = f.load /\ g.token = f.token /\ g.data.asked = f.data.asked
          /\ g.data.asOf = version
      BY <1>1 DEF Flights, Data
    <3> QED BY <2>1, <3>1
  <2>2. CASE /\ f.at = "reading"
             /\ flights' = (flights \ {f}) \cup
                  {[f EXCEPT !.at = "answered", !.data = IF f.load = "members" THEN ListMembers(@) ELSE @]}
    <3> DEFINE d == IF f.load = "members" THEN ListMembers(f.data) ELSE f.data
               g == [f EXCEPT !.at = "answered", !.data = d]
    <3>1. d \in Data /\ d.asOf = f.data.asOf /\ d.asked = f.data.asked
      BY <1>1, ServerTypes DEF Flights
    <3>2. flights' = (flights \ {f}) \cup {g}
      BY <2>2
    <3> HIDE DEF d
    <3>3. g \in Flights /\ g.load = f.load /\ g.token = f.token /\ g.data = d
      BY <1>1, <3>1 DEF Flights
    <3> QED BY <2>2, <3>1, <3>2, <3>3
  <2>3. CASE f.at \in {"out", "reading"} /\ flights' = (flights \ {f}) \cup {[f EXCEPT !.at = "failed"]}
    <3>1. [f EXCEPT !.at = "failed"] \in Flights
      BY <1>1 DEF Flights
    <3>2. /\ [f EXCEPT !.at = "failed"].load = f.load /\ [f EXCEPT !.at = "failed"].token = f.token
          /\ [f EXCEPT !.at = "failed"].data = f.data /\ [f EXCEPT !.at = "failed"].at = "failed"
      BY <1>1 DEF Flights
    <3> QED BY <2>3, <3>1, <3>2
  <2> QED BY <1>3, <2>1, <2>2, <2>3 DEF Answer
<1> QED BY <1>2, <1>3

\* A promise that settles shows its answer if its token is the last.
LEMMA LandSteps ==
  ASSUME TypeInv, NEW f \in flights, Land(f)
  PROVE  /\ flights' = flights \ {f} /\ res' \in [Loads -> Cells]
         /\ \A l \in Loads : res'[l].token = res[l].token
         /\ \A l \in Loads : \/ res'[l] = res[l]
                             \/ res'[l].status = "error"
                             \/ /\ l = f.load /\ f.token = res[l].token /\ f.at = "answered"
                                /\ res'[l].data = f.data
         /\ \A l \in Loads : res'[l].status = "loading" =>
              res'[l] = res[l] /\ ~(f.load = l /\ f.token = res[l].token)
<1> USE DEF TypeInv, TypeOK
<1>1. f \in Flights /\ f.load \in Loads /\ res \in [Loads -> Cells] /\ res[f.load] \in Cells
  BY DEF Flights, Cells
<1>2. CASE f.token # res[f.load].token
  BY <1>1, <1>2 DEF Land
<1>3. CASE f.token = res[f.load].token /\ f.at = "answered"
  <2> DEFINE c == [res[f.load] EXCEPT !.status = "success", !.data = f.data]
  <2>1. res' = [res EXCEPT ![f.load] = c]
    BY <1>3 DEF Land
  <2>2. c \in Cells /\ c.token = res[f.load].token /\ c.data = f.data /\ c.status = "success"
    BY <1>1 DEF Cells, Flights
  <2> HIDE DEF c
  <2> QED BY <1>1, <1>3, <2>1, <2>2 DEF Land
<1>4. CASE f.token = res[f.load].token /\ f.at # "answered"
  <2> DEFINE c == [res[f.load] EXCEPT !.status = "error"]
  <2>1. res' = [res EXCEPT ![f.load] = c]
    BY <1>4 DEF Land
  <2>2. c \in Cells /\ c.token = res[f.load].token /\ c.status = "error"
    BY <1>1 DEF Cells
  <2> HIDE DEF c
  <2> QED BY <1>1, <1>4, <2>1, <2>2 DEF Land
<1> QED BY <1>2, <1>3, <1>4

LEMMA TypeInit == Init => TypeInv
<1> SUFFICES ASSUME Init PROVE TypeInv
  OBVIOUS
<1> DEFINE start == Route("dashboard", role, FALSE).loads \cup ShellLoads(role)
<1>1. /\ role \in Roles /\ page = "dashboard" /\ question = First
      /\ res = [l \in Loads |-> IF l \in start THEN [Unmounted EXCEPT !.token = 1] ELSE Unmounted]
      /\ flights = {[load |-> l, token |-> 1, own |-> TRUE, at |-> "out", data |-> NoData] : l \in start}
      /\ sent = {} /\ version = 0 /\ actives = Directory
      /\ acked = [l \in Loads |-> 0] /\ turns = 0
  BY DEF Init
<1>2. "dashboard" \in Pages /\ "today" \in Loads
  BY DEF Pages, Loads
<1>3. start \subseteq Loads
  BY <1>1, <1>2, RouteFacts, ShellFacts
<1>4. [Unmounted EXCEPT !.token = 1] \in Cells /\ [Unmounted EXCEPT !.token = 1].token = 1
  BY DataTypes DEF Cells
<1>5. res \in [Loads -> Cells]
  BY <1>1, <1>3, <1>4, DataTypes
<1>6. TypeOK /\ Mounted = start
  <2>1. Failed \in BOOLEAN
    BY DEF Failed
  <2>2. Mounted = start
    BY <1>1, <1>2, <2>1, RouteFacts DEF Mounted, Page
  <2>3. ASSUME NEW f \in flights
        PROVE  f.load \in start /\ f.token = 1 /\ f.own \in BOOLEAN /\ f.at = "out" /\ f.data = NoData
    <3>1. \E l \in start : f = [load |-> l, token |-> 1, own |-> TRUE, at |-> "out", data |-> NoData]
      BY <1>1
    <3> HIDE DEF start
    <3> QED BY <3>1
  <2>4. \A f \in flights : res[f.load].token = 1
    BY <1>1, <1>3, <1>4, <2>3
  <2> HIDE DEF start
  <2>5. \A f \in flights :
          /\ f.load \in Mounted /\ f.token \in 1 .. res[f.load].token
          /\ f.own \in BOOLEAN /\ f.at \in {"out", "reading", "answered", "failed"} /\ f.data \in Data
    BY <2>2, <2>3, <2>4, DataTypes
  <2>6. /\ role \in Roles /\ page \in Pages /\ question \in Questions /\ sent = {}
        /\ version \in 0 .. MaxChanges /\ actives \in 0 .. Directory
        /\ acked \in [Loads -> 0 .. MaxChanges] /\ turns \in 0 .. MaxTurns
    BY <1>1, <1>2, DataTypes, WorkspaceAssumption
  <2> QED BY <1>5, <2>2, <2>5, <2>6 DEF TypeOK, Cells
<1>7. flights \subseteq Flights
  <2> SUFFICES ASSUME NEW f \in flights PROVE f \in Flights
    OBVIOUS
  <2> HIDE DEF start
  <2>1. PICK l \in start : f = [load |-> l, token |-> 1, own |-> TRUE, at |-> "out", data |-> NoData]
    BY <1>1
  <2>2. l \in Loads /\ NoData \in Data
    BY <1>3, DataTypes
  <2> QED BY <2>1, <2>2 DEF Flights
<1>8. Pressed
  BY <1>1 DEF Pressed
<1> QED BY <1>6, <1>7, <1>8 DEF TypeInv

\* What a page turn starts: the loads of the new page, beside those of the shell.
LEMMA OpenStarts ==
  ASSUME TypeInv, NEW p \in Pages, Open(p)
  PROVE  \E L \in SUBSET Loads, old \in SUBSET Flights, over \in [Loads -> Cells] :
           /\ L = Route(p, role, FALSE).loads /\ old = {f \in flights : f.load \in ShellLoads(role)}
           /\ L \cap ShellLoads(role) = {}
           /\ over = [l \in Loads |-> IF l \in ShellLoads(role) THEN res[l] ELSE Unmounted]
           /\ Runs(L, old, over, First, TRUE)
<1> DEFINE L == Route(p, role, FALSE).loads
           old == {f \in flights : f.load \in ShellLoads(role)}
           over == [l \in Loads |-> IF l \in ShellLoads(role) THEN res[l] ELSE Unmounted]
<1>1. role \in Roles /\ res \in [Loads -> Cells] /\ flights \subseteq Flights
  BY DEF TypeInv, TypeOK, Cells
<1>2. L \in SUBSET Loads /\ L \cap ShellLoads(role) = {} /\ L \ ShellLoads(role) = L
  BY <1>1, RouteFacts, ShellFacts
<1>3. old \in SUBSET Flights /\ over \in [Loads -> Cells]
  BY <1>1, DataTypes
<1>4. Runs(L, old, over, First, TRUE)
  BY <1>2 DEF Open
<1> QED BY <1>2, <1>3, <1>4

\* What a new question, a refresh and the success of a button start: loads of the
\* page, beside what is under way or what of it the effect does not abort.
LEMMA AskStarts ==
  ASSUME TypeInv, NEW q \in Questions, Ask(q)
  PROVE  \E L \in SUBSET Loads, old \in SUBSET Flights :
           /\ L = Route(page, role, FALSE).loads
           /\ old \subseteq flights /\ {f \in flights : f.load \notin L} \subseteq old
           /\ Runs(L, old, res, q, TRUE) /\ question' = q
<1>1. role \in Roles /\ page \in Pages /\ flights \subseteq Flights
  BY DEF TypeInv, TypeOK
<1>2. Page.loads = Route(page, role, FALSE).loads /\ Route(page, role, FALSE).loads \subseteq Loads
  BY <1>1, MountedLoads, RouteFacts DEF TypeInv
<1>3. PICK old \in SUBSET Flights : old = {f \in flights : f.load \in Page.loads => ~Aborted(f)}
  BY <1>1
<1>4. Runs(Page.loads, old, res, q, TRUE) /\ question' = q
  BY <1>3 DEF Ask, Rerun
<1>5. old \subseteq flights /\ {f \in flights : f.load \notin Page.loads} \subseteq old
  BY <1>3
<1> QED BY <1>2, <1>4, <1>5

LEMMA RefreshStarts ==
  ASSUME TypeInv,
         Reload \/ \E r \in sent : Told(r) /\ r.at = "done" /\ r.turn = turns
  PROVE  \E L \in SUBSET Loads :
           /\ L \subseteq Route(page, role, FALSE).loads /\ Runs(L, flights, res, question, FALSE)
           /\ acked' \in {acked} \cup {[l \in Loads |-> IF l \in S THEN version ELSE acked[l]] : S \in SUBSET Loads}
           /\ \A l \in Route(page, role, FALSE).loads \ L : acked'[l] = acked[l]
           /\ sent' \subseteq sent
           /\ UNCHANGED <<role, page, question, version, actives, turns>>
<1>1. role \in Roles /\ page \in Pages
  BY DEF TypeInv, TypeOK
<1>2. Route(page, role, FALSE).loads \subseteq Loads
  BY <1>1, RouteFacts
<1>3. CASE Reload
  BY <1>2, <1>3, MountedLoads DEF TypeInv, Reload, Refresh
<1>4. ASSUME NEW r \in sent, Told(r), r.at = "done", r.turn = turns
      PROVE  \E L \in SUBSET Loads :
               /\ L \subseteq Route(page, role, FALSE).loads /\ Runs(L, flights, res, question, FALSE)
               /\ acked' \in {acked} \cup {[l \in Loads |-> IF l \in S THEN version ELSE acked[l]] : S \in SUBSET Loads}
               /\ \A l \in Route(page, role, FALSE).loads \ L : acked'[l] = acked[l]
               /\ sent' \subseteq sent
               /\ UNCHANGED <<role, page, question, version, actives, turns>>
  <2>1. Route(page, role, FALSE).may /\ r.name \in Route(page, role, FALSE).buttons
    BY <1>4 DEF TypeInv, Pressed
  <2>2. Reloads(page, r.name) \subseteq Route(page, role, FALSE).loads
    BY <1>1, <2>1, ReloadsFacts
  <2>3. Shows(r.name) \cap Route(page, role, FALSE).loads \subseteq Reloads(page, r.name)
    BY <1>1, <2>1, ReloadsEnough
  <2>4. /\ Runs(Reloads(page, r.name), flights, res, question, FALSE)
        /\ acked' = [l \in Loads |-> IF l \in Shows(r.name) THEN version ELSE acked[l]]
        /\ sent' \subseteq sent
        /\ UNCHANGED <<role, page, question, version, actives, turns>>
    BY <1>4 DEF Told, Refresh
  <2>5. PICK S \in SUBSET Loads : \A l \in Loads : l \in S <=> l \in Shows(r.name)
    <3>1. {l \in Loads : l \in Shows(r.name)} \in SUBSET Loads
      OBVIOUS
    <3> QED BY <3>1
  <2>6. acked' = [l \in Loads |-> IF l \in S THEN version ELSE acked[l]]
    BY <2>4, <2>5
  <2>7. \A l \in Route(page, role, FALSE).loads \ Reloads(page, r.name) : acked'[l] = acked[l]
    BY <1>2, <2>3, <2>4
  <2>8. acked' \in {acked} \cup {[l \in Loads |-> IF l \in T THEN version ELSE acked[l]] : T \in SUBSET Loads}
    BY <2>6
  <2>9. Reloads(page, r.name) \in SUBSET Loads
    BY <1>2, <2>2
  <2> QED BY <2>2, <2>4, <2>7, <2>8, <2>9
<1> QED BY <1>3, <1>4

\* The parts of the invariant that the loads and the button can disturb.
LEMMA TypeParts ==
  ASSUME role' \in Roles, page' \in Pages, question' \in Questions, turns' \in 0 .. MaxTurns,
         version' \in 0 .. MaxChanges, actives' \in 0 .. Directory, acked' \in [Loads -> 0 .. MaxChanges],
         res' \in [Loads -> Cells], flights' \subseteq Flights,
         \A f \in flights' : /\ f.load \in Route(page', role', FALSE).loads \cup ShellLoads(role')
                             /\ f.token \in 1 .. res'[f.load].token,
         Pressed'
  PROVE  TypeInv'
<1>1. Failed' \in BOOLEAN
  BY DEF Failed
<1>2. Mounted' = Route(page', role', FALSE).loads \cup ShellLoads(role')
  BY <1>1, RouteFacts DEF Mounted, Page
<1>3. \A f \in flights' :
        f.own \in BOOLEAN /\ f.at \in {"out", "reading", "answered", "failed"} /\ f.data \in Data
  BY DEF Flights
<1>4. \A r \in sent' : r.name \in Requests /\ r.at \in {"out", "done", "failed"}
  BY DEF Pressed, Sent
<1> QED BY <1>2, <1>3, <1>4 DEF TypeInv, TypeOK, Pressed, Cells

LEMMA TypeStep == TypeInv /\ [Next]_vars => TypeInv'
<1> SUFFICES ASSUME TypeInv, [Next]_vars PROVE TypeInv'
  OBVIOUS
<1>0. /\ role \in Roles /\ page \in Pages /\ question \in Questions /\ turns \in 0 .. MaxTurns
      /\ version \in 0 .. MaxChanges /\ actives \in 0 .. Directory /\ acked \in [Loads -> 0 .. MaxChanges]
      /\ res \in [Loads -> Cells] /\ flights \subseteq Flights
      /\ \A f \in flights : /\ f.load \in Route(page, role, FALSE).loads \cup ShellLoads(role)
                            /\ f.token \in 1 .. res[f.load].token
      /\ Pressed
  BY MountedLoads DEF TypeInv, TypeOK, Cells
<1>a. Route(page, role, FALSE).loads \cup ShellLoads(role) \subseteq Loads
  BY <1>0, RouteFacts, ShellFacts DEF Loads
<1>b. ASSUME UNCHANGED <<role, page, turns>>, sent' \subseteq sent PROVE Pressed'
  BY <1>0, <1>b DEF Pressed
<1>1. CASE UNCHANGED vars
  BY <1>0, <1>1, TypeParts DEF vars, Pressed
<1>2. ASSUME NEW p \in Pages, Open(p) PROVE TypeInv'
  <2>1. PICK L \in SUBSET Loads, old \in SUBSET Flights, over \in [Loads -> Cells] :
           /\ L = Route(p, role, FALSE).loads /\ old = {f \in flights : f.load \in ShellLoads(role)}
           /\ L \cap ShellLoads(role) = {}
           /\ over = [l \in Loads |-> IF l \in ShellLoads(role) THEN res[l] ELSE Unmounted]
           /\ Runs(L, old, over, First, TRUE)
    BY <1>2, OpenStarts
  <2>2. /\ page' = p /\ role' = role /\ question' = First
        /\ sent' = sent /\ turns' = turns + 1 /\ version' = version /\ actives' = actives
        /\ turns' \in 0 .. MaxTurns /\ acked' \in [Loads -> 0 .. MaxChanges]
    BY <1>0, <1>2, WorkspaceAssumption DEF Open
  <2>3. res' \in [Loads -> Cells] /\ flights' \subseteq Flights
    BY <2>1, DataTypes, RunsFacts
  <2>4. L \cup ShellLoads(role) \subseteq Loads
    BY <1>a, <2>1
  <2>5. \A f \in old : f.load \in L \cup ShellLoads(role) /\ f.token \in 1 .. over[f.load].token
    BY <1>0, <2>1, <2>4
  <2>6. \A f \in flights' : f.load \in L \cup ShellLoads(role) /\ f.token \in 1 .. res'[f.load].token
    <3>1. PICK M \in SUBSET Loads : M = L \cup ShellLoads(role)
      BY <2>4
    <3>2. L \in SUBSET M /\ \A f \in old : f.load \in M /\ f.token \in 1 .. over[f.load].token
      BY <2>5, <3>1
    <3>3. First \in Questions /\ Runs(L, old, over, First, TRUE)
      BY <2>1, DataTypes
    <3>4. \A f \in flights' : f.load \in M /\ f.token \in 1 .. res'[f.load].token
      BY <3>2, <3>3, RunsFit
    <3> QED BY <3>1, <3>4
  <2>7. Pressed'
    <3>1. turns \in Nat
      BY <1>0, WorkspaceAssumption
    <3>2. ASSUME NEW r \in sent
          PROVE  r \in Sent /\ r.turn \in 0 .. turns' /\ r.turn # turns'
      <4>1. r \in Sent /\ r.turn \in 0 .. turns
        BY <1>0 DEF Pressed
      <4>2. turns' = turns + 1
        BY <2>2
      <4> QED BY <3>1, <4>1, <4>2
    <3>3. sent' = sent
      BY <2>2
    <3> QED BY <3>2, <3>3 DEF Pressed
  <2> QED BY <1>0, <1>a, <2>1, <2>2, <2>3, <2>6, <2>7, DataTypes, TypeParts
<1>3. ASSUME NEW q \in Questions, Ask(q) PROVE TypeInv'
  <2>1. PICK L \in SUBSET Loads, old \in SUBSET Flights :
           /\ L = Route(page, role, FALSE).loads
           /\ old \subseteq flights /\ {f \in flights : f.load \notin L} \subseteq old
           /\ Runs(L, old, res, q, TRUE) /\ question' = q
    BY <1>3, AskStarts
  <2>2. UNCHANGED <<role, page, sent, version, actives, acked, turns>>
    BY <1>3 DEF Ask
  <2>3. res' \in [Loads -> Cells] /\ flights' \subseteq Flights
    BY <1>0, <2>1, RunsFacts
  <2>4. \A f \in flights' : /\ f.load \in Route(page, role, FALSE).loads \cup ShellLoads(role)
                            /\ f.token \in 1 .. res'[f.load].token
    <3>1. PICK M \in SUBSET Loads : M = Route(page, role, FALSE).loads \cup ShellLoads(role)
      BY <1>a
    <3>2. L \in SUBSET M /\ \A f \in old : f.load \in M /\ f.token \in 1 .. res[f.load].token
      BY <1>0, <2>1, <3>1
    <3>3. Runs(L, old, res, q, TRUE)
      BY <2>1
    <3>4. \A f \in flights' : f.load \in M /\ f.token \in 1 .. res'[f.load].token
      BY <1>0, <3>2, <3>3, RunsFit
    <3> QED BY <3>1, <3>4
  <2> QED BY <1>0, <2>1, <2>2, <2>3, <2>4, TypeParts DEF Pressed
<1>4. ASSUME Reload \/ \E r \in sent : Told(r) /\ r.at = "done" /\ r.turn = turns
      PROVE  TypeInv'
  <2>1. PICK L \in SUBSET Loads :
           /\ L \subseteq Route(page, role, FALSE).loads /\ Runs(L, flights, res, question, FALSE)
           /\ acked' \in {acked} \cup {[l \in Loads |-> IF l \in S THEN version ELSE acked[l]] : S \in SUBSET Loads}
           /\ sent' \subseteq sent
           /\ UNCHANGED <<role, page, question, version, actives, turns>>
    BY <1>4, RefreshStarts
  <2>2. Pressed'
    BY <1>b, <2>1
  <2>3. res' \in [Loads -> Cells] /\ flights' \subseteq Flights
    BY <1>0, <2>1, RunsFacts
  <2>4. \A f \in flights' : /\ f.load \in Route(page, role, FALSE).loads \cup ShellLoads(role)
                            /\ f.token \in 1 .. res'[f.load].token
    <3>1. PICK M \in SUBSET Loads : M = Route(page, role, FALSE).loads \cup ShellLoads(role)
      BY <1>a
    <3>2. L \in SUBSET M /\ \A f \in flights : f.load \in M /\ f.token \in 1 .. res[f.load].token
      BY <1>0, <2>1, <3>1
    <3>3. Runs(L, flights, res, question, FALSE)
      BY <2>1
    <3>4. \A f \in flights' : f.load \in M /\ f.token \in 1 .. res'[f.load].token
      BY <1>0, <3>2, <3>3, RunsFit
    <3> QED BY <3>1, <3>4
  <2>5. acked' \in [Loads -> 0 .. MaxChanges]
    BY <1>0, <2>1
  <2> QED BY <1>0, <1>a, <2>1, <2>2, <2>3, <2>4, <2>5, TypeParts
<1>5. ASSUME NEW r \in sent, Told(r), ~(r.at = "done" /\ r.turn = turns) PROVE TypeInv'
  <2>1. /\ UNCHANGED <<role, page, question, res, flights, version, actives, acked, turns>>
        /\ sent' \subseteq sent
    BY <1>5 DEF Told
  <2>2. Pressed'
    BY <1>b, <2>1
  <2> QED BY <1>0, <2>1, <2>2, TypeParts
<1>6. ASSUME NEW b \in Requests, Press(b) PROVE TypeInv'
  <2>1. b \in Route(page, role, FALSE).buttons /\ Route(page, role, FALSE).may
    BY <1>6, MountedLoads DEF Press, TypeInv
  <2> DEFINE n == [name |-> b, turn |-> turns, at |-> "out"]
  <2>2. sent' = sent \cup {n} /\ n \in Sent /\ n.name = b /\ n.turn = turns /\ turns \in 0 .. turns
    <3>1. turns \in Nat
      BY <1>0, WorkspaceAssumption
    <3>2. sent' = sent \cup {n}
      BY <1>6 DEF Press
    <3> QED BY <3>1, <3>2 DEF Sent
  <2>3. UNCHANGED <<role, page, question, res, flights, version, actives, acked, turns>>
    BY <1>6 DEF Press
  <2> HIDE DEF n
  <2>4. Pressed'
    <3>1. ASSUME NEW r \in sent'
          PROVE  /\ r \in Sent /\ r.turn \in 0 .. turns
                 /\ r.turn = turns =>
                      Route(page, role, FALSE).may /\ r.name \in Route(page, role, FALSE).buttons
      <4>1. CASE r \in sent
        BY <1>0, <4>1 DEF Pressed
      <4>2. CASE r = n
        BY <2>1, <2>2, <4>2
      <4> QED BY <2>2, <3>1, <4>1, <4>2
    <3> QED BY <2>3, <3>1 DEF Pressed
  <2> QED BY <1>0, <2>3, <2>4, TypeParts
<1>7. ASSUME NEW r \in sent, Perform(r) PROVE TypeInv'
  <2>1. PICK n \in Sent : n.name = r.name /\ n.turn = r.turn /\ sent' = (sent \ {r}) \cup {n}
    <3>1. \E outcome \in {"done", "failed"} : sent' = (sent \ {r}) \cup {[r EXCEPT !.at = outcome]}
      BY <1>7 DEF Perform, Answered
    <3>2. r \in Sent
      BY <1>0 DEF Pressed
    <3> QED BY <3>1, <3>2 DEF Sent
  <2>2. UNCHANGED <<role, page, question, res, flights, acked, turns>>
    BY <1>7 DEF Perform
  <2>3. Pressed'
    BY <1>0, <2>1, <2>2 DEF Pressed
  <2>4. version' \in 0 .. MaxChanges /\ actives' \in 0 .. Directory
    BY <1>0, <1>7, WorkspaceAssumption DEF Perform, Change, AtMost
  <2> QED BY <1>0, <2>2, <2>3, <2>4, TypeParts
<1>8. ASSUME Elsewhere PROVE TypeInv'
  <2>1. version' \in 0 .. MaxChanges /\ actives' \in 0 .. Directory
    BY <1>0, <1>8, WorkspaceAssumption DEF Elsewhere, Change, AtMost
  <2> QED BY <1>0, <1>8, <2>1, TypeParts DEF Elsewhere, Pressed
<1>9. ASSUME NEW f \in flights, FirstRead(f) \/ Answer(f) PROVE TypeInv'
  <2>1. PICK g \in Flights :
           /\ flights' = (flights \ {f}) \cup {g}
           /\ g.load = f.load /\ g.token = f.token /\ g.data.asked = f.data.asked
    BY <1>9, ServerSteps
  <2>2. UNCHANGED <<role, page, question, res, sent, version, actives, acked, turns>>
    BY <1>9 DEF FirstRead, Answer
  <2> QED BY <1>0, <2>1, <2>2, TypeParts DEF Pressed
<1>10. ASSUME NEW f \in flights, Land(f) PROVE TypeInv'
  <2>1. /\ flights' = flights \ {f} /\ res' \in [Loads -> Cells]
        /\ \A l \in Loads : res'[l].token = res[l].token
    BY <1>10, LandSteps
  <2>2. UNCHANGED <<role, page, question, sent, version, actives, acked, turns>>
    BY <1>10 DEF Land
  <2> QED BY <1>0, <1>a, <2>1, <2>2, TypeParts DEF Pressed
<1> QED BY <1>1, <1>2, <1>3, <1>4, <1>5, <1>6, <1>7, <1>8, <1>9, <1>10, AskCases DEF Next, Asks

LEMMA TypeInvariance == Spec => []TypeInv
BY TypeInit, TypeStep, PTL DEF Spec

\* Every reachable state has the types of the reducers, the requests and the
\* button: what is under way is a load of the page on the screen or of the shell,
\* with a token that useAsync gave out, and a busy button is one of that page,
\* while the requests of pages that were left are of earlier ones.
THEOREM TypeCorrect == Spec => []TypeOK
BY TypeInvariance, PTL DEF TypeInv

\* Nobody is led to a page that is not for his role or whose loads the server
\* refuses (AppShell's navigation, renderRoute, the guards of the routers): the two
\* tables agree, and what is under way is only what the page and the shell load.
THEOREM NavAllowed == Spec => []NavNeverRefused
<1>1. TypeInv => NavNeverRefused
  <2> SUFFICES ASSUME TypeInv, page \in Nav(role)
               PROVE  Page.may /\ \A f \in flights : Allowed(f.load, role)
    BY DEF NavNeverRefused
  <2>1. role \in Roles /\ page \in Pages
    BY DEF TypeInv, TypeOK
  <2>2. \A f \in flights : f.load \in Route(page, role, FALSE).loads \cup ShellLoads(role)
    BY MountedLoads DEF TypeInv, TypeOK
  <2> QED BY <2>1, <2>2, NavFacts, MountedLoads DEF TypeInv
<1> QED BY <1>1, TypeInvariance, PTL

-----------------------------------------------------------------------------
(* The page and its question *)

\* The load whose answer will count was asked what the page asks now.
Asked == \A f \in flights : f.load \in Asking /\ f.token = res[f.load].token => f.data.asked = question

AskInv == Asked /\ \A l \in Asking : l \in Mounted /\ res[l].status = "success" => res[l].data.asked = question

\* What a start of the loads of L for the question q may leave as it was: an old
\* load that will not count any more or was asked q, and an answer to q.
Leaves(L, old, over, q) ==
  /\ \A f \in old : f.load \in Asking =>
       \/ f.load \in L /\ f.token \in 1 .. over[f.load].token
       \/ f.load \notin L /\ (f.token = over[f.load].token => f.data.asked = q)
  /\ \A l \in Asking \ L : l \in Mounted' /\ over[l].status = "success" => over[l].data.asked = q

LEMMA AskedAfterRuns ==
  ASSUME NEW L \in SUBSET Loads, NEW old \in SUBSET Flights, NEW over \in [Loads -> Cells],
         NEW q \in Questions, NEW own \in BOOLEAN, Runs(L, old, over, q, own), question' = q,
         Leaves(L, old, over, q)
  PROVE  AskInv'
<1>1. /\ res' \in [Loads -> Cells] /\ flights' \subseteq Flights
      /\ \A l \in L : res'[l].token = over[l].token + 1 /\ res'[l].status = "loading"
      /\ \A l \in Loads \ L : res'[l] = over[l]
  BY RunsFacts
<1>a. ASSUME NEW f \in flights'
      PROVE  \/ f \in old
             \/ /\ f.load \in L /\ f.token = over[f.load].token + 1
                /\ f.load \in Asking => f.data.asked = q
  BY RunsFacts
<1>2. Asking \subseteq Loads
  BY DEF Asking, Loads
<1>3. ASSUME NEW f \in flights', f.load \in Asking, f.token = res'[f.load].token
      PROVE  f.data.asked = q
  <2>1. f.load \in Loads /\ over[f.load].token \in Nat
    BY <1>2, <1>3 DEF Cells
  <2> QED BY <1>1, <1>a, <1>3, <2>1 DEF Leaves
<1>4. \A l \in Asking : l \in Mounted' /\ res'[l].status = "success" => res'[l].data.asked = q
  BY <1>1, <1>2 DEF Leaves
<1> QED BY <1>3, <1>4 DEF AskInv, Asked

LEMMA AskStep == TypeInv /\ TypeInv' /\ AskInv /\ [Next]_vars => AskInv'
<1> SUFFICES ASSUME TypeInv, TypeInv', AskInv, [Next]_vars PROVE AskInv'
  OBVIOUS
<1>0. /\ role \in Roles /\ page \in Pages /\ question \in Questions
      /\ res \in [Loads -> Cells] /\ flights \subseteq Flights
      /\ \A f \in flights : /\ f.load \in Route(page, role, FALSE).loads \cup ShellLoads(role)
                            /\ f.token \in 1 .. res[f.load].token
      /\ Mounted = Route(page, role, FALSE).loads \cup ShellLoads(role)
  BY MountedLoads DEF TypeInv, TypeOK, Cells
<1>a. Asking \subseteq Loads /\ Asking \cap ShellLoads(role) = {}
  BY <1>0, ShellFacts DEF Asking, Loads
<1>b. Mounted' = Route(page', role', FALSE).loads \cup ShellLoads(role')
  <2>1. Failed' \in BOOLEAN /\ role' \in Roles /\ page' \in Pages
    BY DEF Failed, TypeInv, TypeOK
  <2> QED BY <2>1, RouteFacts DEF Mounted, Page
<1>c. ASSUME UNCHANGED <<role, page, question, res>>, flights' \subseteq flights PROVE AskInv'
  BY <1>0, <1>b, <1>c DEF AskInv, Asked
<1>1. CASE UNCHANGED vars
  BY <1>1, <1>c DEF vars
<1>2. ASSUME NEW p \in Pages, Open(p) PROVE AskInv'
  <2>1. PICK L \in SUBSET Loads, old \in SUBSET Flights, over \in [Loads -> Cells] :
           /\ L = Route(p, role, FALSE).loads /\ old = {f \in flights : f.load \in ShellLoads(role)}
           /\ L \cap ShellLoads(role) = {}
           /\ over = [l \in Loads |-> IF l \in ShellLoads(role) THEN res[l] ELSE Unmounted]
           /\ Runs(L, old, over, First, TRUE)
    BY <1>2, OpenStarts
  <2>2. page' = p /\ role' = role /\ question' = First
    BY <1>2 DEF Open
  <2>3. \A f \in old : f.load \notin Asking
    BY <1>a, <2>1
  <2>4. \A l \in Asking \ L : l \notin Mounted'
    BY <1>a, <1>b, <2>1, <2>2
  <2>5. First \in Questions /\ Runs(L, old, over, First, TRUE)
    BY <2>1, DataTypes
  <2>6. Leaves(L, old, over, First)
    BY <2>3, <2>4 DEF Leaves
  <2> QED BY <2>2, <2>5, <2>6, AskedAfterRuns
<1>3. ASSUME NEW q \in Questions, Ask(q) PROVE AskInv'
  <2>1. PICK L \in SUBSET Loads, old \in SUBSET Flights :
           /\ L = Route(page, role, FALSE).loads
           /\ old \subseteq flights /\ {f \in flights : f.load \notin L} \subseteq old
           /\ Runs(L, old, res, q, TRUE) /\ question' = q
    BY <1>3, AskStarts
  <2>2. page' = page /\ role' = role
    BY <1>3 DEF Ask
  <2>3. \A f \in old : f.load \in Asking => f.load \in L /\ f.token \in 1 .. res[f.load].token
    BY <1>0, <1>a, <2>1
  <2>4. \A l \in Asking \ L : l \notin Mounted'
    BY <1>a, <1>b, <2>1, <2>2
  <2>5. Runs(L, old, res, q, TRUE) /\ question' = q
    BY <2>1
  <2>6. Leaves(L, old, res, q) /\ old \subseteq Flights
    BY <1>0, <2>1, <2>3, <2>4 DEF Leaves
  <2> QED BY <1>0, <2>5, <2>6, AskedAfterRuns
<1>4. ASSUME Reload \/ \E r \in sent : Told(r) /\ r.at = "done" /\ r.turn = turns
      PROVE  AskInv'
  <2>1. PICK L \in SUBSET Loads : L \subseteq Route(page, role, FALSE).loads /\ Runs(L, flights, res, question, FALSE)
    BY <1>4, RefreshStarts
  <2>2. UNCHANGED <<role, page, question>>
    BY <1>4, RefreshStarts
  <2>3. \A f \in flights : f.load \in Asking =>
            \/ f.load \in L /\ f.token \in 1 .. res[f.load].token
            \/ f.load \notin L /\ (f.token = res[f.load].token => f.data.asked = question)
    BY <1>0 DEF AskInv, Asked
  <2>4. \A l \in Asking \ L : l \in Mounted' /\ res[l].status = "success" => res[l].data.asked = question
    BY <1>0, <1>b, <2>2 DEF AskInv
  <2>5. Leaves(L, flights, res, question)
    BY <2>3, <2>4 DEF Leaves
  <2> QED BY <1>0, <2>1, <2>2, <2>5, AskedAfterRuns
<1>5. ASSUME NEW r \in sent, Told(r), ~(r.at = "done" /\ r.turn = turns) PROVE AskInv'
  BY <1>5, <1>c DEF Told
<1>6. ASSUME (\E b \in Requests : Press(b)) \/ (\E r \in sent : Perform(r)) \/ Elsewhere PROVE AskInv'
  BY <1>6, <1>c DEF Press, Perform, Elsewhere
<1>7. ASSUME NEW f \in flights, FirstRead(f) \/ Answer(f) PROVE AskInv'
  <2>1. PICK g \in Flights :
           /\ flights' = (flights \ {f}) \cup {g}
           /\ g.load = f.load /\ g.token = f.token /\ g.data.asked = f.data.asked
    BY <1>7, ServerSteps
  <2>2. UNCHANGED <<role, page, question, res>>
    BY <1>7 DEF FirstRead, Answer
  <2>3. \A h \in flights' : h.load \in Asking /\ h.token = res[h.load].token => h.data.asked = question
    BY <2>1 DEF AskInv, Asked
  <2> QED BY <1>0, <1>b, <2>2, <2>3 DEF AskInv, Asked
<1>8. ASSUME NEW f \in flights, Land(f) PROVE AskInv'
  <2>1. /\ flights' = flights \ {f} /\ res' \in [Loads -> Cells]
        /\ \A l \in Loads : res'[l].token = res[l].token
        /\ \A l \in Loads : \/ res'[l] = res[l]
                            \/ res'[l].status = "error"
                            \/ /\ l = f.load /\ f.token = res[l].token /\ f.at = "answered"
                               /\ res'[l].data = f.data
    BY <1>8, LandSteps
  <2>2. UNCHANGED <<role, page, question>>
    BY <1>8 DEF Land
  <2>3. \A h \in flights' : h.load \in Asking /\ h.token = res'[h.load].token => h.data.asked = question
    BY <1>a, <2>1 DEF AskInv, Asked
  <2>4. \A l \in Asking : l \in Mounted' /\ res'[l].status = "success" => res'[l].data.asked = question
    BY <1>0, <1>a, <1>b, <2>1, <2>2 DEF AskInv, Asked
  <2> QED BY <2>2, <2>3, <2>4 DEF AskInv, Asked
<1> QED BY <1>1, <1>2, <1>3, <1>4, <1>5, <1>6, <1>7, <1>8, AskCases DEF Next, Asks

\* A resource that has settled answers the question the page asks now, however
\* many filters, page numbers and refreshes were sent meanwhile and in whatever
\* order they were answered (the reducer of useAsync, the loads of MembersPage).
THEOREM AnswersFit == Spec => []ShownAnswersAsked
<1>1. Init => AskInv
  <2> SUFFICES ASSUME Init PROVE AskInv
    OBVIOUS
  <2>1. ASSUME NEW f \in flights PROVE f.data = NoData
    <3> DEFINE start == Route("dashboard", role, FALSE).loads \cup ShellLoads(role)
    <3>1. flights = {[load |-> l, token |-> 1, own |-> TRUE, at |-> "out", data |-> NoData] : l \in start}
      BY DEF Init
    <3> HIDE DEF start
    <3> QED BY <3>1
  <2>2. question = First /\ NoData.asked = First
    BY DEF Init, NoData
  <2>3. \A l \in Loads : res[l].status = "loading"
    <3> DEFINE start == Route("dashboard", role, FALSE).loads \cup ShellLoads(role)
    <3>1. res = [l \in Loads |-> IF l \in start THEN [Unmounted EXCEPT !.token = 1] ELSE Unmounted]
      BY DEF Init
    <3> HIDE DEF start
    <3>2. Unmounted.status = "loading" /\ [Unmounted EXCEPT !.token = 1].status = "loading"
      BY DEF Unmounted
    <3> QED BY <3>1, <3>2
  <2> QED BY <2>1, <2>2, <2>3 DEF AskInv, Asked, Asking, Loads
<1>2. AskInv => ShownAnswersAsked
  BY DEF AskInv, ShownAnswersAsked
<1> QED BY <1>1, <1>2, AskStep, TypeInvariance, PTL DEF Spec

-----------------------------------------------------------------------------
(* What the user was told *)

\* The load whose answer will count has read, if it has read at all, what the
\* user was told of; so has what is shown.
Timely ==
  \A f \in flights :
     /\ f.load \in Route(page, role, FALSE).loads
     /\ f.token = res[f.load].token /\ f.at \in {"reading", "answered"}
     => f.data.asOf >= acked[f.load]
Seen ==
  \A l \in Route(page, role, FALSE).loads : res[l].status = "success" => res[l].data.asOf >= acked[l]
Past == \A l \in Loads : acked[l] <= version

ReadInv == Timely /\ Seen /\ Past

\* What a start of the loads of L may leave as it was of the loads M of a page: an
\* old load that will not count any more or is late enough, and data that are.
LeavesLate(M, L, old, over) ==
  /\ \A f \in old : f.load \in M =>
       \/ f.load \in L /\ f.token \in 1 .. over[f.load].token
       \/ /\ f.load \in Loads \ L
          /\ f.token = over[f.load].token /\ f.at \in {"reading", "answered"} => f.data.asOf >= acked'[f.load]
  /\ \A l \in M \ L : over[l].status = "success" => over[l].data.asOf >= acked'[l]

LEMMA TimelyAfterRuns ==
  ASSUME NEW M \in SUBSET Loads, M = Route(page', role', FALSE).loads,
         NEW L \in SUBSET Loads, NEW old \in SUBSET Flights, NEW over \in [Loads -> Cells],
         NEW q \in Questions, NEW own \in BOOLEAN, Runs(L, old, over, q, own), LeavesLate(M, L, old, over)
  PROVE  Timely' /\ Seen'
<1>1. /\ res' \in [Loads -> Cells] /\ flights' \subseteq Flights
      /\ \A l \in L : res'[l].token = over[l].token + 1 /\ res'[l].status = "loading"
      /\ \A l \in Loads \ L : res'[l] = over[l]
  BY RunsFacts
<1>2. ASSUME NEW f \in flights', f.load \in M, f.token = res'[f.load].token, f.at \in {"reading", "answered"}
      PROVE  f.data.asOf >= acked'[f.load]
  <2>1. f \in old
    BY <1>2, RunsFacts
  <2>2. f.load \in Loads /\ over[f.load].token \in Nat
    BY <2>1 DEF Cells, Flights
  <2>3. f.load \notin L
    <3> SUFFICES ASSUME f.load \in L PROVE FALSE
      OBVIOUS
    <3>1. f.token = over[f.load].token + 1
      BY <1>1, <1>2
    <3>2. f.token \in 1 .. over[f.load].token
      BY <1>2, <2>1 DEF LeavesLate
    <3> QED BY <2>2, <3>1, <3>2
  <2>4. f.token = over[f.load].token
    BY <1>1, <1>2, <2>2, <2>3
  <2> QED BY <1>2, <2>1, <2>3, <2>4 DEF LeavesLate
<1>3. Seen'
  BY <1>1 DEF LeavesLate, Seen
<1> QED BY <1>2, <1>3 DEF Timely

LEMMA ReadStep == TypeInv /\ ReadInv /\ [Next]_vars => ReadInv'
<1> SUFFICES ASSUME TypeInv, ReadInv, [Next]_vars PROVE ReadInv'
  OBVIOUS
<1>0. /\ role \in Roles /\ page \in Pages /\ question \in Questions
      /\ version \in 0 .. MaxChanges /\ acked \in [Loads -> 0 .. MaxChanges]
      /\ res \in [Loads -> Cells] /\ flights \subseteq Flights
      /\ \A f \in flights : /\ f.load \in Route(page, role, FALSE).loads \cup ShellLoads(role)
                            /\ f.token \in 1 .. res[f.load].token
      /\ \A f \in flights : f.load \in Loads
      /\ Route(page, role, FALSE).loads \subseteq Loads
  BY MountedLoads, RouteFacts DEF TypeInv, TypeOK, Cells, Flights
<1>a. ASSUME UNCHANGED <<role, page, res, acked>>, flights' \subseteq flights, version' \in {version, version + 1}
      PROVE  ReadInv'
  <2>1. Timely'
    BY <1>a DEF ReadInv, Timely
  <2>2. Seen'
    BY <1>a DEF ReadInv, Seen
  <2>3. Past'
    BY <1>0, <1>a DEF ReadInv, Past
  <2> QED BY <2>1, <2>2, <2>3 DEF ReadInv
<1>1. CASE UNCHANGED vars
  BY <1>1, <1>a DEF vars
<1>2. ASSUME NEW p \in Pages, Open(p) PROVE ReadInv'
  <2>1. PICK L \in SUBSET Loads, old \in SUBSET Flights, over \in [Loads -> Cells] :
           /\ L = Route(p, role, FALSE).loads /\ old = {f \in flights : f.load \in ShellLoads(role)}
           /\ L \cap ShellLoads(role) = {}
           /\ Runs(L, old, over, First, TRUE)
    BY <1>2, OpenStarts
  <2>2. version' = version /\ acked' = [l \in Loads |-> 0] /\ page' = p /\ role' = role
    BY <1>2 DEF Open
  <2>3. Past'
    BY <1>0, <2>2 DEF Past
  <2>4. LeavesLate(L, L, old, over)
    BY <2>1 DEF LeavesLate
  <2>5. First \in Questions /\ Runs(L, old, over, First, TRUE) /\ L = Route(page', role', FALSE).loads
    BY <2>1, <2>2, DataTypes
  <2>6. Timely' /\ Seen'
    BY <2>4, <2>5, TimelyAfterRuns
  <2> QED BY <2>3, <2>6 DEF ReadInv
<1>3. ASSUME NEW q \in Questions, Ask(q) PROVE ReadInv'
  <2>1. PICK L \in SUBSET Loads, old \in SUBSET Flights :
           /\ L = Route(page, role, FALSE).loads
           /\ old \subseteq flights /\ {f \in flights : f.load \notin L} \subseteq old
           /\ Runs(L, old, res, q, TRUE) /\ question' = q
    BY <1>3, AskStarts
  <2>2. UNCHANGED <<version, acked, page, role>>
    BY <1>3 DEF Ask
  <2>3. LeavesLate(L, L, old, res)
    BY <1>0, <2>1 DEF LeavesLate
  <2>4. Runs(L, old, res, q, TRUE) /\ L = Route(page', role', FALSE).loads
    BY <2>1, <2>2
  <2>5. Timely' /\ Seen'
    BY <1>0, <2>3, <2>4, TimelyAfterRuns
  <2> QED BY <2>2, <2>5 DEF ReadInv, Past
<1>4. ASSUME Reload \/ \E r \in sent : Told(r) /\ r.at = "done" /\ r.turn = turns
      PROVE  ReadInv'
  <2> DEFINE M == Route(page, role, FALSE).loads
  <2>1. PICK L \in SUBSET Loads :
           /\ L \subseteq M /\ Runs(L, flights, res, question, FALSE)
           /\ acked' \in {acked} \cup {[l \in Loads |-> IF l \in S THEN version ELSE acked[l]] : S \in SUBSET Loads}
           /\ \A l \in M \ L : acked'[l] = acked[l]
           /\ UNCHANGED <<role, page, version>>
    BY <1>4, RefreshStarts
  <2>2. Past'
    BY <1>0, <2>1 DEF ReadInv, Past
  <2>3. LeavesLate(M, L, flights, res)
    BY <1>0, <2>1 DEF LeavesLate, ReadInv, Timely, Seen
  <2>4. Runs(L, flights, res, question, FALSE) /\ M = Route(page', role', FALSE).loads /\ M \in SUBSET Loads
    BY <1>0, <2>1
  <2> HIDE DEF M
  <2>5. Timely' /\ Seen'
    BY <1>0, <2>3, <2>4, TimelyAfterRuns
  <2> QED BY <2>2, <2>5 DEF ReadInv
<1>5. ASSUME NEW r \in sent, Told(r), ~(r.at = "done" /\ r.turn = turns) PROVE ReadInv'
  BY <1>5, <1>a DEF Told
<1>6. ASSUME (\E b \in Requests : Press(b)) \/ (\E r \in sent : Perform(r)) \/ Elsewhere PROVE ReadInv'
  BY <1>6, <1>a DEF Press, Perform, Elsewhere, Change
<1>7. ASSUME NEW f \in flights, FirstRead(f) \/ Answer(f) PROVE ReadInv'
  <2>1. PICK g \in Flights :
           /\ flights' = (flights \ {f}) \cup {g}
           /\ g.load = f.load /\ g.token = f.token /\ g.data.asked = f.data.asked
           /\ f.at = "out" /\ g.at \in {"reading", "answered"} => g.data.asOf = version
           /\ f.at # "out" => f.at = "reading" /\ g.data.asOf = f.data.asOf
    BY <1>7, ServerSteps
  <2>2. UNCHANGED <<role, page, res, version, acked>>
    BY <1>7 DEF FirstRead, Answer
  <2>3. g.token = res[g.load].token /\ g.at \in {"reading", "answered"}
          /\ g.load \in Route(page, role, FALSE).loads => g.data.asOf >= acked[g.load]
    BY <1>0, <2>1 DEF ReadInv, Timely, Past
  <2> QED BY <2>1, <2>2, <2>3 DEF ReadInv, Timely, Seen, Past
<1>8. ASSUME NEW f \in flights, Land(f) PROVE ReadInv'
  <2>1. /\ flights' = flights \ {f} /\ res' \in [Loads -> Cells]
        /\ \A l \in Loads : res'[l].token = res[l].token
        /\ \A l \in Loads : \/ res'[l] = res[l]
                            \/ res'[l].status = "error"
                            \/ /\ l = f.load /\ f.token = res[l].token /\ f.at = "answered"
                               /\ res'[l].data = f.data
    BY <1>8, LandSteps
  <2>2. UNCHANGED <<role, page, version, acked>>
    BY <1>8 DEF Land
  <2>3. Timely'
    BY <1>0, <2>1, <2>2 DEF ReadInv, Timely
  <2>4. Seen'
    BY <1>0, <2>1, <2>2 DEF ReadInv, Timely, Seen
  <2> QED BY <2>2, <2>3, <2>4 DEF ReadInv, Past
<1> QED BY <1>1, <1>2, <1>3, <1>4, <1>5, <1>6, <1>7, <1>8, AskCases DEF Next, Asks

\* Whoever was told, on the page where he pressed a button, that it succeeded sees
\* what it did as soon as that page has settled, in every load of the page that
\* shows it: the pages refresh all of those (ReloadsEnough), and the tokens of
\* useAsync throw away whatever was read before.  It promises nothing to somebody
\* who left the page while the request was under way.
THEOREM WritesAreRead == Spec => []ReadYourWrites
<1>1. Init => ReadInv
  <2> SUFFICES ASSUME Init PROVE ReadInv
    OBVIOUS
  <2> DEFINE start == Route("dashboard", role, FALSE).loads \cup ShellLoads(role)
  <2>1. /\ res = [l \in Loads |-> IF l \in start THEN [Unmounted EXCEPT !.token = 1] ELSE Unmounted]
        /\ flights = {[load |-> l, token |-> 1, own |-> TRUE, at |-> "out", data |-> NoData] : l \in start}
        /\ version = 0 /\ acked = [l \in Loads |-> 0]
    BY DEF Init
  <2> HIDE DEF start
  <2>2. \A f \in flights : f.at = "out"
    BY <2>1
  <2>3. Unmounted.status = "loading" /\ [Unmounted EXCEPT !.token = 1].status = "loading"
    BY DEF Unmounted
  <2>4. Route(page, role, FALSE).loads \subseteq Loads
    <3>1. page \in Pages /\ role \in Roles
      BY TypeInit DEF TypeInv, TypeOK
    <3> QED BY <3>1, RouteFacts
  <2>5. \A l \in Loads : res[l].status = "loading"
    BY <2>1, <2>3
  <2>6. Seen
    BY <2>4, <2>5 DEF Seen
  <2>7. Timely
    BY <2>2 DEF Timely
  <2>8. version = 0 /\ \A l \in Loads : acked[l] = 0
    BY <2>1
  <2>9. Past
    BY <2>8 DEF Past
  <2> QED BY <2>6, <2>7, <2>9 DEF ReadInv
<1>2. TypeInv /\ ReadInv => ReadYourWrites
  BY MountedLoads DEF TypeInv, ReadInv, Seen, ReadYourWrites
<1> QED BY <1>1, <1>2, ReadStep, TypeInvariance, PTL DEF Spec
-----------------------------------------------------------------------------
(* What is waited for *)

\* The request that a loading resource waits for.
Expected(l, fl, r) == \E f \in fl : f.load = l /\ f.token = r[l].token

\* A start of loads sends one for each, with its new token.
LEMMA RunsSend ==
  ASSUME NEW L \in SUBSET Loads, NEW old \in SUBSET Flights, NEW over \in [Loads -> Cells],
         NEW q \in Questions, NEW own \in BOOLEAN, Runs(L, old, over, q, own)
  PROVE  /\ \A l \in L : Expected(l, flights', res')
         /\ old \subseteq flights' /\ \A l \in Loads \ L : res'[l] = over[l]
<1>1. ASSUME NEW l \in L PROVE Expected(l, flights', res')
  <2>1. Flight(l, over[l].token + 1, q, own) \in flights'
    BY DEF Runs
  <2>2. over[l].token + 1 \in Nat
    BY DEF Cells
  <2>3. Flight(l, over[l].token + 1, q, own).load = l /\ Flight(l, over[l].token + 1, q, own).token = over[l].token + 1
    BY <2>2, FlightType
  <2>4. res'[l].token = over[l].token + 1
    BY RunsFacts
  <2> QED BY <2>1, <2>3, <2>4 DEF Expected
<1>2. old \subseteq flights'
  BY DEF Runs
<1> QED BY <1>1, <1>2, RunsFacts

LEMMA WaitStep == TypeInv /\ TypeInv' /\ NoLoadAbandoned /\ [Next]_vars => NoLoadAbandoned'
<1> SUFFICES ASSUME TypeInv, TypeInv', NoLoadAbandoned, [Next]_vars,
                    NEW l \in Mounted', res'[l].status = "loading"
             PROVE  Expected(l, flights', res')
  BY DEF NoLoadAbandoned, Expected
<1>0. /\ role \in Roles /\ page \in Pages /\ question \in Questions
      /\ res \in [Loads -> Cells] /\ flights \subseteq Flights
      /\ Mounted = Route(page, role, FALSE).loads \cup ShellLoads(role)
      /\ Mounted \subseteq Loads
  <2>1. role \in Roles /\ page \in Pages /\ question \in Questions /\ res \in [Loads -> Cells] /\ flights \subseteq Flights
    BY DEF TypeInv, TypeOK, Cells
  <2>2. Mounted = Route(page, role, FALSE).loads \cup ShellLoads(role)
    BY MountedLoads DEF TypeInv
  <2>3. "today" \in Loads
    BY DEF Loads
  <2> QED BY <2>1, <2>2, <2>3, RouteFacts, ShellFacts
<1>a. \A k \in Mounted : res[k].status = "loading" => Expected(k, flights, res)
  BY DEF NoLoadAbandoned, Expected
<1>b. Mounted' = Route(page', role', FALSE).loads \cup ShellLoads(role') /\ l \in Loads
  <2>1. Failed' \in BOOLEAN /\ role' \in Roles /\ page' \in Pages
    BY DEF Failed, TypeInv, TypeOK
  <2> QED BY <2>1, RouteFacts, ShellFacts DEF Mounted, Page, Loads
<1>c. ASSUME UNCHANGED <<role, page, res, flights>> PROVE Expected(l, flights', res')
  BY <1>0, <1>a, <1>b, <1>c
<1>1. CASE UNCHANGED vars
  BY <1>1, <1>c DEF vars
<1>2. ASSUME NEW p \in Pages, Open(p) PROVE Expected(l, flights', res')
  <2>1. PICK L \in SUBSET Loads, old \in SUBSET Flights, over \in [Loads -> Cells] :
           /\ L = Route(p, role, FALSE).loads /\ old = {f \in flights : f.load \in ShellLoads(role)}
           /\ L \cap ShellLoads(role) = {}
           /\ over = [k \in Loads |-> IF k \in ShellLoads(role) THEN res[k] ELSE Unmounted]
           /\ Runs(L, old, over, First, TRUE)
    BY <1>2, OpenStarts
  <2>2. page' = p /\ role' = role
    BY <1>2 DEF Open
  <2>3. First \in Questions /\ Runs(L, old, over, First, TRUE)
    BY <2>1, DataTypes
  <2>4. /\ \A k \in L : Expected(k, flights', res')
        /\ old \subseteq flights' /\ \A k \in Loads \ L : res'[k] = over[k]
    BY <2>3, RunsSend
  <2>5. CASE l \notin L
    <3>1. l \in ShellLoads(role) /\ res'[l] = res[l]
      BY <1>b, <2>1, <2>2, <2>4, <2>5
    <3>2. Expected(l, flights, res)
      BY <1>0, <1>a, <3>1
    <3> QED BY <2>1, <2>4, <3>1, <3>2 DEF Expected
  <2> QED BY <2>4, <2>5
<1>3. ASSUME NEW q \in Questions, Ask(q) PROVE Expected(l, flights', res')
  <2>1. PICK L \in SUBSET Loads, old \in SUBSET Flights :
           /\ L = Route(page, role, FALSE).loads
           /\ old \subseteq flights /\ {f \in flights : f.load \notin L} \subseteq old
           /\ Runs(L, old, res, q, TRUE) /\ question' = q
    BY <1>3, AskStarts
  <2>2. page' = page /\ role' = role
    BY <1>3 DEF Ask
  <2>3. Runs(L, old, res, q, TRUE)
    BY <2>1
  <2>4. /\ \A k \in L : Expected(k, flights', res')
        /\ old \subseteq flights' /\ \A k \in Loads \ L : res'[k] = res[k]
    BY <1>0, <2>3, RunsSend
  <2>5. CASE l \notin L
    <3>1. l \in Mounted /\ res'[l] = res[l]
      BY <1>0, <1>b, <2>2, <2>4, <2>5
    <3>2. Expected(l, flights, res)
      BY <1>a, <3>1
    <3> QED BY <2>1, <2>4, <2>5, <3>1, <3>2 DEF Expected
  <2> QED BY <2>4, <2>5
<1>4. ASSUME Reload \/ \E r \in sent : Told(r) /\ r.at = "done" /\ r.turn = turns
      PROVE  Expected(l, flights', res')
  <2>1. PICK L \in SUBSET Loads : Runs(L, flights, res, question, FALSE)
    BY <1>4, RefreshStarts
  <2>2. page' = page /\ role' = role
    BY <1>4, RefreshStarts
  <2>3. /\ \A k \in L : Expected(k, flights', res')
        /\ flights \subseteq flights' /\ \A k \in Loads \ L : res'[k] = res[k]
    BY <1>0, <2>1, RunsSend
  <2>4. CASE l \notin L
    <3>1. l \in Mounted /\ res'[l] = res[l]
      BY <1>0, <1>b, <2>2, <2>3, <2>4
    <3> QED BY <1>a, <2>3, <3>1 DEF Expected
  <2> QED BY <2>3, <2>4
<1>5. ASSUME NEW r \in sent, Told(r), ~(r.at = "done" /\ r.turn = turns) PROVE Expected(l, flights', res')
  BY <1>5, <1>c DEF Told
<1>6. ASSUME (\E b \in Requests : Press(b)) \/ (\E r \in sent : Perform(r)) \/ Elsewhere PROVE Expected(l, flights', res')
  BY <1>6, <1>c DEF Press, Perform, Elsewhere
<1>7. ASSUME NEW f \in flights, FirstRead(f) \/ Answer(f) PROVE Expected(l, flights', res')
  <2>1. PICK g \in Flights :
           flights' = (flights \ {f}) \cup {g} /\ g.load = f.load /\ g.token = f.token
    BY <1>7, ServerSteps
  <2>2. UNCHANGED <<role, page, res>>
    BY <1>7 DEF FirstRead, Answer
  <2> QED BY <1>0, <1>a, <1>b, <2>1, <2>2 DEF Expected
<1>8. ASSUME NEW f \in flights, Land(f) PROVE Expected(l, flights', res')
  <2>1. /\ flights' = flights \ {f}
        /\ res'[l] = res[l] /\ ~(f.load = l /\ f.token = res[l].token)
    BY <1>8, <1>b, LandSteps
  <2>2. UNCHANGED <<role, page>>
    BY <1>8 DEF Land
  <2>3. Expected(l, flights, res)
    BY <1>0, <1>a, <1>b, <2>1, <2>2
  <2> QED BY <2>1, <2>3 DEF Expected
<1> QED BY <1>1, <1>2, <1>3, <1>4, <1>5, <1>6, <1>7, <1>8, AskCases DEF Next, Asks

\* A resource on the screen that is loading has the request with its last token
\* under way, however often the page changed its question or was left (run of
\* useAsync aborts only what it replaces): the safety half of LoadsSettle.
THEOREM LoadsExpected == Spec => []NoLoadAbandoned
<1>1. Init => NoLoadAbandoned
  <2> SUFFICES ASSUME Init, NEW l \in Mounted
               PROVE  \E f \in flights : f.load = l /\ f.token = res[l].token
    BY DEF NoLoadAbandoned
  <2> DEFINE start == Route("dashboard", role, FALSE).loads \cup ShellLoads(role)
             f == [load |-> l, token |-> 1, own |-> TRUE, at |-> "out", data |-> NoData]
  <2>1. /\ res = [k \in Loads |-> IF k \in start THEN [Unmounted EXCEPT !.token = 1] ELSE Unmounted]
        /\ flights = {[load |-> k, token |-> 1, own |-> TRUE, at |-> "out", data |-> NoData] : k \in start}
        /\ page = "dashboard"
    BY DEF Init
  <2>2. l \in start
    BY <2>1, TypeInit, MountedLoads DEF TypeInv
  <2>3. l \in Loads /\ [Unmounted EXCEPT !.token = 1].token = 1
    BY <2>2, TypeInit, RouteFacts, ShellFacts DEF TypeInv, TypeOK, Loads, Pages, Unmounted
  <2> HIDE DEF start
  <2>4. res[l].token = 1
    BY <2>1, <2>2, <2>3
  <2>5. f \in flights /\ f.load = l /\ f.token = 1
    BY <2>1, <2>2
  <2> QED BY <2>4, <2>5
<1> QED BY <1>1, WaitStep, TypeInvariance, PTL DEF Spec
=============================================================================
