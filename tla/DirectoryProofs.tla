--------------------------- MODULE DirectoryProofs ---------------------------
(* The member directory, proved for any members, pages and uploads.        *)
EXTENDS Directory, FiniteSetTheorems, FunctionTheorems, WellFoundedInduction, TLAPS

\* A page that is not between a check and its write.
Calm == {"idle", "form", "checkNew", "checkEdit", "preview", "row", "finish"}

\* What TypeOK says of one page, and that a valid row has a phone.
Sound(page) ==
  /\ page.at \in {"checkNew", "code", "insert", "checkEdit", "save"} => page.phone \in Phones
  /\ page.at \in {"code", "insert"} => page.member \in Members /\ ~Exists(page.member)
  /\ page.at = "insert" => page.code \in Codes
  /\ page.at \in {"checkEdit", "save"} => page.member \in Members /\ Exists(page.member)
  /\ page.left \subseteq DOMAIN page.rows
  /\ page.at = "row" => page.left # {}
  /\ \A i \in DOMAIN page.rows : page.rows[i].valid => page.rows[i].phone \in Phones

\* Members of pages between a check and the write of a new member are their own.
Distinct == \A s, t \in Slots :
  pages[s].at \in {"code", "insert"} /\ pages[t].at \in {"code", "insert"}
    /\ pages[s].member = pages[t].member => s = t

\* Forms open on a member: it exists.
Known == \A s \in Slots : At(s, "form") /\ pages[s].member # NoId => Exists(pages[s].member)

TypeInv ==
  /\ members \in [Members -> Rows \cup {NoMember}]
  /\ nextval \in 1 .. MaxCode + 1
  /\ pages \in [Slots -> Pages]
  /\ \A s \in Slots : Sound(pages[s])
  /\ Distinct
  /\ Known

LEMMA Types == TypeInv => TypeOK
BY DEF TypeInv, TypeOK, Sound, At

\* One page changes and does not begin to write.
Settles(s) ==
  /\ UNCHANGED <<members, nextval>>
  /\ \E page \in Pages :
       /\ page.at \in Calm /\ Sound(page)
       /\ page.at = "form" /\ page.member # NoId => Exists(page.member)
       /\ pages' = [pages EXCEPT ![s] = page]

LEMMA ClosedPage == Closed \in Pages /\ Closed.at = "idle" /\ Sound(Closed)
<1>1. 0 \in 0 .. MaxCode
  BY BoundsAssumption
<1>2. <<>> \in Seq(ImportRows) /\ DOMAIN <<>> = {}
  OBVIOUS
<1>3. Closed \in Pages
  BY <1>1, <1>2 DEF Closed, Pages, Statuses, Steps, NoRows
<1>4. Sound(Closed)
  BY <1>2 DEF Closed, Sound, NoRows
<1> QED BY <1>3, <1>4 DEF Closed

LEMMA InitTypes == Init => TypeInv
<1> SUFFICES ASSUME Init PROVE TypeInv
  OBVIOUS
<1>1. nextval \in 1 .. MaxCode + 1
  BY BoundsAssumption DEF Init
<1> QED BY <1>1, ClosedPage DEF Init, TypeInv, Distinct, Known, At

LEMMA SettledTypes == ASSUME TypeInv, NEW s \in Slots, Settles(s) PROVE TypeInv'
<1>1. PICK page \in Pages : /\ page.at \in Calm /\ Sound(page)
                            /\ page.at = "form" /\ page.member # NoId => Exists(page.member)
                            /\ pages' = [pages EXCEPT ![s] = page]
  BY DEF Settles
<1>2. UNCHANGED <<members, nextval>>
  BY DEF Settles
<1>3. pages' \in [Slots -> Pages] /\ \A t \in Slots : pages'[t] = IF t = s THEN page ELSE pages[t]
  BY <1>1 DEF TypeInv
<1>4. \A t \in Slots : Sound(pages[t])'
  BY <1>1, <1>2, <1>3 DEF TypeInv, Sound, Exists
<1>5. Distinct'
  BY <1>1, <1>3 DEF TypeInv, Distinct, Calm
<1>6. Known'
  BY <1>1, <1>2, <1>3 DEF TypeInv, Known, At, Exists
<1> QED BY <1>2, <1>3, <1>4, <1>5, <1>6 DEF TypeInv

-----------------------------------------------------------------------------
(* Answers *)

\* The first of the rows left.
LEMMA FirstRow ==
  ASSUME NEW S \in SUBSET Nat, S # {}
  PROVE  (CHOOSE i \in S : \A j \in S : i <= j) \in S
<1>1. \E i \in S : \A j \in S : ~(<<j, i>> \in OpToRel(<, Nat))
  BY NatLessThanWellFounded, WFMin
<1>2. PICK i \in S : \A j \in S : ~(<<j, i>> \in OpToRel(<, Nat))
  BY <1>1
<1>3. ASSUME NEW j \in S PROVE i <= j
  <2>1. i \in Nat /\ j \in Nat
    OBVIOUS
  <2>2. ~(j < i)
    BY <1>2, <2>1 DEF OpToRel
  <2> QED BY <2>1, <2>2
<1> QED BY <1>3

LEMMA NextPage ==
  ASSUME TypeInv, NEW s \in Slots
  PROVE  /\ NextRow(s) \in Pages /\ NextRow(s).at \in {"row", "finish"} /\ Sound(NextRow(s))
<1>1. pages[s] \in Pages /\ Sound(pages[s])
  BY DEF TypeInv
<1> DEFINE left == pages[s].left \ {Current(s)}
<1>2. left \in SUBSET Nat /\ left \subseteq DOMAIN pages[s].rows
  BY <1>1 DEF Pages, Sound
<1>3. pages[s].rows \in Seq(ImportRows)
  BY <1>1 DEF Pages
<1>4. NextRow(s) \in Pages
  BY <1>2, <1>3, ClosedPage DEF NextRow, Pages, Steps
<1>5. /\ NextRow(s).at = IF left = {} THEN "finish" ELSE "row"
      /\ NextRow(s).rows = pages[s].rows /\ NextRow(s).left = left
  BY DEF NextRow, Closed
<1> QED BY <1>1, <1>2, <1>4, <1>5 DEF Sound

LEMMA FormPage ==
  ASSUME TypeInv, NEW s \in Slots
  PROVE  /\ Form(s) \in Pages /\ Form(s).at = "form" /\ Sound(Form(s))
         /\ Form(s).member # NoId => Exists(Form(s).member)
<1>1. pages[s] \in Pages /\ Sound(pages[s])
  BY DEF TypeInv
<1> DEFINE m == IF At(s, "checkEdit") \/ At(s, "save") THEN pages[s].member ELSE NoId
<1>2. m \in Members \cup {NoId} /\ (m # NoId => Exists(m))
  BY <1>1 DEF Sound, At
<1>3. Form(s) \in Pages
  BY <1>2, ClosedPage DEF Form, Pages, Steps
<1>4. /\ Form(s).at = "form" /\ Form(s).member = m
      /\ Form(s).rows = <<>> /\ Form(s).left = {}
  BY DEF Form, Closed, NoRows
<1>5. Sound(Form(s))
  BY <1>4 DEF Sound
<1> QED BY <1>2, <1>3, <1>4, <1>5

LEMMA Answered ==
  ASSUME TypeInv, NEW s \in Slots, Reject(s), UNCHANGED <<members, nextval>>
  PROVE  Settles(s)
<1>1. CASE IsImport(s)
  BY <1>1, NextPage DEF Reject, Settles, Calm
<1>2. CASE ~IsImport(s)
  BY <1>2, FormPage DEF Reject, Settles, Calm
<1> QED BY <1>1, <1>2

-----------------------------------------------------------------------------
(* What each step does to the page *)

LEMMA FormSteps ==
  ASSUME TypeInv, NEW s \in Slots,
         \/ OpenNew(s) \/ Close(s)
         \/ \E m \in Members : OpenEdit(s, m)
         \/ \E phone \in Phones, status \in Statuses, confirm \in BOOLEAN :
              Submit(s, phone, status, confirm)
  PROVE  Settles(s)
<1>0. pages[s] \in Pages /\ Sound(pages[s])
  BY DEF TypeInv
<1>1. CASE Close(s)
  BY <1>1, ClosedPage DEF Close, Settles, Calm
<1>2. CASE OpenNew(s)
  <2> DEFINE page == [Closed EXCEPT !.at = "form"]
  <2>1. page \in Pages
    BY ClosedPage DEF Pages, Steps
  <2>2. page.at = "form" /\ page.member = NoId /\ page.rows = <<>> /\ page.left = {}
    BY DEF Closed, NoRows
  <2>3. Sound(page)
    BY <2>2 DEF Sound
  <2> QED BY <1>2, <2>1, <2>2, <2>3 DEF OpenNew, Settles, Calm
<1>3. ASSUME NEW m \in Members, OpenEdit(s, m) PROVE Settles(s)
  <2> DEFINE page == [Closed EXCEPT !.at = "form", !.member = m]
  <2>1. Exists(m)
    BY <1>3 DEF OpenEdit
  <2>2. page \in Pages
    BY ClosedPage DEF Pages, Steps
  <2>3. page.at = "form" /\ page.member = m /\ page.rows = <<>> /\ page.left = {}
    BY DEF Closed, NoRows
  <2>4. Sound(page)
    BY <2>3 DEF Sound
  <2> QED BY <1>3, <2>1, <2>2, <2>3, <2>4 DEF OpenEdit, Settles, Calm
<1>4. ASSUME NEW phone \in Phones, NEW status \in Statuses, NEW confirm \in BOOLEAN,
             Submit(s, phone, status, confirm)
      PROVE  Settles(s)
  <2> DEFINE step == IF pages[s].member = NoId THEN "checkNew" ELSE "checkEdit"
             page == [pages[s] EXCEPT !.at = step, !.phone = phone, !.status = status,
                                      !.confirm = confirm]
  <2>1. page \in Pages
    BY <1>0 DEF Pages, Steps
  <2>2. /\ page.at = step /\ page.phone = phone /\ page.member = pages[s].member
        /\ page.rows = pages[s].rows /\ page.left = pages[s].left
    BY <1>0 DEF Pages
  <2>3. pages[s].member # NoId => pages[s].member \in Members /\ Exists(pages[s].member)
    BY <1>0, <1>4 DEF TypeInv, Known, Submit, Pages
  <2>4. Sound(page)
    BY <1>0, <2>2, <2>3 DEF Sound
  <2>5. pages' = [pages EXCEPT ![s] = page]
    BY <1>4 DEF Submit, TypeInv
  <2>6. page.at \in Calm /\ page.at # "form"
    BY <2>2 DEF Calm
  <2>7. UNCHANGED <<members, nextval>>
    BY <1>4 DEF Submit
  <2> HIDE DEF page
  <2> QED BY <2>1, <2>4, <2>5, <2>6, <2>7 DEF Settles
<1> QED BY <1>1, <1>2, <1>3, <1>4

LEMMA ImportSteps ==
  ASSUME TypeInv, NEW s \in Slots,
         \/ \E upload \in Uploads : previewImport(s, upload)
         \/ \E ticked \in SUBSET (DOMAIN pages[s].rows) : Commit(s, ticked)
         \/ CommitRow(s) \/ Finish(s)
  PROVE  Settles(s)
<1>0. pages[s] \in Pages /\ Sound(pages[s])
  BY DEF TypeInv
<1>1. ASSUME NEW upload \in Uploads, previewImport(s, upload) PROVE Settles(s)
  <2> DEFINE rows == assessImportRows(upload)
             page == [Closed EXCEPT !.at = "preview", !.rows = rows]
  <2>1. upload \in Seq(Phones \cup {NoPhone})
    BY UploadsAssumption
  <2>2. /\ rows \in Seq(ImportRows)
        /\ \A i \in DOMAIN rows : rows[i].valid => rows[i].phone \in Phones
    <3>1. PICK n \in Nat : upload \in [1 .. n -> Phones \cup {NoPhone}]
      BY <2>1
    <3>2. \A i \in 1 .. n : /\ rows[i] \in ImportRows
                            /\ rows[i].valid => rows[i].phone \in Phones
      BY <3>1 DEF assessImportRows, ImportRows
    <3>3. rows \in [1 .. n -> ImportRows]
      BY <3>1, <3>2 DEF assessImportRows
    <3> HIDE DEF rows
    <3> QED BY <3>2, <3>3
  <2> HIDE DEF rows
  <2>3. page \in Pages
    BY <2>2, ClosedPage DEF Pages, Steps
  <2>4. page.at = "preview" /\ page.rows = rows /\ page.left = {}
    BY DEF Closed
  <2>5. Sound(page)
    BY <2>2, <2>4 DEF Sound
  <2>6. pages' = [pages EXCEPT ![s] = page]
    BY <1>1 DEF previewImport, rows
  <2> QED BY <1>1, <2>3, <2>4, <2>5, <2>6 DEF previewImport, Settles, Calm
<1>2. ASSUME NEW ticked \in SUBSET (DOMAIN pages[s].rows), Commit(s, ticked) PROVE Settles(s)
  <2> DEFINE page == [pages[s] EXCEPT !.at = "row", !.left = ticked]
  <2>1. DOMAIN pages[s].rows \subseteq Nat
    BY <1>0 DEF Pages
  <2>2. page \in Pages
    BY <1>0, <2>1 DEF Pages, Steps
  <2>3. page.at = "row" /\ page.rows = pages[s].rows /\ page.left = ticked
    BY <1>0 DEF Pages
  <2>4. Sound(page)
    BY <1>0, <1>2, <2>3 DEF Sound, Commit
  <2>5. pages' = [pages EXCEPT ![s] = page]
    BY <1>2 DEF Commit, TypeInv
  <2> QED BY <1>2, <2>2, <2>3, <2>4, <2>5 DEF Commit, Settles, Calm
<1>3. CASE CommitRow(s)
  <2> DEFINE row == pages[s].rows[Current(s)]
             page == [pages[s] EXCEPT !.at = "checkNew", !.phone = row.phone]
  <2>1. CASE ~(row.valid /\ ~row.duplicate)
    BY <1>3, <2>1, NextPage DEF CommitRow, Settles, Calm
  <2>2. CASE row.valid /\ ~row.duplicate
    <3>1. Current(s) \in DOMAIN pages[s].rows
      BY <1>0, <1>3, FirstRow DEF Current, CommitRow, At, Sound, Pages
    <3>2. row.phone \in Phones
      BY <1>0, <2>2, <3>1 DEF Sound
    <3> HIDE DEF row
    <3>3. page \in Pages
      BY <1>0, <3>2 DEF Pages, Steps
    <3>4. /\ page.at = "checkNew" /\ page.phone = row.phone
          /\ page.rows = pages[s].rows /\ page.left = pages[s].left
      BY <1>0 DEF Pages
    <3>5. Sound(page)
      BY <1>0, <3>2, <3>4 DEF Sound
    <3>6. pages' = [pages EXCEPT ![s] = page]
      BY <1>3, <2>2 DEF CommitRow, TypeInv, row
    <3> QED BY <1>3, <3>3, <3>4, <3>5, <3>6 DEF CommitRow, Settles, Calm
  <2> QED BY <2>1, <2>2
<1>4. CASE Finish(s)
  <2> DEFINE page == [pages[s] EXCEPT !.at = "preview"]
  <2>1. page \in Pages
    BY <1>0 DEF Pages, Steps
  <2>2. page.at = "preview" /\ page.rows = pages[s].rows /\ page.left = pages[s].left
    BY <1>0 DEF Pages
  <2>3. Sound(page)
    BY <1>0, <2>2 DEF Sound
  <2>4. pages' = [pages EXCEPT ![s] = Closed] \/ pages' = [pages EXCEPT ![s] = page]
    BY <1>4 DEF Finish, TypeInv
  <2> QED BY <1>4, <2>1, <2>2, <2>3, <2>4, ClosedPage DEF Finish, Settles, Calm
<1> QED BY <1>1, <1>2, <1>3, <1>4

\* A check passes: the page goes to step, and for a new member chooses its id.
Passes(s, step, m) ==
  /\ UNCHANGED <<members, nextval>>
  /\ pages[s].confirm \/ ~memberDuplicate(pages[s].phone, m)
  /\ pages' = [pages EXCEPT ![s] = [pages[s] EXCEPT !.at = step, !.member = m]]

LEMMA NewChecked ==
  ASSUME TypeInv, NEW s \in Slots, CheckNew(s)
  PROVE  Settles(s) \/ \E m \in Members : Fresh(m) /\ Passes(s, "code", m)
<1>1. CASE memberDuplicate(pages[s].phone, NoId) /\ ~pages[s].confirm
  BY <1>1, Answered DEF CheckNew
<1>2. CASE ~(memberDuplicate(pages[s].phone, NoId) /\ ~pages[s].confirm)
  <2>1. PICK m \in Members : /\ Fresh(m)
                             /\ pages' = [pages EXCEPT ![s].at = "code", ![s].member = m]
    BY <1>2 DEF CheckNew
  <2>2. memberDuplicate(pages[s].phone, m) => memberDuplicate(pages[s].phone, NoId)
    BY NullsAssumption DEF memberDuplicate, Holders
  <2>3. pages' = [pages EXCEPT ![s] = [pages[s] EXCEPT !.at = "code", !.member = m]]
    BY <2>1 DEF TypeInv
  <2> QED BY <1>2, <2>1, <2>2, <2>3 DEF CheckNew, Passes
<1> QED BY <1>1, <1>2

LEMMA EditChecked ==
  ASSUME TypeInv, NEW s \in Slots, CheckEdit(s)
  PROVE  Settles(s) \/ Passes(s, "save", pages[s].member)
<1>1. CASE memberDuplicate(pages[s].phone, pages[s].member) /\ ~pages[s].confirm
  BY <1>1, Answered DEF CheckEdit
<1>2. CASE ~(memberDuplicate(pages[s].phone, pages[s].member) /\ ~pages[s].confirm)
  <2>1. pages' = [pages EXCEPT ![s].at = "save"]
    BY <1>2 DEF CheckEdit
  <2>2. pages[s] \in Pages /\ s \in DOMAIN pages
    BY DEF TypeInv
  <2>3. [pages[s] EXCEPT !.at = "save"] = [pages[s] EXCEPT !.at = "save", !.member = pages[s].member]
    BY <2>2 DEF Pages
  <2>4. pages' = [pages EXCEPT ![s] = [pages[s] EXCEPT !.at = "save"]]
    BY <2>1, <2>2
  <2> QED BY <1>2, <2>3, <2>4 DEF CheckEdit, Passes
<1> QED BY <1>1, <1>2

\* A write of row for the page's member; the page is left.
Writes(s, row) ==
  /\ members' = [members EXCEPT ![pages[s].member] = row] /\ UNCHANGED nextval
  /\ row.phone = pages[s].phone /\ row.reviewed = pages[s].confirm
  /\ \E page \in Pages :
       /\ page.at \in {"idle", "form", "row", "finish"} /\ Sound(page)
       /\ page.at = "form" /\ page.member # NoId => Exists(page.member)
       /\ pages' = [pages EXCEPT ![s] = page]

LEMMA Inserted ==
  ASSUME TypeInv, NEW s \in Slots, InsertMember(s)
  PROVE  /\ pages[s].at = "insert" /\ pages[s].code \in Codes
         /\ pages[s].member \in Members /\ ~Exists(pages[s].member)
         /\ \E row \in Rows : row.code = pages[s].code /\ Writes(s, row)
<1>1. pages[s] \in Pages /\ Sound(pages[s]) /\ pages[s].at = "insert"
  BY DEF TypeInv, InsertMember, At
<1> DEFINE row == [phone |-> pages[s].phone, status |-> pages[s].status, code |-> pages[s].code,
                   reviewed |-> pages[s].confirm]
<1>2. row \in Rows
  BY <1>1 DEF Rows, Sound, Pages
<1>3. \E page \in Pages :
       /\ page.at \in {"idle", "form", "row", "finish"} /\ Sound(page)
       /\ page.at = "form" /\ page.member # NoId => Exists(page.member)
       /\ pages' = [pages EXCEPT ![s] = page]
  BY ClosedPage, NextPage, FormPage DEF InsertMember, Reject
<1>4. Writes(s, row)
  BY <1>3 DEF InsertMember, Writes
<1>5. row.code = pages[s].code
  OBVIOUS
<1> HIDE DEF row
<1> QED BY <1>1, <1>2, <1>4, <1>5 DEF Sound

LEMMA Saved ==
  ASSUME TypeInv, NEW s \in Slots, Save(s)
  PROVE  /\ pages[s].at = "save" /\ pages[s].member \in Members /\ Exists(pages[s].member)
         /\ \E row \in Rows : row.code = members[pages[s].member].code /\ Writes(s, row)
<1>1. pages[s] \in Pages /\ Sound(pages[s]) /\ pages[s].at = "save"
  BY DEF TypeInv, Save, At
<1>2. pages[s].member \in Members /\ members[pages[s].member] \in Rows
  BY <1>1 DEF Sound, TypeInv, Exists
<1> DEFINE old == members[pages[s].member]
           row == [old EXCEPT !.phone = pages[s].phone, !.status = pages[s].status,
                              !.reviewed = pages[s].confirm]
<1>3. row \in Rows /\ row.code = old.code
  BY <1>1, <1>2 DEF Rows, Sound, Pages
<1>4. row.phone = pages[s].phone /\ row.reviewed = pages[s].confirm
  BY <1>2 DEF Rows
<1>5. members' = [members EXCEPT ![pages[s].member] = row] /\ UNCHANGED nextval
  BY <1>2 DEF Save, TypeInv
<1>6. \E page \in Pages :
       /\ page.at \in {"idle", "form", "row", "finish"} /\ Sound(page)
       /\ page.at = "form" /\ page.member # NoId => Exists(page.member)
       /\ pages' = [pages EXCEPT ![s] = page]
  BY ClosedPage, FormPage DEF Save
<1> HIDE DEF row
<1>7. Writes(s, row)
  BY <1>4, <1>5, <1>6 DEF Writes
<1> QED BY <1>1, <1>2, <1>3, <1>7 DEF Sound

LEMMA Archived ==
  ASSUME TypeInv, NEW m \in Members, archiveMember(m)
  PROVE  /\ Exists(m) /\ UNCHANGED <<nextval, pages>>
         /\ \E row \in Rows : /\ members' = [members EXCEPT ![m] = row]
                              /\ row.code = members[m].code /\ row.phone = members[m].phone
                              /\ row.reviewed = members[m].reviewed
<1>1. members[m] \in Rows
  BY DEF archiveMember, TypeInv, Exists
<1> DEFINE row == [members[m] EXCEPT !.status = "archived"]
<1>2. /\ row \in Rows /\ row.code = members[m].code /\ row.phone = members[m].phone
      /\ row.reviewed = members[m].reviewed
  BY <1>1 DEF Rows, Statuses
<1>3. members' = [members EXCEPT ![m] = row]
  BY DEF archiveMember, TypeInv
<1> HIDE DEF row
<1> QED BY <1>2, <1>3 DEF archiveMember

\* The steps, by what they do.
LEMMA Cases ==
  ASSUME TypeInv, [Next]_vars
  PROVE  \/ \E s \in Slots : Settles(s)
         \/ \E s \in Slots, m \in Members : At(s, "checkNew") /\ Fresh(m) /\ Passes(s, "code", m)
         \/ \E s \in Slots : At(s, "checkEdit") /\ Passes(s, "save", pages[s].member)
         \/ \E s \in Slots : nextMemberCode(s) \/ InsertMember(s) \/ Save(s)
         \/ \E m \in Members : archiveMember(m)
         \/ UNCHANGED vars
<1>1. ASSUME NEW s \in Slots, CheckNew(s)
      PROVE  Settles(s) \/ \E m \in Members : At(s, "checkNew") /\ Fresh(m) /\ Passes(s, "code", m)
  BY <1>1, NewChecked DEF CheckNew
<1>2. ASSUME NEW s \in Slots, CheckEdit(s)
      PROVE  Settles(s) \/ (At(s, "checkEdit") /\ Passes(s, "save", pages[s].member))
  BY <1>2, EditChecked DEF CheckEdit
<1>3. ASSUME NEW s \in Slots, Fail(s) PROVE Settles(s)
  BY <1>3, Answered DEF Fail
<1> QED BY <1>1, <1>2, <1>3, FormSteps, ImportSteps DEF Next

-----------------------------------------------------------------------------
(* Types *)

LEMMA PassedTypes ==
  ASSUME TypeInv, NEW s \in Slots, NEW m \in Members, NEW step \in {"code", "save"},
         Passes(s, step, m), Sound(pages[s]), At(s, "checkNew") \/ At(s, "checkEdit"),
         step = "code" => Fresh(m),
         step = "save" => Exists(m)
  PROVE  TypeInv'
<1> DEFINE page == [pages[s] EXCEPT !.at = step, !.member = m]
<1>1. pages[s] \in Pages /\ UNCHANGED <<members, nextval>>
  BY DEF TypeInv, Passes
<1>2. /\ page.at = step /\ page.member = m /\ page.phone = pages[s].phone
      /\ page.rows = pages[s].rows /\ page.left = pages[s].left
  BY <1>1 DEF Pages
<1>3. page \in Pages
  BY <1>1 DEF Pages, Steps
<1>4. Sound(page)
  BY <1>2 DEF Sound, At, Fresh
<1>5. pages' = [pages EXCEPT ![s] = page]
  BY DEF Passes
<1> HIDE DEF page
<1>6. /\ pages' \in [Slots -> Pages]
      /\ \A t \in Slots : pages'[t] = IF t = s THEN page ELSE pages[t]
  BY <1>3, <1>5 DEF TypeInv
<1>7. \A t \in Slots : Sound(pages[t])'
  BY <1>1, <1>4, <1>6 DEF TypeInv, Sound, Exists
<1>8. Distinct'
  BY <1>2, <1>6 DEF TypeInv, Distinct, Fresh
<1>9. Known'
  BY <1>1, <1>2, <1>6 DEF TypeInv, Known, At, Exists
<1> QED BY <1>1, <1>6, <1>7, <1>8, <1>9 DEF TypeInv

\* A row is written that no other page is about to create.
LEMMA WrittenTypes ==
  ASSUME TypeInv, NEW s \in Slots, NEW row \in Rows, Writes(s, row),
         pages[s].member \in Members,
         \A t \in Slots \ {s} : pages[t].at \in {"code", "insert"} =>
           pages[t].member # pages[s].member
  PROVE  TypeInv'
<1>1. PICK page \in Pages :
        /\ page.at \in {"idle", "form", "row", "finish"} /\ Sound(page)
        /\ page.at = "form" /\ page.member # NoId => Exists(page.member)
        /\ pages' = [pages EXCEPT ![s] = page]
  BY DEF Writes
<1>2. /\ members' \in [Members -> Rows \cup {NoMember}]
      /\ \A m \in Members : members'[m] = IF m = pages[s].member THEN row ELSE members[m]
  BY DEF Writes, TypeInv
<1>3. \A m \in Members : Exists(m)' <=> Exists(m) \/ m = pages[s].member
  BY <1>2, RowsAssumption DEF Exists
<1>4. /\ pages' \in [Slots -> Pages]
      /\ \A t \in Slots : pages'[t] = IF t = s THEN page ELSE pages[t]
  BY <1>1 DEF TypeInv
<1>5. ASSUME NEW t \in Slots PROVE Sound(pages[t])'
  BY <1>1, <1>3, <1>4 DEF TypeInv, Sound
<1>6. Distinct'
  BY <1>1, <1>4 DEF TypeInv, Distinct
<1>7. Known'
  <2>1. \A t \in Slots : pages'[t].member \in Members \cup {NoId}
    BY <1>4 DEF Pages
  <2>2. \A t \in Slots : pages'[t].at = "form" /\ pages'[t].member # NoId => Exists(pages'[t].member)
    BY <1>1, <1>4 DEF TypeInv, Known, At
  <2> QED BY <1>3, <2>1, <2>2 DEF Known, At, Exists
<1> QED BY <1>2, <1>4, <1>5, <1>6, <1>7 DEF TypeInv, Writes

LEMMA TypeStep == TypeInv /\ [Next]_vars => TypeInv'
<1> SUFFICES ASSUME TypeInv, [Next]_vars PROVE TypeInv'
  OBVIOUS
<1>1. ASSUME NEW s \in Slots, NEW m \in Members, At(s, "checkNew"), Fresh(m), Passes(s, "code", m)
      PROVE  TypeInv'
  BY <1>1, PassedTypes DEF TypeInv
<1>2. ASSUME NEW s \in Slots, At(s, "checkEdit"), Passes(s, "save", pages[s].member)
      PROVE  TypeInv'
  <2>1. pages[s].member \in Members /\ Exists(pages[s].member) /\ Sound(pages[s])
    BY <1>2 DEF TypeInv, Sound, At
  <2> QED BY <1>2, <2>1, PassedTypes
<1>3. ASSUME NEW s \in Slots, nextMemberCode(s) PROVE TypeInv'
  <2> DEFINE page == [pages[s] EXCEPT !.at = "insert", !.code = nextval]
  <2>1. /\ pages[s] \in Pages /\ Sound(pages[s]) /\ pages[s].at = "code"
        /\ nextval \in Codes /\ UNCHANGED members
    BY <1>3 DEF TypeInv, nextMemberCode, At
  <2>a. nextval \in 0 .. MaxCode
    BY <2>1, BoundsAssumption DEF Codes
  <2>2. page \in Pages
    BY <2>1, <2>a DEF Pages, Steps
  <2>3. /\ page.at = "insert" /\ page.code = nextval /\ page.phone = pages[s].phone
        /\ page.member = pages[s].member /\ page.rows = pages[s].rows
        /\ page.left = pages[s].left
    BY <2>1 DEF Pages
  <2>4. Sound(page)
    BY <2>1, <2>3 DEF Sound
  <2>5. pages' = [pages EXCEPT ![s] = page]
    BY <1>3 DEF nextMemberCode, TypeInv
  <2> HIDE DEF page
  <2>6. /\ pages' \in [Slots -> Pages]
        /\ \A t \in Slots : pages'[t] = IF t = s THEN page ELSE pages[t]
    BY <2>2, <2>5 DEF TypeInv
  <2>7. nextval' \in 1 .. MaxCode + 1
    BY <1>3, BoundsAssumption DEF nextMemberCode, Codes
  <2>8. \A t \in Slots : Sound(pages[t])'
    BY <2>1, <2>4, <2>6 DEF TypeInv, Sound, Exists
  <2>9. Distinct'
    BY <2>1, <2>3, <2>6 DEF TypeInv, Distinct
  <2>10. Known'
    BY <2>1, <2>3, <2>6 DEF TypeInv, Known, At, Exists
  <2> QED BY <2>1, <2>6, <2>7, <2>8, <2>9, <2>10 DEF TypeInv
<1>4. ASSUME NEW s \in Slots, InsertMember(s) PROVE TypeInv'
  <2>1. pages[s].at = "insert" /\ pages[s].member \in Members
    BY <1>4, Inserted
  <2>2. PICK row \in Rows : Writes(s, row)
    BY <1>4, Inserted
  <2>3. \A t \in Slots \ {s} : pages[t].at \in {"code", "insert"} =>
          pages[t].member # pages[s].member
    BY <2>1 DEF TypeInv, Distinct
  <2> QED BY <2>1, <2>2, <2>3, WrittenTypes
<1>5. ASSUME NEW s \in Slots, Save(s) PROVE TypeInv'
  <2>1. pages[s].member \in Members /\ Exists(pages[s].member)
    BY <1>5, Saved
  <2>2. PICK row \in Rows : Writes(s, row)
    BY <1>5, Saved
  <2>3. \A t \in Slots \ {s} : pages[t].at \in {"code", "insert"} =>
          pages[t].member # pages[s].member
    BY <2>1 DEF TypeInv, Sound
  <2> QED BY <2>1, <2>2, <2>3, WrittenTypes
<1>6. ASSUME NEW m \in Members, archiveMember(m) PROVE TypeInv'
  <2>1. PICK row \in Rows : members' = [members EXCEPT ![m] = row]
    BY <1>6, Archived
  <2>2. Exists(m) /\ UNCHANGED <<nextval, pages>>
    BY <1>6, Archived
  <2>3. members' \in [Members -> Rows \cup {NoMember}]
    BY <2>1 DEF TypeInv
  <2>4. \A n \in Members : Exists(n)' <=> Exists(n)
    BY <2>1, <2>2, RowsAssumption DEF Exists, TypeInv
  <2>5. \A t \in Slots : Sound(pages[t])'
    BY <2>2, <2>4 DEF TypeInv, Sound
  <2>6. Known'
    <3>1. \A t \in Slots : pages[t].member \in Members \cup {NoId}
      BY DEF TypeInv, Pages
    <3> QED BY <2>2, <2>4, <3>1 DEF TypeInv, Known, At
  <2> QED BY <2>2, <2>3, <2>5, <2>6 DEF TypeInv, Distinct
<1>7. CASE UNCHANGED vars
  BY <1>7 DEF vars, TypeInv, Distinct, Known, Sound, Exists, At
<1> QED BY <1>1, <1>2, <1>3, <1>4, <1>5, <1>6, <1>7, Cases, SettledTypes

\* Every reachable state has the types of the tables and of the pages' requests.
THEOREM TypeCorrect == Spec => []TypeOK
<1>1. Spec => []TypeInv
  BY InitTypes, TypeStep, PTL DEF Spec
<1> QED BY <1>1, Types, PTL

-----------------------------------------------------------------------------
(* Codes.  A drawn code is smaller than what the sequence yields next, so   *)
(* that the next one is new.                                               *)

CodeInv ==
  /\ \A m \in Members : Exists(m) => members[m].code < nextval
  /\ \A s \in Slots : At(s, "insert") => pages[s].code < nextval
  /\ \A s, t \in Slots :
       At(s, "insert") /\ At(t, "insert") /\ pages[s].code = pages[t].code => s = t
  /\ CodesUnique

\* A step that neither draws a code nor gives one to a new member.
LEMMA SameCodes ==
  ASSUME TypeInv, CodeInv, UNCHANGED nextval,
         \A m \in Members : Exists(m)' => Exists(m) /\ members'[m].code = members[m].code,
         \A s \in Slots : At(s, "insert")' => At(s, "insert") /\ pages'[s].code = pages[s].code
  PROVE  CodeInv'
BY DEF CodeInv, CodesUnique

\* A page that gets to a step other than "insert".
LEMMA OtherPage ==
  ASSUME TypeInv, NEW s \in Slots, NEW page, page.at # "insert",
         pages' = [pages EXCEPT ![s] = page]
  PROVE  \A t \in Slots : At(t, "insert")' =>
           t # s /\ At(t, "insert") /\ pages'[t].code = pages[t].code
BY DEF TypeInv, At

LEMMA CodeStep == TypeInv /\ CodeInv /\ [Next]_vars => CodeInv'
<1> SUFFICES ASSUME TypeInv, CodeInv, [Next]_vars PROVE CodeInv'
  OBVIOUS
<1>1. ASSUME NEW s \in Slots, Settles(s) PROVE CodeInv'
  <2>1. PICK page \in Pages : page.at \in Calm /\ pages' = [pages EXCEPT ![s] = page]
    BY <1>1 DEF Settles
  <2>2. page.at # "insert"
    BY <2>1 DEF Calm
  <2> QED BY <1>1, <2>1, <2>2, OtherPage, SameCodes DEF Settles, Exists
<1>2. ASSUME NEW s \in Slots, NEW m, NEW step \in {"code", "save"}, Passes(s, step, m)
      PROVE  CodeInv'
  <2> DEFINE page == [pages[s] EXCEPT !.at = step, !.member = m]
  <2>1. page.at # "insert"
    BY DEF TypeInv, Pages
  <2>2. pages' = [pages EXCEPT ![s] = page]
    BY <1>2 DEF Passes
  <2> HIDE DEF page
  <2> QED BY <1>2, <2>1, <2>2, OtherPage, SameCodes DEF Passes, Exists
<1>3. ASSUME NEW s \in Slots, nextMemberCode(s) PROVE CodeInv'
  <2>1. /\ nextval \in Codes /\ nextval' = nextval + 1 /\ UNCHANGED members
        /\ pages' = [pages EXCEPT ![s].at = "insert", ![s].code = nextval]
    BY <1>3 DEF nextMemberCode
  <2>2. /\ pages'[s].code = nextval
        /\ \A t \in Slots \ {s} : pages'[t] = pages[t]
    BY <2>1 DEF TypeInv, Pages
  <2>3. nextval \in Nat /\ nextval' \in Nat /\ nextval < nextval'
    BY <2>1, BoundsAssumption DEF Codes
  <2>4. /\ \A m \in Members : Exists(m) => members[m].code \in Nat
        /\ \A t \in Slots : pages[t].code \in Nat
    BY BoundsAssumption DEF TypeInv, Exists, Rows, Codes, Pages
  <2>5. \A m \in Members : Exists(m) => members[m].code < nextval' /\ members[m].code # nextval
    BY <2>3, <2>4 DEF CodeInv
  <2>6. \A t \in Slots \ {s} : At(t, "insert") => pages[t].code < nextval' /\ pages[t].code # nextval
    BY <2>3, <2>4 DEF CodeInv
  <2>7. \A t \in Slots \ {s} : At(t, "insert")' <=> At(t, "insert")
    BY <2>2 DEF At
  <2>8. \A m \in Members : Exists(m)' <=> Exists(m)
    BY <2>1 DEF Exists
  <2>9. \A t \in Slots : At(t, "insert")' => pages'[t].code < nextval'
    BY <2>2, <2>3, <2>6, <2>7
  <2>10. \A t, u \in Slots :
           At(t, "insert")' /\ At(u, "insert")' /\ pages'[t].code = pages'[u].code => t = u
    BY <2>2, <2>6, <2>7 DEF CodeInv
  <2>11. CodesUnique'
    <3>1. \A m, n \in Members :
            Exists(m)' /\ Exists(n)' /\ members'[m].code = members'[n].code => m = n
      BY <2>1, <2>8 DEF CodeInv, CodesUnique
    <3>2. \A t \in Slots : At(t, "insert")' =>
            \A m \in Members : Exists(m)' => members'[m].code # pages'[t].code
      BY <2>1, <2>2, <2>5, <2>7, <2>8 DEF CodeInv, CodesUnique
    <3> QED BY <3>1, <3>2 DEF CodesUnique
  <2> QED BY <2>1, <2>5, <2>8, <2>9, <2>10, <2>11 DEF CodeInv
<1>4. ASSUME NEW s \in Slots, InsertMember(s) PROVE CodeInv'
  <2>1. At(s, "insert") /\ pages[s].member \in Members
    BY <1>4, Inserted DEF At
  <2>2. PICK row \in Rows : row.code = pages[s].code /\ Writes(s, row)
    BY <1>4, Inserted
  <2>3. PICK page \in Pages :
          page.at \in {"idle", "form", "row", "finish"} /\ pages' = [pages EXCEPT ![s] = page]
    BY <2>2 DEF Writes
  <2>4. \A t \in Slots : At(t, "insert")' =>
          t # s /\ At(t, "insert") /\ pages'[t].code = pages[t].code
    BY <2>3, OtherPage
  <2>5. /\ UNCHANGED nextval
        /\ \A m \in Members : members'[m] = IF m = pages[s].member THEN row ELSE members[m]
    BY <2>2 DEF Writes, TypeInv
  <2>6. \A m \in Members \ {pages[s].member} :
          (Exists(m)' <=> Exists(m)) /\ (Exists(m) => members[m].code # row.code)
    BY <2>1, <2>2, <2>5 DEF Exists, CodeInv, CodesUnique
  <2>7. \A t \in Slots : At(t, "insert")' => pages'[t].code # row.code
    BY <2>1, <2>2, <2>4 DEF CodeInv
  <2>8. CodesUnique'
    <3>1. \A m, n \in Members :
            Exists(m)' /\ Exists(n)' /\ members'[m].code = members'[n].code => m = n
      BY <2>5, <2>6 DEF CodeInv, CodesUnique
    <3>2. \A t \in Slots : At(t, "insert")' =>
            \A m \in Members : Exists(m)' => members'[m].code # pages'[t].code
      BY <2>4, <2>5, <2>6, <2>7 DEF CodeInv, CodesUnique
    <3> QED BY <3>1, <3>2 DEF CodesUnique
  <2>9. \A m \in Members : Exists(m)' => members'[m].code < nextval'
    BY <2>1, <2>2, <2>5, <2>6 DEF CodeInv
  <2> QED BY <2>4, <2>5, <2>8, <2>9 DEF CodeInv
<1>5. ASSUME NEW s \in Slots, Save(s) PROVE CodeInv'
  <2>1. pages[s].member \in Members /\ Exists(pages[s].member)
    BY <1>5, Saved
  <2>2. PICK row \in Rows : row.code = members[pages[s].member].code /\ Writes(s, row)
    BY <1>5, Saved
  <2>3. PICK page \in Pages :
          page.at \in {"idle", "form", "row", "finish"} /\ pages' = [pages EXCEPT ![s] = page]
    BY <2>2 DEF Writes
  <2>4. /\ UNCHANGED nextval
        /\ \A m \in Members : members'[m] = IF m = pages[s].member THEN row ELSE members[m]
    BY <2>2 DEF Writes, TypeInv
  <2>5. \A m \in Members : Exists(m)' => Exists(m) /\ members'[m].code = members[m].code
    BY <2>1, <2>2, <2>4 DEF Exists
  <2> QED BY <2>3, <2>4, <2>5, OtherPage, SameCodes
<1>6. ASSUME NEW m \in Members, archiveMember(m) PROVE CodeInv'
  <2>1. PICK row \in Rows : members' = [members EXCEPT ![m] = row] /\ row.code = members[m].code
    BY <1>6, Archived
  <2>2. Exists(m) /\ UNCHANGED <<nextval, pages>>
    BY <1>6, Archived
  <2>3. \A n \in Members : Exists(n)' => Exists(n) /\ members'[n].code = members[n].code
    BY <2>1, <2>2 DEF Exists, TypeInv
  <2> QED BY <2>2, <2>3, SameCodes DEF At
<1>7. CASE UNCHANGED vars
  BY <1>7, SameCodes DEF vars, Exists, At
<1> QED BY <1>1, <1>2, <1>3, <1>4, <1>5, <1>6, <1>7, Cases

\* nextval hands out no code twice, so that no two members have one code,
\* whatever saves and imports run at the same time and wherever they fail.
THEOREM OwnCodes == Spec => []CodesUnique
<1>1. Init => CodeInv
  BY ClosedPage DEF Init, CodeInv, CodesUnique, Exists, At
<1>2. Spec => []CodeInv
  BY <1>1, InitTypes, TypeStep, CodeStep, PTL DEF Spec
<1> QED BY <1>2, PTL DEF CodeInv

-----------------------------------------------------------------------------
(* Duplicates.  An unconfirmed save is claimed from its check to its write; *)
(* when it passes the check nobody else holds the phone, so that all who    *)
(* claim it are members of open pages.                                     *)

Small(S) == IsFiniteSet(S) /\ Cardinality(S) <= Cardinality(Slots)
Claims(s, phone) ==
  pages[s].at \in {"code", "insert", "save"} /\ pages[s].phone = phone /\ ~pages[s].confirm
Claimed(phone) ==
  Unreviewed(phone) \cup {pages[s].member : s \in {t \in Slots : Claims(t, phone)}}
OverlapInv == \A phone \in Phones : Small(Claimed(phone))

LEMMA Smaller == ASSUME NEW S, Small(S), NEW T \in SUBSET S PROVE Small(T)
<1>1. /\ IsFiniteSet(T) /\ Cardinality(T) <= Cardinality(S)
      /\ Cardinality(S) \in Nat /\ Cardinality(T) \in Nat /\ Cardinality(Slots) \in Nat
  BY FS_Subset, FS_CardinalityType, SlotsAssumption DEF Small
<1> QED BY <1>1 DEF Small

LEMMA OfPages == ASSUME NEW f, f \in [Slots -> Range(f)] PROVE Small(Range(f))
<1>1. f \in Surjection(Slots, Range(f))
  BY Fun_RangeProperties
<1> QED BY <1>1, FS_Surjection, SlotsAssumption DEF Small

\* A page that gets to a step from which it does not write.
LEMMA OtherClaims ==
  ASSUME TypeInv, NEW s \in Slots, NEW page, page.at \notin {"code", "insert", "save"},
         pages' = [pages EXCEPT ![s] = page], NEW phone
  PROVE  \A t \in Slots : Claims(t, phone)' =>
           Claims(t, phone) /\ pages'[t].member = pages[t].member
BY DEF TypeInv, Claims

\* Rows and claims that were there before.
LEMMA FewerClaims ==
  ASSUME OverlapInv, NEW phone \in Phones,
         Unreviewed(phone)' \subseteq Claimed(phone),
         \A t \in Slots : Claims(t, phone)' =>
           Claims(t, phone) /\ pages'[t].member = pages[t].member
  PROVE  Small(Claimed(phone)')
<1>1. Claimed(phone)' \in SUBSET Claimed(phone)
  BY DEF Claimed
<1> QED BY <1>1, Smaller DEF OverlapInv

LEMMA PassedClaims ==
  ASSUME TypeInv, OverlapInv, NEW s \in Slots, NEW m, NEW step \in {"code", "save"},
         Passes(s, step, m), ~(pages[s].at \in {"code", "insert", "save"})
  PROVE  OverlapInv'
<1> DEFINE page == [pages[s] EXCEPT !.at = step, !.member = m]
<1>1. pages[s] \in Pages /\ UNCHANGED members
  BY DEF TypeInv, Passes
<1>2. /\ page.at = step /\ page.member = m /\ page.phone = pages[s].phone
      /\ page.confirm = pages[s].confirm
  BY <1>1 DEF Pages
<1>3. pages' = [pages EXCEPT ![s] = page]
  BY DEF Passes
<1> HIDE DEF page
<1>4. \A t \in Slots : pages'[t] = IF t = s THEN page ELSE pages[t]
  BY <1>3 DEF TypeInv
<1> SUFFICES ASSUME NEW phone \in Phones PROVE Small(Claimed(phone)')
  BY DEF OverlapInv, Small
<1>5. Unreviewed(phone)' = Unreviewed(phone)
  BY <1>1 DEF Unreviewed, Holders, Exists
<1>6. CASE phone # pages[s].phone \/ pages[s].confirm
  <2>1. \A t \in Slots : Claims(t, phone)' =>
          Claims(t, phone) /\ pages'[t].member = pages[t].member
    BY <1>2, <1>4, <1>6 DEF Claims
  <2>2. Unreviewed(phone)' \subseteq Claimed(phone)
    BY <1>5 DEF Claimed
  <2> QED BY <2>1, <2>2, FewerClaims
<1>7. CASE phone = pages[s].phone /\ ~pages[s].confirm
  <2> DEFINE f == [t \in Slots |-> pages'[t].member]
  <2>1. Unreviewed(phone) \subseteq {m}
    BY <1>7 DEF Passes, memberDuplicate, Unreviewed
  <2>2. pages'[s].member = m
    BY <1>2, <1>4
  <2>3. Range(f) = {pages'[t].member : t \in Slots}
    BY DEF Range
  <2>4. Claimed(phone)' \in SUBSET Range(f)
    BY <1>5, <2>1, <2>2, <2>3 DEF Claimed
  <2>5. f \in [Slots -> Range(f)]
    BY <2>3
  <2> HIDE DEF f
  <2> QED BY <2>4, <2>5, OfPages, Smaller
<1> QED BY <1>6, <1>7

LEMMA WrittenClaims ==
  ASSUME TypeInv, OverlapInv, NEW s \in Slots, pages[s].at \in {"insert", "save"},
         pages[s].member \in Members, NEW row \in Rows, Writes(s, row)
  PROVE  OverlapInv'
<1>1. PICK page \in Pages :
        page.at \in {"idle", "form", "row", "finish"} /\ pages' = [pages EXCEPT ![s] = page]
  BY DEF Writes
<1>2. \A m \in Members : members'[m] = IF m = pages[s].member THEN row ELSE members[m]
  BY DEF Writes, TypeInv
<1> SUFFICES ASSUME NEW phone \in Phones PROVE Small(Claimed(phone)')
  BY DEF OverlapInv, Small
<1>3. \A t \in Slots : Claims(t, phone)' =>
        Claims(t, phone) /\ pages'[t].member = pages[t].member
  BY <1>1, OtherClaims
<1>4. ASSUME NEW m \in Unreviewed(phone)' PROVE m \in Claimed(phone)
  <2>1. m \in Members /\ Exists(m)' /\ members'[m].phone = phone /\ ~members'[m].reviewed
    BY <1>4 DEF Unreviewed, Holders
  <2>2. CASE m = pages[s].member
    <3>1. Claims(s, phone)
      BY <1>2, <2>1, <2>2 DEF Claims, Writes
    <3> QED BY <2>2, <3>1 DEF Claimed
  <2>3. CASE m # pages[s].member
    BY <1>2, <2>1, <2>3 DEF Claimed, Unreviewed, Holders, Exists
  <2> QED BY <2>2, <2>3
<1> QED BY <1>3, <1>4, FewerClaims

LEMMA OverlapStep == TypeInv /\ OverlapInv /\ [Next]_vars => OverlapInv'
<1> SUFFICES ASSUME TypeInv, OverlapInv, [Next]_vars PROVE OverlapInv'
  OBVIOUS
<1>1. ASSUME NEW s \in Slots, Settles(s) PROVE OverlapInv'
  <2>1. PICK page \in Pages : page.at \in Calm /\ pages' = [pages EXCEPT ![s] = page]
    BY <1>1 DEF Settles
  <2>2. page.at \notin {"code", "insert", "save"}
    BY <2>1 DEF Calm
  <2>3. \A phone \in Phones : Unreviewed(phone)' \subseteq Claimed(phone)
    BY <1>1 DEF Settles, Claimed, Unreviewed, Holders, Exists
  <2>4. ASSUME NEW phone \in Phones PROVE Small(Claimed(phone)')
    BY <2>1, <2>2, <2>3, OtherClaims, FewerClaims
  <2> QED BY <2>4 DEF OverlapInv, Small
<1>2. ASSUME NEW s \in Slots, NEW m, NEW step \in {"code", "save"}, Passes(s, step, m),
             At(s, "checkNew") \/ At(s, "checkEdit")
      PROVE  OverlapInv'
  BY <1>2, PassedClaims DEF At
<1>3. ASSUME NEW s \in Slots, nextMemberCode(s) PROVE OverlapInv'
  <2>1. /\ UNCHANGED members /\ pages[s].at = "code" /\ pages[s] \in Pages
        /\ pages' = [pages EXCEPT ![s].at = "insert", ![s].code = nextval]
    BY <1>3 DEF nextMemberCode, At, TypeInv
  <2>2. /\ pages'[s].phone = pages[s].phone /\ pages'[s].confirm = pages[s].confirm
        /\ pages'[s].member = pages[s].member
        /\ \A t \in Slots \ {s} : pages'[t] = pages[t]
    BY <2>1 DEF TypeInv, Pages
  <2>3. ASSUME NEW phone \in Phones PROVE Small(Claimed(phone)')
    <3>1. Unreviewed(phone)' \subseteq Claimed(phone)
      BY <2>1 DEF Claimed, Unreviewed, Holders, Exists
    <3>2. \A t \in Slots : Claims(t, phone)' =>
            Claims(t, phone) /\ pages'[t].member = pages[t].member
      BY <2>1, <2>2 DEF Claims
    <3> QED BY <3>1, <3>2, FewerClaims
  <2> QED BY <2>3 DEF OverlapInv, Small
<1>4. ASSUME NEW s \in Slots, InsertMember(s) PROVE OverlapInv'
  <2>1. pages[s].at = "insert" /\ pages[s].member \in Members
    BY <1>4, Inserted
  <2>2. PICK row \in Rows : Writes(s, row)
    BY <1>4, Inserted
  <2> QED BY <2>1, <2>2, WrittenClaims
<1>5. ASSUME NEW s \in Slots, Save(s) PROVE OverlapInv'
  <2>1. pages[s].at = "save" /\ pages[s].member \in Members
    BY <1>5, Saved
  <2>2. PICK row \in Rows : Writes(s, row)
    BY <1>5, Saved
  <2> QED BY <2>1, <2>2, WrittenClaims
<1>6. ASSUME NEW m \in Members, archiveMember(m) PROVE OverlapInv'
  <2>1. PICK row \in Rows : /\ members' = [members EXCEPT ![m] = row]
                            /\ row.phone = members[m].phone /\ row.reviewed = members[m].reviewed
    BY <1>6, Archived
  <2>2. Exists(m) /\ UNCHANGED pages
    BY <1>6, Archived
  <2>3. \A phone \in Phones : Unreviewed(phone)' \subseteq Claimed(phone)
    BY <2>1, <2>2 DEF TypeInv, Claimed, Unreviewed, Holders, Exists
  <2>4. ASSUME NEW phone \in Phones PROVE Small(Claimed(phone)')
    BY <2>2, <2>3, FewerClaims DEF Claims
  <2> QED BY <2>4 DEF OverlapInv, Small
<1>7. CASE UNCHANGED vars
  <2>1. ASSUME NEW phone \in Phones PROVE Claimed(phone)' = Claimed(phone)
    BY <1>7 DEF vars, Claimed, Claims, Unreviewed, Holders, Exists
  <2>2. ASSUME NEW phone \in Phones PROVE Small(Claimed(phone)')
    BY <2>1 DEF OverlapInv
  <2> QED BY <2>2 DEF OverlapInv, Small
<1> QED BY <1>1, <1>2, <1>3, <1>4, <1>5, <1>6, <1>7, Cases

\* Unreviewed duplicates come of saves that overlap and of nothing else: a phone
\* is never held by more members, without confirmation, than requests can be in flight.
THEOREM FewDuplicates == Spec => []DuplicatesOverlap
<1>1. Init => OverlapInv
  <2> SUFFICES ASSUME Init, NEW phone \in Phones PROVE Small(Claimed(phone))
    BY DEF OverlapInv
  <2>1. Claimed(phone) = {}
    BY ClosedPage DEF Init, Claimed, Claims, Unreviewed, Holders, Exists
  <2> QED BY <2>1, FS_EmptySet, FS_CardinalityType, SlotsAssumption DEF Small
<1>2. OverlapInv => DuplicatesOverlap
  <2> SUFFICES ASSUME OverlapInv, NEW phone \in Phones
               PROVE  Cardinality(Unreviewed(phone)) <= Cardinality(Slots)
    BY DEF DuplicatesOverlap
  <2>1. Unreviewed(phone) \in SUBSET Claimed(phone)
    BY DEF Claimed
  <2> QED BY <2>1, Smaller DEF OverlapInv, Small
<1> QED BY <1>1, <1>2, InitTypes, TypeStep, OverlapStep, PTL DEF Spec
=============================================================================
