------------------------------ MODULE Directory ------------------------------
(***************************************************************************)
(* The member directory (server/services/members.ts) and the reviewed CSV  *)
(* import into it (server/services/imports.ts, domain/csv-import.ts).      *)
(*                                                                         *)
(* A slot is one open page: a form for a new or a known member, or an      *)
(* upload; or a request that its page has left behind, which holds the     *)
(* slot until it has ended.  Its user submits it, the server answers after *)
(* several awaits, and after an error or a lost answer the page stays open *)
(* for another try.  Nothing locks the table between the look for          *)
(* duplicates and the write.                                               *)
(*                                                                         *)
(* Names, birthday and consent record (inserted in the transaction of its  *)
(* member) are left out; archived_at is set and cleared with the status.   *)
(* The statuses other than "archived" behave alike: "active".              *)
(***************************************************************************)
EXTENDS Naturals, Sequences, FiniteSets

CONSTANTS
  Members,  \* ids (bound: how many members are created)
  Phones,
  Slots,    \* open pages and requests left behind by pages
  MaxCode,  \* bound: how many codes are drawn
  Uploads,  \* bound: the uploads, each the phones of its rows
  NoId, NoMember,
  NoPhone   \* the phone of a row that does not pass validation

ASSUME BoundsAssumption == MaxCode \in Nat
ASSUME UploadsAssumption == Uploads \subseteq Seq(Phones \cup {NoPhone}) \ {<<>>}
ASSUME SlotsAssumption == IsFiniteSet(Slots)
ASSUME NullsAssumption == NoId \notin Members /\ NoPhone \notin Phones

VARIABLES
  members,   \* id -> row of members
  nextval,   \* what member_code_sequence yields next
  pages      \* slot -> what page and its request know

vars == <<members, nextval, pages>>

Statuses == {"active", "archived"}
Codes == 1 .. MaxCode
\* reviewed: its phone was saved with confirmPotentialDuplicate (history: no column).
Rows == [phone : Phones, status : Statuses, code : Codes, reviewed : BOOLEAN]
ImportRows == [phone : Phones \cup {NoPhone}, valid : BOOLEAN, duplicate : BOOLEAN]
NoRows == <<>>
Steps == {"idle", "form", "checkNew", "code", "insert", "checkEdit", "save",
          "preview", "row", "finish"}
\* member: the one to edit, or the id of the one to create; code: the one drawn;
\* rows: of the preview (none for a form); left: the numbers of those a commit has
\* still to answer.
Pages == [at : Steps, member : Members \cup {NoId},
          phone : Phones \cup {NoPhone}, status : Statuses, confirm : BOOLEAN,
          code : 0 .. MaxCode, rows : Seq(ImportRows), left : SUBSET Nat]

ASSUME RowsAssumption == NoMember \notin Rows

Closed == [at |-> "idle", member |-> NoId, phone |-> NoPhone,
           status |-> "active", confirm |-> FALSE, code |-> 0, rows |-> NoRows, left |-> {}]

Init ==
  /\ members = [m \in Members |-> NoMember]
  /\ nextval = 1
  /\ pages = [s \in Slots |-> Closed]

Exists(m) == members[m] # NoMember
Holders(phone) == {m \in Members : Exists(m) /\ members[m].phone = phone}
At(s, step) == pages[s].at = step
IsImport(s) == pages[s].rows # NoRows

\* An answered form stays open, and forgets what was submitted.
Form(s) == [Closed EXCEPT !.at = "form", !.member = IF At(s, "checkEdit") \/ At(s, "save")
                                                    THEN pages[s].member ELSE NoId]

\* A commit answers its rows in order.
Current(s) == CHOOSE i \in pages[s].left : \A j \in pages[s].left : i <= j
NextRow(s) ==
  LET left == pages[s].left \ {Current(s)}
  IN  [Closed EXCEPT !.at = IF left = {} THEN "finish" ELSE "row",
                     !.rows = pages[s].rows, !.left = left]

-----------------------------------------------------------------------------
(* The form *)

OpenNew(s) ==
  /\ At(s, "idle")
  /\ pages' = [pages EXCEPT ![s] = [Closed EXCEPT !.at = "form"]]
  /\ UNCHANGED <<members, nextval>>

OpenEdit(s, m) ==
  /\ At(s, "idle") /\ Exists(m)
  /\ pages' = [pages EXCEPT ![s] = [Closed EXCEPT !.at = "form", !.member = m]]
  /\ UNCHANGED <<members, nextval>>

Submit(s, phone, status, confirm) ==
  /\ At(s, "form")
  /\ pages' = [pages EXCEPT ![s].at = IF pages[s].member = NoId THEN "checkNew" ELSE "checkEdit",
                            ![s].phone = phone, ![s].status = status, ![s].confirm = confirm]
  /\ UNCHANGED <<members, nextval>>

Close(s) ==
  /\ At(s, "form") \/ At(s, "preview")
  /\ pages' = [pages EXCEPT ![s] = Closed]
  /\ UNCHANGED <<members, nextval>>

-----------------------------------------------------------------------------
(* createMember and updateMember *)

\* Slip: archived members are not looked at.
memberDuplicateUnarchived(phone, ignore) ==
  {m \in Holders(phone) : members[m].status # "archived"} \ {ignore} # {}

memberDuplicate(phone, ignore) == Holders(phone) \ {ignore} # {}

\* DUPLICATE_CANDIDATE, or any statement's failure: the form shows it, an
\* import counts the row as rejected and goes on.
Reject(s) ==
  pages' = [pages EXCEPT ![s] = IF IsImport(s) THEN NextRow(s) ELSE Form(s)]

Fresh(m) == ~Exists(m) /\ \A s \in Slots : pages[s].member # m

CheckNew(s) ==
  /\ At(s, "checkNew")
  /\ IF memberDuplicate(pages[s].phone, NoId) /\ ~pages[s].confirm
     THEN Reject(s)
     ELSE \E m \in Members :
            /\ Fresh(m)
            /\ pages' = [pages EXCEPT ![s].at = "code", ![s].member = m]
  /\ UNCHANGED <<members, nextval>>

\* Slip: the code is the number of members and one, and nothing draws it.
nextMemberCount(s) ==
  /\ At(s, "code") /\ nextval \in Codes
  /\ pages' = [pages EXCEPT ![s].at = "insert",
                            ![s].code = Cardinality({m \in Members : Exists(m)}) + 1]
  /\ UNCHANGED <<members, nextval>>

nextMemberCode(s) ==
  /\ At(s, "code") /\ nextval \in Codes
  /\ pages' = [pages EXCEPT ![s].at = "insert", ![s].code = nextval]
  /\ nextval' = nextval + 1
  /\ UNCHANGED members

\* After the transaction the audit and the second read may fail, or the answer is
\* lost: the form stays open, or the import counts a row as rejected that is saved.
InsertMember(s) ==
  /\ At(s, "insert")
  /\ members' = [members EXCEPT ![pages[s].member] =
       [phone |-> pages[s].phone, status |-> pages[s].status, code |-> pages[s].code,
        reviewed |-> pages[s].confirm]]
  /\ \/ pages' = [pages EXCEPT ![s] = IF IsImport(s) THEN NextRow(s) ELSE Closed]
     \/ Reject(s)
  /\ UNCHANGED nextval

CheckEdit(s) ==
  /\ At(s, "checkEdit")
  /\ IF memberDuplicate(pages[s].phone, pages[s].member) /\ ~pages[s].confirm
     THEN Reject(s)
     ELSE pages' = [pages EXCEPT ![s].at = "save"]
  /\ UNCHANGED <<members, nextval>>

\* The UPDATE writes every field of the form; the audit may fail after it.
Save(s) ==
  /\ At(s, "save")
  /\ members' = [members EXCEPT ![pages[s].member] =
       [@ EXCEPT !.phone = pages[s].phone, !.status = pages[s].status,
                 !.reviewed = pages[s].confirm]]
  /\ pages' \in {[pages EXCEPT ![s] = Closed], [pages EXCEPT ![s] = Form(s)]}
  /\ UNCHANGED nextval

archiveMember(m) ==
  /\ Exists(m)
  /\ members' = [members EXCEPT ![m].status = "archived"]
  /\ UNCHANGED <<nextval, pages>>

\* A statement fails and changes nothing.
Fail(s) ==
  /\ pages[s].at \in {"checkNew", "code", "insert", "checkEdit", "save"}
  /\ Reject(s)
  /\ UNCHANGED <<members, nextval>>

-----------------------------------------------------------------------------
(* The import *)

\* Within an upload the first row of a phone is the valid one.
assessImportRows(upload) ==
  [i \in DOMAIN upload |->
    [phone |-> upload[i],
     valid |-> upload[i] # NoPhone /\ \A j \in 1 .. i - 1 : upload[j] # upload[i],
     duplicate |-> Holders(upload[i]) # {}]]

previewImport(s, upload) ==
  /\ At(s, "idle")
  /\ pages' = [pages EXCEPT ![s] = [Closed EXCEPT !.at = "preview", !.rows = assessImportRows(upload)]]
  /\ UNCHANGED <<members, nextval>>

\* Slip: an empty commit is let through.
CommitNothing(s, ticked) ==
  /\ At(s, "preview")
  /\ pages' = [pages EXCEPT ![s].at = "row", ![s].left = ticked]
  /\ UNCHANGED <<members, nextval>>

\* The ticked rows are sent back.
Commit(s, ticked) ==
  /\ At(s, "preview") /\ ticked # {}
  /\ pages' = [pages EXCEPT ![s].at = "row", ![s].left = ticked]
  /\ UNCHANGED <<members, nextval>>

\* One row of commitImport: rejected, or saved like a form without confirmation.
CommitRow(s) ==
  /\ At(s, "row")
  /\ LET row == pages[s].rows[Current(s)]
     IN  pages' = [pages EXCEPT ![s] =
           IF row.valid /\ ~row.duplicate
           THEN [@ EXCEPT !.at = "checkNew", !.phone = row.phone]
           ELSE NextRow(s)]
  /\ UNCHANGED <<members, nextval>>

\* The audit event of the commit; when it fails the preview stays, to be tried again.
Finish(s) ==
  /\ At(s, "finish")
  /\ pages' \in {[pages EXCEPT ![s] = Closed], [pages EXCEPT ![s].at = "preview"]}
  /\ UNCHANGED <<members, nextval>>

-----------------------------------------------------------------------------
Next ==
  \/ \E s \in Slots :
       \/ OpenNew(s) \/ Close(s)
       \/ \E m \in Members : OpenEdit(s, m)
       \/ \E phone \in Phones, status \in Statuses, confirm \in BOOLEAN :
            Submit(s, phone, status, confirm)
       \/ CheckNew(s) \/ nextMemberCode(s) \/ InsertMember(s)
       \/ CheckEdit(s) \/ Save(s) \/ Fail(s)
       \/ \E upload \in Uploads : previewImport(s, upload)
       \/ \E ticked \in SUBSET (DOMAIN pages[s].rows) : Commit(s, ticked)
       \/ CommitRow(s) \/ Finish(s)
  \/ \E m \in Members : archiveMember(m)

Spec == Init /\ [][Next]_vars

-----------------------------------------------------------------------------
(* Properties *)

\* The types, and the requests that are after their checks know what they write.
TypeOK ==
  /\ members \in [Members -> Rows \cup {NoMember}]
  /\ nextval \in 1 .. MaxCode + 1
  /\ pages \in [Slots -> Pages]
  /\ \A s \in Slots :
       /\ pages[s].at \in {"checkNew", "code", "insert", "checkEdit", "save"} => pages[s].phone \in Phones
       /\ pages[s].at \in {"code", "insert"} => pages[s].member \in Members /\ ~Exists(pages[s].member)
       /\ At(s, "insert") => pages[s].code \in Codes
       /\ pages[s].at \in {"checkEdit", "save"} => pages[s].member \in Members /\ Exists(pages[s].member)
       /\ pages[s].left \subseteq DOMAIN pages[s].rows
       /\ At(s, "row") => pages[s].left # {}

\* "Atomic parish member-code allocation prevents concurrent staff saves from
\* reusing a code" (migrations/003_member_code_sequence.sql:1): no two members
\* have one code, and no request is about to insert a code in use, whatever
\* saves and imports run at the same time and wherever they fail.
CodesUnique ==
  /\ \A m, n \in Members :
       Exists(m) /\ Exists(n) /\ members[m].code = members[n].code => m = n
  /\ \A s \in Slots : At(s, "insert") =>
       \A m \in Members : Exists(m) => members[m].code # pages[s].code

\* memberDuplicate looks before the write and nothing holds the phone between
\* the two, so that unreviewed duplicates are possible; but only among saves
\* that run at the same time: never more of a phone than requests in flight,
\* however many forms and imports, stale previews and repeated commits follow.
Unreviewed(phone) == {m \in Holders(phone) : ~members[m].reviewed}
DuplicatesOverlap == \A phone \in Phones : Cardinality(Unreviewed(phone)) <= Cardinality(Slots)
=============================================================================
