---------------------------- MODULE TemplateStore ----------------------------
(***************************************************************************)
(* The template and assignment requests of the document service: Save,     *)
(* Update, Delete and Assign, each a sequence of database calls.           *)
(*                                                                         *)
(* Requests run concurrently, each in the goroutine of its HTTP call, with *)
(* no lock and no transaction; an action is one database call.  GORM's     *)
(* Db.Save writes the whole row it was given, deletion flag included, so a *)
(* request writes back every column it read.  A UUID is named after the    *)
(* request that makes it.  Of the columns, type, format, description, page *)
(* settings and activity are left out: they travel with the row as the     *)
(* system-default flag does, and no check of these requests looks at them. *)
(*                                                                         *)
(* past, calm and stale are history: the rows each template has had,       *)
(* whether every write so far was made on an unchanged store, and whether  *)
(* the store was written since the request first read it.                  *)
(*                                                                         *)
(* A definition named Def_Bug is Def with a bug seeded; no specification   *)
(* uses it.                                                                *)
(***************************************************************************)
EXTENDS Naturals

CONSTANTS
    Requests,                  \* each makes one call
    Codes, Names, Contents,
    Slots,                     \* companyId, warehouseId, ownerId, templateType, effectiveFrom
    KeyedSlots,                \* slots without an empty id: NULLs escape a unique key
    NoRow, NoForm, NoSlot

VARIABLES
    template,    \* m_template
    assigned,    \* r_template_assignment
    request,     \* the requests in progress
    past, calm   \* history

vars == <<template, assigned, request, past, calm>>

-----------------------------------------------------------------------------
Form == [code : Codes, name : Names, content : Contents, default : BOOLEAN]
Row == [code : Codes, name : Names, content : Contents, default : BOOLEAN,
        version : Nat, deleted : BOOLEAN]
Assignment == [id : Requests, slot : Slots]

ASSUME StoreAssumption ==
    /\ KeyedSlots \subseteq Slots
    /\ NoRow \notin Row /\ NoRow \notin Assignment

\* At its next call: the name of the call, "idle" before the first, "done" after the last.
Request ==
    [pc : {"idle", "name", "code", "write", "delete", "slot", "assign", "done"},
     id : Requests,                  \* the template
     form : Form \cup {NoForm},      \* the body of Save and Update
     row : Row \cup {NoRow},         \* the template as FindByID returned it
     slot : Slots \cup {NoSlot},     \* the body of Assign
     stale : BOOLEAN]

Resting(r, pc) ==
    [pc |-> pc, id |-> r, form |-> NoForm, row |-> NoRow, slot |-> NoSlot, stale |-> FALSE]

InProgress(r) == request[r].pc \notin {"idle", "done"}

Exists(id) == template[id] # NoRow
Live(id) == Exists(id) /\ ~template[id].deleted

\* ExistsByCode, ExistsByName: deleted templates and the template itself do not count.
ExistsByCode(code, id) == \E o \in Requests \ {id} : Live(o) /\ template[o].code = code
ExistsByName_Self(name, id) == Live(id) /\ template[id].name = name
ExistsByName(name, id) == \E o \in Requests \ {id} : Live(o) /\ template[o].name = name
ExistsDuplicate(slot) == \E a \in Requests : assigned[a] # NoRow /\ assigned[a].slot = slot

\* UNIQUE KEY uk_template_code: deleted templates count.
KeyTaken(code, id) == \E o \in Requests \ {id} : Exists(o) /\ template[o].code = code

-----------------------------------------------------------------------------
Goto(r, pc) == request' = [request EXCEPT ![r].pc = pc]
Finish(r) == request' = [request EXCEPT ![r] = Resting(r, "done")]
Begin(r, pc, id, form, row, slot) ==
    /\ request[r].pc = "idle"
    /\ request' = [request EXCEPT ![r] =
            [pc |-> pc, id |-> id, form |-> form, row |-> row, slot |-> slot, stale |-> FALSE]]

Refuse(r) == request[r].pc = "idle" /\ Finish(r)

\* What a write of r leaves: r has answered, the others hold what may be out of date.
Written(r) ==
    /\ request' = [q \in Requests |->
            IF q = r THEN Resting(r, "done")
            ELSE [request[q] EXCEPT !.stale = @ \/ InProgress(q)]]
    /\ calm' = (calm /\ ~request[r].stale)

\* Any call may fail; the request then answers "Database Error."
Fail(r) == InProgress(r) /\ Finish(r) /\ UNCHANGED <<template, assigned, past, calm>>

ReadsOnly == UNCHANGED <<template, assigned, past, calm>>

\* Save, first call.  A request in a bad form never gets here.
SaveCheckCode(r, form) ==
    /\ \/ ~ExistsByCode(form.code, r) /\ Begin(r, "name", r, form, NoRow, NoSlot)
       \/ ExistsByCode(form.code, r) /\ Refuse(r)
    /\ ReadsOnly

UpdateFind_NameOnly(r, id, form) ==
    /\ \/ /\ Live(id)
          /\ Begin(r, IF form.name # template[id].name THEN "name" ELSE "write",
                   id, form, template[id], NoSlot)
       \/ ~Live(id) /\ Refuse(r)
    /\ ReadsOnly

\* Update, first call: FindByID, then only the checks the change calls for.
UpdateFind(r, id, form) ==
    /\ \/ /\ Live(id)
          /\ Begin(r, IF form.code # template[id].code THEN "code"
                      ELSE IF form.name # template[id].name THEN "name" ELSE "write",
                   id, form, template[id], NoSlot)
       \/ ~Live(id) /\ Refuse(r)
    /\ ReadsOnly

UpdateCheckCode(r) ==
    LET me == request[r] IN
    /\ me.pc = "code"
    /\ \/ ExistsByCode(me.form.code, me.id) /\ Finish(r)
       \/ ~ExistsByCode(me.form.code, me.id)
          /\ Goto(r, IF me.form.name # me.row.name THEN "name" ELSE "write")
    /\ ReadsOnly

CheckName(r) ==
    LET me == request[r] IN
    /\ me.pc = "name"
    /\ \/ ExistsByName(me.form.name, me.id) /\ Finish(r)
       \/ ~ExistsByName(me.form.name, me.id) /\ Goto(r, "write")
    /\ ReadsOnly

Created_Swapped(form) ==
    [code |-> form.name, name |-> form.code, content |-> form.content,
     default |-> form.default, version |-> 1, deleted |-> FALSE]

\* The entity Save creates, and the one Update makes of the row it read.
Created(form) ==
    [code |-> form.code, name |-> form.name, content |-> form.content,
     default |-> form.default, version |-> 1, deleted |-> FALSE]

Edited_EveryTime(row, form) ==
    [code |-> form.code, name |-> form.name, content |-> form.content,
     default |-> form.default, version |-> row.version + 1, deleted |-> row.deleted]

Edited_TwiceWithName(row, form) ==
    [code |-> form.code, name |-> form.name, content |-> form.content,
     default |-> form.default,
     version |-> row.version + (IF form.content # row.content THEN 1 ELSE 0)
                             + (IF form.name # row.name THEN 1 ELSE 0),
     deleted |-> row.deleted]

Edited(row, form) ==
    [code |-> form.code, name |-> form.name, content |-> form.content,
     default |-> form.default,
     version |-> IF form.content # row.content THEN row.version + 1 ELSE row.version,
     deleted |-> row.deleted]

\* Db.Create and Db.Save: the unique key decides.
Put(r, id, row) ==
    \/ /\ ~KeyTaken(row.code, id)
       /\ template' = [template EXCEPT ![id] = row]
       /\ past' = [past EXCEPT ![id] = @ \cup {row}]
       /\ Written(r)
       /\ UNCHANGED assigned
    \/ KeyTaken(row.code, id) /\ Finish(r) /\ ReadsOnly

SaveWrite(r) ==
    LET me == request[r] IN
    /\ me.pc = "write" /\ me.row = NoRow
    /\ Put(r, r, Created(me.form))

UpdateWrite(r) ==
    LET me == request[r] IN
    /\ me.pc = "write" /\ me.row # NoRow
    /\ Put(r, me.id, Edited(me.row, me.form))

Deletable_DefaultsToo(id) == Live(id)

Deletable(id) == Live(id) /\ ~template[id].default

DeleteFind(r, id) ==
    /\ \/ Deletable(id) /\ Begin(r, "delete", id, NoForm, template[id], NoSlot)
       \/ ~Deletable(id) /\ Refuse(r)
    /\ ReadsOnly

WriteDeleted(r) ==
    LET me == request[r] IN
    /\ me.pc = "delete"
    /\ Put(r, me.id, [me.row EXCEPT !.deleted = TRUE])

AssignFind(r, id, slot) ==
    /\ \/ Live(id) /\ Begin(r, "slot", id, NoForm, NoRow, slot)
       \/ ~Live(id) /\ Refuse(r)
    /\ ReadsOnly

AssignCheckDuplicate(r) ==
    LET me == request[r] IN
    /\ me.pc = "slot"
    /\ \/ ExistsDuplicate(me.slot) /\ Finish(r)
       \/ ~ExistsDuplicate(me.slot) /\ Goto(r, "assign")
    /\ ReadsOnly

\* UNIQUE KEY uk_assignment_scope sees the slots without NULLs only.
WriteAssignment(r) ==
    LET me == request[r] IN
    /\ me.pc = "assign"
    /\ \/ /\ me.slot \in KeyedSlots => ~ExistsDuplicate(me.slot)
          /\ assigned' = [assigned EXCEPT ![r] = [id |-> me.id, slot |-> me.slot]]
          /\ Written(r)
          /\ UNCHANGED <<template, past>>
       \/ /\ me.slot \in KeyedSlots /\ ExistsDuplicate(me.slot)
          /\ Finish(r)
          /\ ReadsOnly

-----------------------------------------------------------------------------
Init ==
    /\ template = [id \in Requests |-> NoRow]
    /\ assigned = [a \in Requests |-> NoRow]
    /\ request = [r \in Requests |-> Resting(r, "idle")]
    /\ past = [id \in Requests |-> {}]
    /\ calm = TRUE

Save(r) == \E form \in Form : SaveCheckCode(r, form)
Update(r) == \E id \in Requests, form \in Form : UpdateFind(r, id, form)
Delete(r) == \E id \in Requests : DeleteFind(r, id)
Assign(r) == \E id \in Requests, slot \in Slots : AssignFind(r, id, slot)

Next ==
    \E r \in Requests :
        \/ Save(r) \/ Update(r) \/ Delete(r) \/ Assign(r)
        \/ UpdateCheckCode(r) \/ CheckName(r)
        \/ SaveWrite(r) \/ UpdateWrite(r) \/ WriteDeleted(r)
        \/ AssignCheckDuplicate(r) \/ WriteAssignment(r)
        \/ Fail(r)

Spec == Init /\ [][Next]_vars

-----------------------------------------------------------------------------
TypeOK ==
    /\ template \in [Requests -> Row \cup {NoRow}]
    /\ assigned \in [Requests -> Assignment \cup {NoRow}]
    /\ request \in [Requests -> Request]
    /\ past \in [Requests -> SUBSET Row]
    /\ calm \in BOOLEAN

(***************************************************************************)
(* The service implements the catalogue: a write made on an unchanged      *)
(* store is its whole request done at once, any other works on a row the   *)
(* same template had before.                                               *)
(***************************************************************************)
Catalog == INSTANCE TemplateCatalog WITH Ids <- Requests
Implements == Catalog!Spec

DefaultsNotDeleted == Catalog!DefaultsNotDeleted
UniqueWhenCalm == Catalog!UniqueWhenCalm
VersionsFollow == Catalog!VersionsFollow

(***************************************************************************)
(* A request that passed its checks on a store that did not change since   *)
(* is refused by the key of the codes only because of a deleted template:  *)
(* the check skips those, the key does not.                                *)
(***************************************************************************)
KeyAgreesWithCheck ==
    \A r \in Requests :
        request[r].pc = "write" /\ ~request[r].stale =>
            ~ExistsByCode(request[r].form.code, request[r].id)
=============================================================================
