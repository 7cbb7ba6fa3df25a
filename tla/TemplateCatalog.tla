--------------------------- MODULE TemplateCatalog ---------------------------
(***************************************************************************)
(* What the document service promises about its template catalogue:        *)
(* m_template and r_template_assignment, seen write by write.              *)
(*                                                                         *)
(* A write is the whole of its request, done at once, as long as no other  *)
(* write came between what the request read and what it writes.  The       *)
(* service takes no lock and no transaction, so a request may also write   *)
(* late: it then works on a row the template had at some earlier time, and *)
(* on checks made at some earlier time.  calm holds until that happens.    *)
(***************************************************************************)
EXTENDS Naturals

CONSTANTS
    Ids,                       \* UUIDs, of templates and of assignments
    Codes, Names, Contents,
    Slots,                     \* company, warehouse, owner, type and date
    KeyedSlots,                \* slots the unique key of the table sees
    NoRow                      \* no such row in the table

VARIABLES
    template,    \* m_template
    past,        \* every row each template has had
    assigned,    \* r_template_assignment
    calm         \* no write was late so far

catalog == <<template, past, assigned, calm>>

Form == [code : Codes, name : Names, content : Contents, default : BOOLEAN]
Row == [code : Codes, name : Names, content : Contents, default : BOOLEAN,
        version : Nat, deleted : BOOLEAN]
Assignment == [id : Ids, slot : Slots]

Created(form) ==
    [code |-> form.code, name |-> form.name, content |-> form.content,
     default |-> form.default, version |-> 1, deleted |-> FALSE]

Edited(row, form) ==
    [code |-> form.code, name |-> form.name, content |-> form.content,
     default |-> form.default,
     version |-> IF form.content = row.content THEN row.version ELSE row.version + 1,
     deleted |-> FALSE]

Retired(row) == [row EXCEPT !.deleted = TRUE]

Exists(id) == template[id] # NoRow
Live(id) == Exists(id) /\ ~template[id].deleted
Others(id) == Ids \ {id}
KeyFree(code, id) == \A o \in Others(id) : Exists(o) => template[o].code # code
NameFree(name, id) == \A o \in Others(id) : Live(o) => template[o].name # name
SlotFree(slot) == \A a \in Ids : assigned[a] # NoRow => assigned[a].slot # slot

Put(id, row) ==
    /\ KeyFree(row.code, id)
    /\ template' = [template EXCEPT ![id] = row]
    /\ past' = [past EXCEPT ![id] = @ \cup {row}]
    /\ UNCHANGED assigned

PutAssignment(a, id, slot) ==
    /\ assigned[a] = NoRow
    /\ slot \in KeyedSlots => SlotFree(slot)
    /\ assigned' = [assigned EXCEPT ![a] = [id |-> id, slot |-> slot]]
    /\ UNCHANGED <<template, past>>

-----------------------------------------------------------------------------
Create(id, form) ==
    /\ ~Exists(id)
    /\ NameFree(form.name, id)
    /\ Put(id, Created(form))
    /\ UNCHANGED calm

Replace(id, form) ==
    /\ Live(id)
    /\ form.name = template[id].name \/ NameFree(form.name, id)
    /\ Put(id, Edited(template[id], form))
    /\ UNCHANGED calm

Retire(id) ==
    /\ Live(id) /\ ~template[id].default
    /\ Put(id, Retired(template[id]))
    /\ UNCHANGED calm

Assign(a, id, slot) ==
    /\ Live(id)
    /\ SlotFree(slot)
    /\ PutAssignment(a, id, slot)
    /\ UNCHANGED calm

\* The same requests, on a row of the past and on checks that no longer hold.
Late ==
    /\ calm' = FALSE
    /\ \E id \in Ids :
        \/ \E form \in Form : ~Exists(id) /\ Put(id, Created(form))
        \/ \E form \in Form, row \in past[id] : ~row.deleted /\ Put(id, Edited(row, form))
        \/ \E row \in past[id] : ~row.deleted /\ ~row.default /\ Put(id, Retired(row))
        \/ \E a \in Ids, slot \in Slots : past[id] # {} /\ PutAssignment(a, id, slot)

-----------------------------------------------------------------------------
Init ==
    /\ template = [id \in Ids |-> NoRow]
    /\ past = [id \in Ids |-> {}]
    /\ assigned = [a \in Ids |-> NoRow]
    /\ calm = TRUE

Next ==
    \/ \E id \in Ids, form \in Form : Create(id, form) \/ Replace(id, form)
    \/ \E id \in Ids : Retire(id)
    \/ \E a, id \in Ids, slot \in Slots : Assign(a, id, slot)
    \/ Late

Spec == Init /\ [][Next]_catalog

-----------------------------------------------------------------------------
CatalogTypeOK ==
    /\ template \in [Ids -> Row \cup {NoRow}]
    /\ past \in [Ids -> SUBSET Row]
    /\ assigned \in [Ids -> Assignment \cup {NoRow}]
    /\ calm \in BOOLEAN

(***************************************************************************)
(* A system default is never a deleted template, whatever two requests do  *)
(* to it at once: Delete refuses a default, and an update that makes one   *)
(* writes the row back as not deleted.                                     *)
(***************************************************************************)
DefaultsNotDeleted ==
    \A id \in Ids : Exists(id) => ~(template[id].default /\ template[id].deleted)

(***************************************************************************)
(* As long as no write was late, no two live templates have one name and   *)
(* no two assignments have one slot.                                       *)
(***************************************************************************)
UniqueWhenCalm ==
    calm =>
        /\ \A id, o \in Ids : id # o /\ Live(id) /\ Live(o) => template[id].name # template[o].name
        /\ \A a, b \in Ids : a # b /\ assigned[a] # NoRow /\ assigned[b] # NoRow =>
                                assigned[a].slot # assigned[b].slot

(***************************************************************************)
(* Versions are not skipped: a row of version n+1 has replaced content of  *)
(* version n that the template had at some time, also when updates race.   *)
(***************************************************************************)
VersionsFollow ==
    \A id \in Ids : \A row \in past[id] :
        row.version > 1 => \E old \in past[id] : old.version + 1 = row.version
=============================================================================
