------------------------- MODULE TemplateStoreProofs -------------------------
(***************************************************************************)
(* Proofs about TemplateStore, for any number of requests: that it         *)
(* implements TemplateCatalog, and the invariants its run checks.          *)
(*                                                                         *)
(* The invariant says what a request in progress knows.  What it read is a *)
(* row its template had (Reads); as long as nobody wrote since, it is the  *)
(* row the template has, and the checks it passed still hold (Knows).      *)
(***************************************************************************)
EXTENDS TemplateStore, TLAPS

Reads(r) ==
    LET me == request[r] IN
    /\ me.pc # "done" => template[r] = NoRow /\ assigned[r] = NoRow
    /\ me.pc \in {"code", "name", "write"} => me.form \in Form
    /\ me.pc \in {"code", "delete"} => me.row # NoRow
    /\ me.pc \in {"name", "write"} /\ me.row = NoRow => me.id = r
    /\ me.row # NoRow => InProgress(r) /\ me.row \in past[me.id] /\ ~me.row.deleted
    /\ me.pc = "delete" => ~me.row.default
    /\ me.pc \in {"slot", "assign"} => past[me.id] # {} /\ me.slot \in Slots

Kept(r, column) == request[r].row # NoRow /\ request[r].form[column] = request[r].row[column]

Knows(r) ==
    LET me == request[r] IN
    ~me.stale =>
        /\ me.row # NoRow => template[me.id] = me.row
        /\ me.pc \in {"name", "write"} =>
              Kept(r, "code") \/ ~ExistsByCode(me.form.code, me.id)
        /\ me.pc = "write" => Kept(r, "name") \/ ~ExistsByName(me.form.name, me.id)
        /\ me.pc \in {"slot", "assign"} => Live(me.id)
        /\ me.pc = "assign" => ~ExistsDuplicate(me.slot)

CodesUnique ==
    \A id, o \in Requests :
        id # o /\ Exists(id) /\ Exists(o) => template[id].code # template[o].code

RowsArePast ==
    \A id \in Requests :
        /\ Exists(id) => template[id] \in past[id]
        /\ past[id] # {} => Exists(id)

StoreInv ==
    /\ CodesUnique /\ RowsArePast
    /\ DefaultsNotDeleted /\ UniqueWhenCalm /\ VersionsFollow

Inv == TypeOK /\ StoreInv /\ \A r \in Requests : Reads(r) /\ Knows(r)

USE DEF Catalog!Exists, Catalog!Live, Exists, Live

-----------------------------------------------------------------------------
\* A call that only reads moves its own request on and leaves the rest.
LEMMA ReadStep ==
    ASSUME Inv, NEW r \in Requests, NEW m \in Request,
           ReadsOnly, request' = [request EXCEPT ![r] = m],
           Reads(r)', Knows(r)'
    PROVE  Inv'
<1>1. TypeOK'
  BY DEF Inv, TypeOK, ReadsOnly
<1>2. StoreInv'
  BY DEF Inv, StoreInv, ReadsOnly, CodesUnique, RowsArePast, DefaultsNotDeleted, UniqueWhenCalm,
         VersionsFollow, Catalog!DefaultsNotDeleted, Catalog!UniqueWhenCalm,
         Catalog!VersionsFollow
<1>3. ASSUME NEW q \in Requests PROVE Reads(q)' /\ Knows(q)'
  <2>1. CASE q = r
    BY <2>1
  <2>2. CASE q # r
    <3>1. request'[q] = request[q]
      BY <2>2 DEF Inv, TypeOK
    <3>2. Reads(q) /\ Knows(q)
      BY DEF Inv
    <3>3. QED
      BY <3>1, <3>2 DEF Reads, Knows, Kept, InProgress, ReadsOnly, ExistsByCode, ExistsByName, ExistsDuplicate
  <2>3. QED
    BY <2>1, <2>2
<1>4. QED
  BY <1>1, <1>2, <1>3 DEF Inv

\* A request that has answered knows nothing.
LEMMA FinishStep ==
    ASSUME Inv, NEW r \in Requests, Finish(r), ReadsOnly
    PROVE  Inv'
<1> DEFINE m == Resting(r, "done")
<1>1. m \in Request /\ request' = [request EXCEPT ![r] = m]
  BY DEF Finish, Resting, Request
<1>2. request'[r] = m
  BY <1>1 DEF Inv, TypeOK
<1>3. Reads(r)' /\ Knows(r)'
  BY <1>2 DEF Reads, Knows, Resting, Kept, InProgress
<1>4. QED
  BY <1>1, <1>3, ReadStep

\* After a write every other request in progress is out of date.
LEMMA WrittenStep ==
    ASSUME TypeOK, NEW r \in Requests, Written(r)
    PROVE  /\ request' \in [Requests -> Request]
           /\ calm' \in BOOLEAN
           /\ request'[r] = Resting(r, "done")
           /\ \A q \in Requests \ {r} :
                /\ request'[q].pc = request[q].pc /\ request'[q].id = request[q].id
                /\ request'[q].form = request[q].form /\ request'[q].row = request[q].row
                /\ request'[q].slot = request[q].slot
                /\ request'[q].stale = (request[q].stale \/ InProgress(q))
<1>1. Resting(r, "done") \in Request
  BY DEF Resting, Request
<1>2. ASSUME NEW q \in Requests, q # r
      PROVE  LET me == request[q] IN
             request'[q] = [pc |-> me.pc, id |-> me.id, form |-> me.form, row |-> me.row,
                            slot |-> me.slot, stale |-> me.stale \/ InProgress(q)]
  BY <1>2 DEF Written, TypeOK, Request
<1>3. ASSUME NEW q \in Requests PROVE request'[q] \in Request
  <2>1. CASE q = r
    BY <1>1, <2>1 DEF Written
  <2>2. CASE q # r
    <3>1. request[q] \in Request /\ InProgress(q) \in BOOLEAN
      BY DEF TypeOK, InProgress
    <3> DEFINE s == request[q].stale \/ InProgress(q)
    <3>2. s \in BOOLEAN
      OBVIOUS
    <3>3. request'[q] = [pc |-> request[q].pc, id |-> request[q].id, form |-> request[q].form,
                         row |-> request[q].row, slot |-> request[q].slot, stale |-> s]
      BY <1>2, <2>2
    <3> HIDE DEF s
    <3>4. QED
      BY <3>1, <3>2, <3>3 DEF Request
  <2>3. QED
    BY <2>1, <2>2
<1>4. request' \in [Requests -> Request]
  <2> DEFINE f == [q \in Requests |->
                     IF q = r THEN Resting(r, "done")
                     ELSE [request[q] EXCEPT !.stale = @ \/ InProgress(q)]]
  <2>1. request' = f
    BY DEF Written
  <2>2. \A q \in Requests : f[q] \in Request
    BY <1>3, <2>1
  <2> HIDE DEF f
  <2>3. f \in [Requests -> Request]
    BY <2>2 DEF f
  <2>4. QED
    BY <2>1, <2>3
<1>5. calm' \in BOOLEAN
  BY DEF Written, TypeOK
<1>6. request'[r] = Resting(r, "done")
  BY DEF Written
<1>7. QED
  BY <1>2, <1>4, <1>5, <1>6

\* Db.Create or Db.Save of a row that follows one of the template's rows.
LEMMA PutStep ==
    ASSUME Inv, NEW r \in Requests, NEW id \in Requests, NEW row \in Row,
           ~KeyTaken(row.code, id),
           template' = [template EXCEPT ![id] = row],
           past' = [past EXCEPT ![id] = @ \cup {row}],
           Written(r), UNCHANGED assigned,
           id # r => Exists(id),
           ~(row.default /\ row.deleted),
           row.version > 1 => \E old \in past[id] : old.version + 1 = row.version,
           calm /\ ~request[r].stale =>
               \/ row.deleted
               \/ ~ExistsByName(row.name, id)
               \/ Live(id) /\ template[id].name = row.name
    PROVE  Inv'
<1>1. TypeOK'
  BY WrittenStep DEF Inv, TypeOK
<1>2. CodesUnique' /\ RowsArePast' /\ DefaultsNotDeleted'
  BY StoreAssumption DEF Inv, TypeOK, StoreInv, CodesUnique, RowsArePast, DefaultsNotDeleted,
         Catalog!DefaultsNotDeleted, KeyTaken
<1>3. UniqueWhenCalm'
  BY StoreAssumption DEF Inv, TypeOK, StoreInv, UniqueWhenCalm, Catalog!UniqueWhenCalm, Written,
         ExistsByName
<1>4. VersionsFollow'
  BY DEF Inv, TypeOK, StoreInv, VersionsFollow, Catalog!VersionsFollow
<1>5. ASSUME NEW q \in Requests PROVE Reads(q)' /\ Knows(q)'
  <2> request'[r] = Resting(r, "done")
    BY WrittenStep DEF Inv
  <2>1. CASE q = r
    BY <2>1 DEF Reads, Knows, Resting
  <2>2. CASE q # r
    <3>1. Reads(q)'
      BY <2>2, WrittenStep DEF Inv, TypeOK, Reads, InProgress
    <3>2. CASE InProgress(q)
      BY <2>2, <3>1, <3>2, WrittenStep DEF Inv, Knows
    <3>3. CASE ~InProgress(q)
      <4>1. request'[q].pc \in {"idle", "done"} /\ request'[q].row = NoRow
        BY <2>2, <3>3, WrittenStep DEF Inv, TypeOK, Request, Reads, InProgress
      <4>2. QED
        BY <3>1, <4>1 DEF Knows
    <3>4. QED
      BY <3>1, <3>2, <3>3
  <2>3. QED
    BY <2>1, <2>2
<1>6. QED
  BY <1>1, <1>2, <1>3, <1>4, <1>5 DEF Inv, StoreInv

-----------------------------------------------------------------------------
\* The first call of a request.
LEMMA BeginStep ==
    ASSUME Inv, NEW r \in Requests, NEW id \in Requests,
           NEW pc \in {"name", "code", "write", "delete", "slot"},
           NEW form \in Form \cup {NoForm}, NEW row \in Row \cup {NoRow},
           NEW slot \in Slots \cup {NoSlot},
           Begin(r, pc, id, form, row, slot), ReadsOnly,
           pc \in {"name", "code", "write"} => form \in Form,
           pc \in {"code", "write", "delete"} => row # NoRow,
           pc = "name" /\ row = NoRow => id = r,
           row # NoRow => Live(id) /\ row = template[id],
           pc = "delete" => ~row.default,
           pc = "name" => \/ row # NoRow /\ form.code = row.code
                          \/ ~ExistsByCode(form.code, id),
           pc = "write" => form.code = row.code /\ form.name = row.name,
           pc = "slot" => Live(id) /\ slot \in Slots
    PROVE  Inv'
<1> DEFINE m == [pc |-> pc, id |-> id, form |-> form, row |-> row, slot |-> slot,
                 stale |-> FALSE]
<1>1. m \in Request /\ request' = [request EXCEPT ![r] = m]
  BY DEF Begin, Request
<1>2. request'[r] = m /\ request[r].pc = "idle"
  BY <1>1 DEF Inv, TypeOK, Begin
<1>3. Reads(r)'
  BY <1>2 DEF Inv, Reads, ReadsOnly, InProgress, StoreInv, RowsArePast
<1>4. Knows(r)'
  BY <1>2 DEF Knows, Kept, ReadsOnly, ExistsByCode
<1>5. QED
  BY <1>1, <1>3, <1>4, ReadStep

\* A later call whose check is passed.
LEMMA GotoStep ==
    ASSUME Inv, NEW r \in Requests, NEW pc \in {"name", "write", "assign"},
           Goto(r, pc), ReadsOnly,
           LET me == request[r] IN
           /\ pc \in {"name", "write"} =>
                 /\ me.pc \in {"code", "name"}
                 /\ me.pc = "code" => ~ExistsByCode(me.form.code, me.id)
           /\ pc = "write" => Kept(r, "name") \/ ~ExistsByName(me.form.name, me.id)
           /\ pc = "assign" => me.pc = "slot" /\ ~ExistsDuplicate(me.slot)
    PROVE  Inv'
<1> DEFINE m == [request[r] EXCEPT !.pc = pc]
<1>1. m \in Request /\ request' = [request EXCEPT ![r] = m]
  BY DEF Goto, Request, Inv, TypeOK
<1>2. /\ request'[r].pc = pc /\ request'[r].id = request[r].id
      /\ request'[r].form = request[r].form /\ request'[r].row = request[r].row
      /\ request'[r].slot = request[r].slot /\ request'[r].stale = request[r].stale
  BY <1>1 DEF Inv, TypeOK, Request
<1>3. Reads(r) /\ Knows(r)
  BY DEF Inv
<1>4. Reads(r)'
  BY <1>2, <1>3 DEF Reads, ReadsOnly, InProgress
<1>5. Knows(r)'
  BY <1>2, <1>3 DEF Knows, Kept, ReadsOnly, ExistsByCode, ExistsByName, ExistsDuplicate
<1>6. QED
  BY <1>1, <1>4, <1>5, ReadStep

-----------------------------------------------------------------------------
\* What Save and Update write.
LEMMA CreatedRow ==
    ASSUME NEW form \in Form
    PROVE  /\ Created(form) \in Row /\ Created(form) = Catalog!Created(form)
           /\ Created(form).version = 1 /\ ~Created(form).deleted
           /\ Created(form).name = form.name /\ Created(form).code = form.code
BY DEF Created, Catalog!Created, Row, Form

LEMMA EditedRow ==
    ASSUME NEW form \in Form, NEW row \in Row, ~row.deleted
    PROVE  /\ Edited(row, form) \in Row /\ Edited(row, form) = Catalog!Edited(row, form)
           /\ Edited(row, form).version \in {row.version, row.version + 1}
           /\ ~Edited(row, form).deleted
           /\ Edited(row, form).name = form.name /\ Edited(row, form).code = form.code
<1> DEFINE v == IF form.content # row.content THEN row.version + 1 ELSE row.version
<1>1. row.version \in Nat /\ row.deleted = FALSE
  <2>1. row.version \in Nat /\ row.deleted \in BOOLEAN
    BY DEF Row
  <2>2. QED
    BY <2>1
<1>2. v \in Nat /\ v \in {row.version, row.version + 1}
  BY <1>1
<1>3. Edited(row, form) = [code |-> form.code, name |-> form.name, content |-> form.content,
                           default |-> form.default, version |-> v, deleted |-> FALSE]
  BY <1>1 DEF Edited, Row
<1>4. Catalog!Edited(row, form) = [code |-> form.code, name |-> form.name,
                                   content |-> form.content, default |-> form.default,
                                   version |-> v, deleted |-> FALSE]
  BY DEF Catalog!Edited, Catalog!Created
<1> HIDE DEF v
<1>5. QED
  BY <1>2, <1>3, <1>4 DEF Row, Form

\* What Update knows of the row it read.
LEMMA RowRead ==
    ASSUME Inv, NEW r \in Requests, request[r].row # NoRow
    PROVE  LET me == request[r] IN
           /\ me.id \in Requests /\ me.row \in Row
           /\ me.row \in past[me.id] /\ ~me.row.deleted
           /\ Exists(me.id)
           /\ me.row.version > 1 => \E old \in past[me.id] : old.version + 1 = me.row.version
           /\ ~me.stale => template[me.id] = me.row
<1>1. request[r].id \in Requests /\ request[r].row \in Row
  BY DEF Inv, TypeOK, Request
<1>2. Reads(r) /\ Knows(r)
  BY DEF Inv
<1>3. request[r].row \in past[request[r].id] /\ ~request[r].row.deleted
  BY <1>2 DEF Reads
<1>4. ~request[r].stale => template[request[r].id] = request[r].row
  BY <1>2 DEF Knows
<1>5. RowsArePast /\ VersionsFollow
  BY DEF Inv, StoreInv
<1>6. QED
  BY <1>1, <1>3, <1>4, <1>5 DEF RowsArePast, VersionsFollow, Catalog!VersionsFollow

-----------------------------------------------------------------------------
LEMMA InvInit == Init => Inv
<1> SUFFICES ASSUME Init PROVE Inv
  OBVIOUS
<1>1. TypeOK
  BY DEF Init, TypeOK, Resting, Request
<1>2. StoreInv
  BY DEF Init, StoreInv, CodesUnique, RowsArePast, DefaultsNotDeleted, UniqueWhenCalm,
         VersionsFollow, Catalog!DefaultsNotDeleted, Catalog!UniqueWhenCalm,
         Catalog!VersionsFollow
<1>3. \A r \in Requests : Reads(r) /\ Knows(r)
  BY DEF Init, Resting, Reads, Knows
<1>4. QED
  BY <1>1, <1>2, <1>3 DEF Inv

LEMMA InvSaveWrite == ASSUME Inv, NEW r \in Requests, SaveWrite(r) PROVE Inv'
<1> DEFINE me == request[r]
           row == Created(me.form)
<1>1. /\ me.pc = "write" /\ me.row = NoRow /\ me.id = r /\ me.form \in Form
      /\ Put(r, r, row)
  BY DEF SaveWrite, Inv, Reads
<1>2. CASE KeyTaken(row.code, r)
  BY <1>1, <1>2, FinishStep DEF Put
<1>3. CASE ~KeyTaken(row.code, r)
  <2>1. row \in Row /\ row.version = 1 /\ ~row.deleted /\ row.name = me.form.name
    BY <1>1, CreatedRow
  <2>2. ~me.stale => ~ExistsByName(row.name, r)
    BY <1>1, <2>1 DEF Inv, Knows, Kept
  <2> HIDE DEF row
  <2>3. QED
    BY <1>1, <1>3, <2>1, <2>2, PutStep DEF Put
<1>4. QED
  BY <1>2, <1>3

LEMMA InvUpdateWrite == ASSUME Inv, NEW r \in Requests, UpdateWrite(r) PROVE Inv'
<1> DEFINE me == request[r]
           row == Edited(me.row, me.form)
<1>1. me.pc = "write" /\ me.row # NoRow /\ me.form \in Form /\ Put(r, me.id, row)
  BY DEF UpdateWrite, Inv, Reads
<1>2. me.id \in Requests /\ me.row \in Row /\ me.row \in past[me.id] /\ ~me.row.deleted
  BY <1>1, RowRead
<1>3. CASE KeyTaken(row.code, me.id)
  BY <1>1, <1>2, <1>3, FinishStep DEF Put
<1>4. CASE ~KeyTaken(row.code, me.id)
  <2>1. /\ row \in Row /\ ~row.deleted /\ row.name = me.form.name
        /\ row.version \in {me.row.version, me.row.version + 1}
    BY <1>1, <1>2, EditedRow
  <2>2. ~me.stale => \/ ~ExistsByName(row.name, me.id)
                     \/ Live(me.id) /\ template[me.id].name = row.name
    BY <1>1, <1>2, <2>1, RowRead DEF Inv, Knows, Kept
  <2> HIDE DEF row
  <2>3. row.version > 1 => \E old \in past[me.id] : old.version + 1 = row.version
    <3>1. CASE row.version = me.row.version
      BY <1>1, <3>1, RowRead
    <3>2. CASE row.version = me.row.version + 1
      BY <1>2, <3>2
    <3>3. QED
      BY <2>1, <3>1, <3>2
  <2>4. Exists(me.id)
    BY <1>1, RowRead
  <2>5. QED
    BY <1>1, <1>2, <1>4, <2>1, <2>2, <2>3, <2>4, PutStep DEF Put
<1>5. QED
  BY <1>3, <1>4

LEMMA InvWriteDeleted == ASSUME Inv, NEW r \in Requests, WriteDeleted(r) PROVE Inv'
<1> DEFINE me == request[r]
           row == [me.row EXCEPT !.deleted = TRUE]
<1>1. /\ me.pc = "delete" /\ Put(r, me.id, row) /\ me.id \in Requests
      /\ me.row \in Row /\ me.row \in past[me.id] /\ ~me.row.default
  BY DEF WriteDeleted, Inv, TypeOK, Request, Reads
<1>2. CASE KeyTaken(row.code, me.id)
  BY <1>1, <1>2, FinishStep DEF Put
<1>3. CASE ~KeyTaken(row.code, me.id)
  <2>1. row \in Row /\ row.deleted /\ ~row.default /\ row.version = me.row.version
    BY <1>1 DEF Row
  <2>2. Exists(me.id)
    BY <1>1 DEF Inv, StoreInv, RowsArePast
  <2>3. row.version > 1 => \E old \in past[me.id] : old.version + 1 = row.version
    BY <1>1, <2>1 DEF Inv, StoreInv, VersionsFollow, Catalog!VersionsFollow
  <2> HIDE DEF row
  <2>4. QED
    BY <1>1, <1>3, <2>1, <2>2, <2>3, PutStep DEF Put
<1>4. QED
  BY <1>2, <1>3

LEMMA InvWriteAssignment == ASSUME Inv, NEW r \in Requests, WriteAssignment(r) PROVE Inv'
<1> DEFINE me == request[r]
<1>1. me.pc = "assign" /\ me.id \in Requests /\ me.slot \in Slots
  BY DEF WriteAssignment, Inv, TypeOK, Request, Reads
<1>2. CASE Finish(r) /\ ReadsOnly
  BY <1>2, FinishStep
<1>3. CASE /\ assigned' = [assigned EXCEPT ![r] = [id |-> me.id, slot |-> me.slot]]
           /\ Written(r)
           /\ UNCHANGED <<template, past>>
  <2>1. TypeOK'
    BY <1>1, <1>3, WrittenStep DEF Inv, TypeOK, Assignment
  <2>2. CodesUnique' /\ RowsArePast' /\ DefaultsNotDeleted' /\ VersionsFollow'
    BY <1>3 DEF Inv, StoreInv, CodesUnique, RowsArePast, DefaultsNotDeleted, VersionsFollow,
                Catalog!DefaultsNotDeleted, Catalog!VersionsFollow
  <2>3. calm' => ~ExistsDuplicate(me.slot)
    BY <1>1, <1>3 DEF Inv, Knows, Written
  <2>4. UniqueWhenCalm'
    BY <1>1, <1>3, <2>3 DEF Inv, TypeOK, StoreInv, UniqueWhenCalm, Catalog!UniqueWhenCalm,
                            Written, ExistsDuplicate
  <2>5. ASSUME NEW q \in Requests PROVE Reads(q)' /\ Knows(q)'
    <3> request'[r] = Resting(r, "done")
      BY <1>3, WrittenStep DEF Inv
    <3>1. CASE q = r
      BY <3>1 DEF Reads, Knows, Resting
    <3>2. CASE q # r
      <4>1. Reads(q)'
        BY <1>3, <3>2, WrittenStep DEF Inv, TypeOK, Reads, InProgress
      <4>2. CASE InProgress(q)
        BY <1>3, <3>2, <4>1, <4>2, WrittenStep DEF Inv, Knows
      <4>3. CASE ~InProgress(q)
        <5>1. request'[q].pc \in {"idle", "done"} /\ request'[q].row = NoRow
          BY <1>3, <3>2, <4>3, WrittenStep DEF Inv, TypeOK, Request, Reads, InProgress
        <5>2. QED
          BY <4>1, <5>1 DEF Knows
      <4>4. QED
        BY <4>1, <4>2, <4>3
    <3>3. QED
      BY <3>1, <3>2
  <2>6. QED
    BY <2>1, <2>2, <2>4, <2>5 DEF Inv, StoreInv
<1>4. QED
  BY <1>2, <1>3 DEF WriteAssignment

LEMMA InvFirstCall ==
    ASSUME Inv, NEW r \in Requests, Save(r) \/ Update(r) \/ Delete(r) \/ Assign(r)
    PROVE  Inv'
<1>1. ASSUME NEW form \in Form, SaveCheckCode(r, form) PROVE Inv'
  <2>1. CASE Refuse(r)
    BY <1>1, <2>1, FinishStep DEF SaveCheckCode, Refuse
  <2>2. CASE ~ExistsByCode(form.code, r) /\ Begin(r, "name", r, form, NoRow, NoSlot)
    BY <1>1, <2>2, BeginStep DEF SaveCheckCode
  <2>3. QED
    BY <1>1, <2>1, <2>2 DEF SaveCheckCode
<1>2. ASSUME NEW id \in Requests, NEW form \in Form, UpdateFind(r, id, form) PROVE Inv'
  <2>1. CASE Refuse(r)
    BY <1>2, <2>1, FinishStep DEF UpdateFind, Refuse
  <2>2. CASE Live(id) /\ ~Refuse(r)
    <3> DEFINE row == template[id]
               pc == IF form.code # row.code THEN "code"
                     ELSE IF form.name # row.name THEN "name" ELSE "write"
    <3>1. Begin(r, pc, id, form, row, NoSlot) /\ ReadsOnly
      BY <1>2, <2>2 DEF UpdateFind
    <3>2. row \in Row /\ row # NoRow
      BY <2>2 DEF Inv, TypeOK
    <3>3. /\ pc \in {"code", "name", "write"}
          /\ pc # "code" => form.code = row.code
          /\ pc = "write" => form.name = row.name
      OBVIOUS
    <3> HIDE DEF pc
    <3>4. QED
      BY <2>2, <3>1, <3>2, <3>3, BeginStep
  <2>3. QED
    BY <1>2, <2>1, <2>2 DEF UpdateFind
<1>3. ASSUME NEW id \in Requests, DeleteFind(r, id) PROVE Inv'
  <2>1. CASE Refuse(r)
    BY <1>3, <2>1, FinishStep DEF DeleteFind, Refuse
  <2>2. CASE Deletable(id) /\ ~Refuse(r)
    <3>1. template[id] \in Row /\ template[id] # NoRow
      BY <2>2 DEF Deletable, Inv, TypeOK
    <3>2. QED
      BY <1>3, <2>2, <3>1, BeginStep DEF DeleteFind, Deletable
  <2>3. QED
    BY <1>3, <2>1, <2>2 DEF DeleteFind
<1>4. ASSUME NEW id \in Requests, NEW slot \in Slots, AssignFind(r, id, slot) PROVE Inv'
  <2>1. CASE Refuse(r)
    BY <1>4, <2>1, FinishStep DEF AssignFind, Refuse
  <2>2. CASE Live(id) /\ Begin(r, "slot", id, NoForm, NoRow, slot)
    BY <1>4, <2>2, BeginStep DEF AssignFind
  <2>3. QED
    BY <1>4, <2>1, <2>2 DEF AssignFind
<1>5. QED
  BY <1>1, <1>2, <1>3, <1>4 DEF Save, Update, Delete, Assign

LEMMA InvCheck ==
    ASSUME Inv, NEW r \in Requests,
           UpdateCheckCode(r) \/ CheckName(r) \/ AssignCheckDuplicate(r) \/ Fail(r)
    PROVE  Inv'
<1>1. CASE Finish(r)
  BY <1>1, FinishStep DEF UpdateCheckCode, CheckName, AssignCheckDuplicate, Fail, ReadsOnly
<1>2. CASE UpdateCheckCode(r) /\ ~Finish(r)
  <2> DEFINE me == request[r]
             pc == IF me.form.name # me.row.name THEN "name" ELSE "write"
  <2>1. /\ me.pc = "code" /\ ~ExistsByCode(me.form.code, me.id) /\ me.row # NoRow
        /\ Goto(r, pc) /\ ReadsOnly
    BY <1>2 DEF UpdateCheckCode, Inv, Reads
  <2>2. pc \in {"name", "write"} /\ (pc = "write" => Kept(r, "name"))
    BY <2>1 DEF Kept
  <2> HIDE DEF pc
  <2>3. QED
    BY <2>1, <2>2, GotoStep
<1>3. CASE CheckName(r) /\ ~Finish(r)
  BY <1>3, GotoStep DEF CheckName
<1>4. CASE AssignCheckDuplicate(r) /\ ~Finish(r)
  BY <1>4, GotoStep DEF AssignCheckDuplicate
<1>5. QED
  BY <1>1, <1>2, <1>3, <1>4 DEF Fail

LEMMA InvNext == Inv /\ [Next]_vars => Inv'
<1> SUFFICES ASSUME Inv, [Next]_vars PROVE Inv'
  OBVIOUS
<1>1. CASE UNCHANGED vars
  BY <1>1 DEF vars, Inv, TypeOK, StoreInv, CodesUnique, RowsArePast, DefaultsNotDeleted,
              UniqueWhenCalm, VersionsFollow, Catalog!DefaultsNotDeleted,
              Catalog!UniqueWhenCalm, Catalog!VersionsFollow, Reads, Knows, Kept, InProgress,
              ExistsByCode, ExistsByName, ExistsDuplicate
<1>2. CASE Next
  BY <1>2, InvFirstCall, InvCheck, InvSaveWrite, InvUpdateWrite, InvWriteDeleted,
     InvWriteAssignment DEF Next
<1>3. QED
  BY <1>1, <1>2

(***************************************************************************)
(* What every request read is past or present of the template it works on, *)
(* and what it checked holds until somebody writes.                        *)
(***************************************************************************)
THEOREM Invariance == Spec => []Inv
BY InvInit, InvNext, PTL DEF Spec

(***************************************************************************)
(* Rows, requests and slots keep their types: a handler never goes on with *)
(* a body, a row or a slot it does not have.                               *)
(***************************************************************************)
THEOREM TypeCorrect == Spec => []TypeOK
<1>1. Inv => TypeOK
  BY DEF Inv
<1>2. QED
  BY <1>1, Invariance, PTL

(***************************************************************************)
(* No request, however it races with the others, leaves a system default   *)
(* deleted.                                                                *)
(***************************************************************************)
THEOREM DefaultsStay == Spec => []DefaultsNotDeleted
<1>1. Inv => DefaultsNotDeleted
  BY DEF Inv, StoreInv
<1>2. QED
  BY <1>1, Invariance, PTL

(***************************************************************************)
(* Names and slots are unique until the first write made on a store that   *)
(* changed since it was read: the checks do their work when no one races.  *)
(***************************************************************************)
THEOREM UniqueUntilRaced == Spec => []UniqueWhenCalm
<1>1. Inv => UniqueWhenCalm
  BY DEF Inv, StoreInv
<1>2. QED
  BY <1>1, Invariance, PTL

(***************************************************************************)
(* No version number is skipped, also when updates race.                   *)
(***************************************************************************)
THEOREM VersionsNotSkipped == Spec => []VersionsFollow
<1>1. Inv => VersionsFollow
  BY DEF Inv, StoreInv
<1>2. QED
  BY <1>1, Invariance, PTL

(***************************************************************************)
(* Without a race, the unique key refuses a code the check let through     *)
(* only on account of a deleted template.                                  *)
(***************************************************************************)
THEOREM KeyRefusesDeletedOnly == Spec => []KeyAgreesWithCheck
<1>1. Inv => KeyAgreesWithCheck
  <2> SUFFICES ASSUME Inv, NEW r \in Requests, request[r].pc = "write", ~request[r].stale
               PROVE  ~ExistsByCode(request[r].form.code, request[r].id)
    BY DEF KeyAgreesWithCheck
  <2>1. CASE Kept(r, "code")
    <3>1. request[r].form.code = template[request[r].id].code /\ Exists(request[r].id)
      BY <2>1, RowRead DEF Kept
    <3>2. QED
      BY <3>1 DEF Inv, TypeOK, Request, StoreInv, CodesUnique, ExistsByCode
  <2>2. CASE ~Kept(r, "code")
    BY <2>2 DEF Inv, Knows
  <2>3. QED
    BY <2>1, <2>2
<1>2. QED
  BY <1>1, Invariance, PTL

-----------------------------------------------------------------------------
\* The catalogue's checks in the service's words.
LEMMA Checks ==
    ASSUME NEW id \in Requests, NEW x
    PROVE  /\ Catalog!KeyFree(x, id) <=> ~KeyTaken(x, id)
           /\ Catalog!NameFree(x, id) <=> ~ExistsByName(x, id)
           /\ Catalog!SlotFree(x) <=> ~ExistsDuplicate(x)
BY DEF Catalog!KeyFree, Catalog!NameFree, Catalog!SlotFree, Catalog!Others, KeyTaken,
       ExistsByName, ExistsDuplicate

LEMMA Forms == Form = Catalog!Form
BY DEF Form, Catalog!Form

\* A write of a template is a Put of the catalogue; calm falls when it is late.
LEMMA PutRefines ==
    ASSUME TypeOK, NEW r \in Requests, NEW id \in Requests, NEW row, Put(r, id, row)
    PROVE  \/ UNCHANGED Catalog!catalog
           \/ /\ Catalog!Put(id, row)
              /\ ~request[r].stale => UNCHANGED calm
              /\ request[r].stale => calm' = FALSE
<1>1. CASE KeyTaken(row.code, id)
  BY <1>1 DEF Put, ReadsOnly, Catalog!catalog
<1>2. CASE ~KeyTaken(row.code, id)
  <2>1. Catalog!Put(id, row)
    BY <1>2, Checks DEF Put, Catalog!Put
  <2>2. calm' = (calm /\ ~request[r].stale)
    BY <1>2 DEF Put, Written
  <2>3. QED
    BY <2>1, <2>2 DEF TypeOK
<1>3. QED
  BY <1>1, <1>2

LEMMA SaveRefines ==
    ASSUME Inv, NEW r \in Requests, SaveWrite(r)
    PROVE  [Catalog!Next]_(Catalog!catalog)
<1> DEFINE me == request[r]
<1>1. /\ me.pc = "write" /\ me.row = NoRow /\ me.id = r /\ me.form \in Form
      /\ Put(r, r, Created(me.form)) /\ ~Exists(r)
  BY DEF SaveWrite, Inv, Reads
<1>2. CASE UNCHANGED Catalog!catalog
  BY <1>2
<1>3. CASE Catalog!Put(r, Catalog!Created(me.form)) /\ ~me.stale /\ UNCHANGED calm
  <2>1. Catalog!NameFree(me.form.name, r)
    BY <1>1, <1>3, Checks DEF Inv, Knows, Kept
  <2>2. Catalog!Create(r, me.form)
    BY <1>1, <1>3, <2>1 DEF Catalog!Create
  <2>3. QED
    BY <1>1, <2>2, Forms DEF Catalog!Next
<1>4. CASE Catalog!Put(r, Catalog!Created(me.form)) /\ calm' = FALSE
  BY <1>1, <1>4, Forms DEF Catalog!Next, Catalog!Late
<1>5. QED
  BY <1>1, <1>2, <1>3, <1>4, CreatedRow, PutRefines DEF Inv

LEMMA UpdateRefines ==
    ASSUME Inv, NEW r \in Requests, UpdateWrite(r)
    PROVE  [Catalog!Next]_(Catalog!catalog)
<1> DEFINE me == request[r]
<1>1. /\ me.pc = "write" /\ me.row # NoRow /\ me.form \in Form
      /\ Put(r, me.id, Edited(me.row, me.form))
  BY DEF UpdateWrite, Inv, Reads
<1>2. /\ me.id \in Requests /\ me.row \in Row /\ me.row \in past[me.id] /\ ~me.row.deleted
      /\ Exists(me.id) /\ (~me.stale => template[me.id] = me.row)
  BY <1>1, RowRead
<1>3. CASE UNCHANGED Catalog!catalog
  BY <1>3
<1>4. CASE Catalog!Put(me.id, Catalog!Edited(me.row, me.form)) /\ ~me.stale /\ UNCHANGED calm
  <2>1. me.form.name = me.row.name \/ Catalog!NameFree(me.form.name, me.id)
    BY <1>1, <1>2, <1>4, Checks DEF Inv, Knows, Kept
  <2>2. Catalog!Replace(me.id, me.form)
    BY <1>2, <1>4, <2>1 DEF Catalog!Replace
  <2>3. QED
    BY <1>1, <1>2, <2>2, Forms DEF Catalog!Next
<1>5. CASE Catalog!Put(me.id, Catalog!Edited(me.row, me.form)) /\ calm' = FALSE
  BY <1>1, <1>2, <1>5, Forms DEF Catalog!Next, Catalog!Late
<1>6. QED
  BY <1>1, <1>2, <1>3, <1>4, <1>5, EditedRow, PutRefines DEF Inv

LEMMA DeleteRefines ==
    ASSUME Inv, NEW r \in Requests, WriteDeleted(r)
    PROVE  [Catalog!Next]_(Catalog!catalog)
<1> DEFINE me == request[r]
<1>1. /\ me.pc = "delete" /\ me.row # NoRow /\ ~me.row.default
      /\ Put(r, me.id, Catalog!Retired(me.row))
  BY DEF WriteDeleted, Inv, Reads, Catalog!Retired
<1>2. /\ me.id \in Requests /\ me.row \in past[me.id] /\ ~me.row.deleted
      /\ Exists(me.id) /\ (~me.stale => template[me.id] = me.row)
  BY <1>1, RowRead
<1>3. CASE UNCHANGED Catalog!catalog
  BY <1>3
<1>4. CASE Catalog!Put(me.id, Catalog!Retired(me.row)) /\ ~me.stale /\ UNCHANGED calm
  BY <1>1, <1>2, <1>4 DEF Catalog!Next, Catalog!Retire
<1>5. CASE Catalog!Put(me.id, Catalog!Retired(me.row)) /\ calm' = FALSE
  BY <1>1, <1>2, <1>5 DEF Catalog!Next, Catalog!Late
<1>6. QED
  BY <1>1, <1>2, <1>3, <1>4, <1>5, PutRefines DEF Inv

LEMMA AssignRefines ==
    ASSUME Inv, NEW r \in Requests, WriteAssignment(r)
    PROVE  [Catalog!Next]_(Catalog!catalog)
<1> DEFINE me == request[r]
<1>1. /\ me.pc = "assign" /\ me.id \in Requests /\ me.slot \in Slots
      /\ past[me.id] # {} /\ assigned[r] = NoRow
      /\ ~me.stale => Live(me.id) /\ ~ExistsDuplicate(me.slot)
  BY DEF WriteAssignment, Inv, TypeOK, Request, Reads, Knows
<1>2. CASE ReadsOnly
  BY <1>2 DEF ReadsOnly, Catalog!catalog
<1>3. CASE ~ReadsOnly
  <2>1. Catalog!PutAssignment(r, me.id, me.slot)
    BY <1>1, <1>3, Checks DEF WriteAssignment, Catalog!PutAssignment
  <2>2. calm' = (calm /\ ~me.stale)
    BY <1>3 DEF WriteAssignment, Written
  <2>3. CASE me.stale
    BY <1>1, <2>1, <2>2, <2>3 DEF Catalog!Next, Catalog!Late
  <2>4. CASE ~me.stale
    <3>1. UNCHANGED calm /\ Catalog!SlotFree(me.slot)
      BY <1>1, <2>2, <2>4, Checks DEF Inv, TypeOK
    <3>2. Catalog!Assign(r, me.id, me.slot)
      BY <1>1, <2>1, <2>4, <3>1 DEF Catalog!Assign
    <3>3. QED
      BY <1>1, <3>2 DEF Catalog!Next
  <2>5. QED
    BY <2>3, <2>4
<1>4. QED
  BY <1>2, <1>3

(***************************************************************************)
(* The four requests of the service, call by call and in any interleaving, *)
(* implement the catalogue.                                                *)
(***************************************************************************)
THEOREM Refinement == Spec => Implements
<1>1. Init => Catalog!Init
  BY DEF Init, Catalog!Init
<1>2. Inv /\ [Next]_vars => [Catalog!Next]_(Catalog!catalog)
  <2> SUFFICES ASSUME Inv, [Next]_vars PROVE [Catalog!Next]_(Catalog!catalog)
    OBVIOUS
  <2>1. CASE UNCHANGED vars
    BY <2>1 DEF vars, Catalog!catalog
  <2>2. ASSUME NEW r \in Requests,
               \/ Save(r) \/ Update(r) \/ Delete(r) \/ Assign(r)
               \/ UpdateCheckCode(r) \/ CheckName(r) \/ AssignCheckDuplicate(r) \/ Fail(r)
        PROVE  UNCHANGED Catalog!catalog
    BY <2>2 DEF Save, Update, Delete, Assign, SaveCheckCode, UpdateFind, DeleteFind, AssignFind,
                UpdateCheckCode, CheckName, AssignCheckDuplicate, Fail, ReadsOnly,
                Catalog!catalog
  <2>3. QED
    BY <2>1, <2>2, SaveRefines, UpdateRefines, DeleteRefines, AssignRefines DEF Next
<1>3. QED
  BY <1>1, <1>2, Invariance, PTL DEF Spec, Implements, Catalog!Spec
=============================================================================
