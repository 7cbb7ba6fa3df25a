--------------------------- MODULE TemplateEditor ----------------------------
(***************************************************************************)
(* Saving in the template editor, beside the editing of TemplateContext.   *)
(*                                                                         *)
(* A save captures the template and the page when it is asked for and goes *)
(* on across awaits: one call to the document service, sent once more by   *)
(* the shell's query client if it fails, then for a new template a lookup  *)
(* of its id by its name.  The user goes on editing meanwhile, and may     *)
(* save again: the button is disabled during a save, Ctrl+S is not.        *)
(*                                                                         *)
(* rows are the templates of this editor at the document service: the one  *)
(* it was opened with, and those its saves created, each named after the   *)
(* save.  Nobody else writes them; other templates, the unique code and    *)
(* the service's failures may refuse any call.  A failing call may have    *)
(* had its effect (an answer that is lost).  Refetches of the detail query *)
(* do not reach the reducer and are left out.                              *)
(*                                                                         *)
(* mixed, split and the field alone are history.                           *)
(***************************************************************************)
EXTENDS TemplateContext

CONSTANTS
    Saves,          \* each is one run of handleSave
    Opened          \* the id in the page's URL

VARIABLES
    rows,
    call,           \* the saves in progress
    mixed,          \* the last save that was marked was not alone
    split           \* saves overlapped, or a created row was not found

vars == <<contextVars, rows, call, mixed, split>>

-----------------------------------------------------------------------------
Row == [name : Names, content : Pages]

ASSUME EditorAssumption ==
    TemplateIds = Saves \cup {Opened} /\ Opened \notin Saves /\ NoRow \notin Row

\* alone: no edit and no other save since it was asked for.
Call ==
    [pc : {"idle", "ask", "find", "done"}, template : Template, content : Pages \cup {NoRow},
     tries : 0..2, alone : BOOLEAN]

NoTemplate == [id |-> NoRow, name |-> NoName]
Resting(pc) ==
    [pc |-> pc, template |-> NoTemplate, content |-> NoRow, tries |-> 0, alone |-> FALSE]

InFlight(s) == call[s].pc \in {"ask", "find"}
Quiet == \A s \in Saves : ~InFlight(s)
NameFree(name, id) == \A o \in TemplateIds \ {id} : rows[o] # NoRow => rows[o].name # name

Disturbed(c) == [s \in Saves |-> [c[s] EXCEPT !.alone = FALSE]]

-----------------------------------------------------------------------------
Keystroke ==
    \/ Edits /\ call' = Disturbed(call) /\ UNCHANGED <<rows, mixed, split>>
    \/ Selects /\ UNCHANGED <<rows, call, mixed, split>>

\* handleSave up to its first await.  Without a name it only complains.
HandleSave(s) ==
    /\ call[s].pc = "idle"
    /\ template.name # NoName
    /\ call' = [Disturbed(call) EXCEPT ![s] =
            [pc |-> "ask", template |-> template, content |-> elements, tries |-> 1,
             alone |-> Quiet]]
    /\ split' = (split \/ ~Quiet)
    /\ UNCHANGED <<contextVars, rows, mixed>>

Finish(s) == call' = [call EXCEPT ![s] = Resting("done")]

\* A failing mutation is tried once more, then the user is told.
Failed(s) ==
    \/ call[s].tries < 2 /\ call' = [call EXCEPT ![s].tries = @ + 1]
    \/ call[s].tries = 2 /\ Finish(s)

Saved(s, id) ==
    /\ MarkSaved(id)
    /\ mixed' = ~call[s].alone
    /\ Finish(s)

Rejected_Marks(s) ==
    /\ call[s].pc = "ask"
    /\ \/ call[s].tries < 2 /\ Failed(s) /\ UNCHANGED <<contextVars, rows, mixed, split>>
       \/ call[s].tries = 2 /\ Saved(s, call[s].template.id) /\ UNCHANGED <<rows, split>>

Rejected(s) ==
    /\ call[s].pc = "ask"
    /\ Failed(s)
    /\ UNCHANGED <<contextVars, rows, mixed, split>>

\* /templates/save.  A lost answer is retried, and refused as the name is taken by then.
Create(s) ==
    LET t == call[s].template IN
    /\ call[s].pc = "ask" /\ t.id = NoRow
    /\ rows[s] = NoRow /\ NameFree(t.name, s)
    /\ rows' = [rows EXCEPT ![s] = [name |-> t.name, content |-> call[s].content]]
    /\ \/ call' = [call EXCEPT ![s].pc = "find"] /\ UNCHANGED split
       \/ Failed(s) /\ split' = TRUE
    /\ UNCHANGED <<contextVars, mixed>>

\* /templates/edit
EditRow(s) ==
    LET t == call[s].template IN
    /\ call[s].pc = "ask" /\ t.id # NoRow
    /\ NameFree(t.name, t.id)
    /\ rows' = [rows EXCEPT ![t.id] = [name |-> t.name, content |-> call[s].content]]
    /\ \/ Saved(s, t.id)
       \/ Failed(s) /\ UNCHANGED <<contextVars, mixed>>
    /\ UNCHANGED split

\* /templates/getAll: the row is looked for by its name among the first page of them.
Find(s) ==
    /\ call[s].pc = "find"
    /\ \/ \E id \in TemplateIds :
            /\ rows[id] # NoRow /\ rows[id].name = call[s].template.name
            /\ Saved(s, id)
            /\ UNCHANGED split
       \/ Saved(s, NoRow) /\ split' = TRUE
       \/ Finish(s) /\ split' = TRUE /\ UNCHANGED <<contextVars, mixed>>
    /\ UNCHANGED rows

-----------------------------------------------------------------------------
InitNew ==
    /\ \E name \in Names \cup {NoName} :
        ContextInit([i \in Ids |-> Gone], [id |-> NoRow, name |-> name])
    /\ rows = [id \in TemplateIds |-> NoRow]
    /\ mixed = FALSE

\* The page may show a copy of the row that the query client had kept.
InitOpened ==
    \E shown \in Row, stored \in Row :
        /\ ContextInit(shown.content, [id |-> Opened, name |-> shown.name])
        /\ rows = [id \in TemplateIds |-> IF id = Opened THEN stored ELSE NoRow]
        /\ mixed = (shown # stored)

Init ==
    /\ InitNew \/ InitOpened
    /\ call = [s \in Saves |-> Resting("idle")]
    /\ split = FALSE

Next ==
    \/ Keystroke
    \/ \E s \in Saves :
        HandleSave(s) \/ Rejected(s) \/ Create(s) \/ EditRow(s) \/ Find(s)

Spec == Init /\ [][Next]_vars

-----------------------------------------------------------------------------
TypeOK ==
    /\ ContextTypeOK
    /\ rows \in [TemplateIds -> Row \cup {NoRow}]
    /\ call \in [Saves -> Call]
    /\ mixed \in BOOLEAN /\ split \in BOOLEAN

(***************************************************************************)
(* A template that is not dirty is the one stored, once the saves are      *)
(* over, unless the last save that was marked had company: another save    *)
(* under way, or an edit since it began, which MARK_SAVED overlooks.       *)
(***************************************************************************)
StoredWhenSaved ==
    ~dirty /\ Quiet /\ template.id # NoRow /\ ~mixed =>
        rows[template.id] = [name |-> template.name, content |-> elements]

(***************************************************************************)
(* However often a new template is saved and renamed, it makes one row,    *)
(* unless saves overlapped or the id of a created row did not come back.   *)
(***************************************************************************)
OneRow ==
    ~split => \A r, s \in Saves : rows[r] # NoRow /\ rows[s] # NoRow => r = s
=============================================================================
