--------------------------- MODULE TemplateContext ---------------------------
(***************************************************************************)
(* The reducer of the template editor: the elements on the page, their     *)
(* selection, the clipboard, the undo and redo stacks and the dirty flag.  *)
(*                                                                         *)
(* An action is one dispatch, with the conditions under which the editor's *)
(* handlers dispatch it.  An element is its id and a look, which stands    *)
(* for its position, size, stacking order and properties; snapping and     *)
(* clamping choose the look, so an action that moves or changes elements   *)
(* may give them any.  A page is a function from ids: Gone is no element   *)
(* of that id.  Of the selected ids only the order is left out, so which   *)
(* of them becomes the primary one when another is taken away is open.     *)
(* The clipboard holds copies; how many is all that pasting shows of them. *)
(*                                                                         *)
(* A definition named Def_Bug is Def with a bug seeded; no specification   *)
(* uses it.                                                                *)
(***************************************************************************)
EXTENDS Naturals, Sequences, FiniteSets

CONSTANTS
    Ids,                \* of elements
    Looks,
    TemplateIds,        \* of rows of the document service
    Names,
    MaxHistory,         \* MAX_HISTORY
    Gone, NoId, NoRow, NoName

VARIABLES
    elements,
    selected, primary,  \* selectedElementIds, selectedElementId
    clipboard,
    history, future,
    template,           \* id and name of the template
    dirty               \* isDirty

stacks == <<history, future>>
selection == <<selected, primary>>
contextVars == <<elements, selected, primary, clipboard, history, future, template, dirty>>

-----------------------------------------------------------------------------
Pages == [Ids -> Looks \cup {Gone}]
Template == [id : TemplateIds \cup {NoRow}, name : Names \cup {NoName}]

ASSUME ContextAssumption ==
    /\ MaxHistory \in Nat \ {0}
    /\ Gone \notin Looks /\ NoId \notin Ids /\ NoRow \notin TemplateIds /\ NoName \notin Names

OnPage == {i \in Ids : elements[i] # Gone}

\* The keyboard's ids: the selection, or the primary element alone.
Targets == IF selected # {} THEN selected ELSE {primary} \ {NoId}

With(page, changed) == [i \in Ids |-> IF i \in DOMAIN changed THEN changed[i] ELSE page[i]]
Without(page, ids) == [i \in Ids |-> IF i \in ids THEN Gone ELSE page[i]]

-----------------------------------------------------------------------------
Shifted_Kept(s) == s
Shifted(s) == IF Len(s) > MaxHistory THEN Tail(s) ELSE s

\* The page's next content, the present one pushed: also when the two are the same.
Edit(page) ==
    /\ elements' = page
    /\ history' = Shifted(Append(history, elements))
    /\ future' = <<>>
    /\ dirty' = TRUE

Select(i) ==
    /\ selected' = {i} \ {NoId}
    /\ primary' = i

AddElement ==
    \E i \in Ids \ OnPage, look \in Looks :
        /\ Edit([elements EXCEPT ![i] = look])
        /\ Select(i)
        /\ UNCHANGED <<clipboard, template>>

\* A drop, a resize step or the properties panel.  The element may be gone by then.
UpdateElement(i) ==
    /\ i \in OnPage
    /\ \E look \in Looks : Edit([elements EXCEPT ![i] = look])
    /\ UNCHANGED <<selection, clipboard, template>>

\* The delete key with one element selected, or the button of the panel.
RemoveElement(i) ==
    /\ i \in OnPage
    /\ Targets = {i} \/ primary = i
    /\ Edit(Without(elements, {i}))
    /\ selected' = selected \ {i}
    /\ primary' = IF primary = i THEN NoId ELSE primary
    /\ UNCHANGED <<clipboard, template>>

RemoveElements ==
    /\ Cardinality(Targets) > 1
    /\ Edit(Without(elements, Targets))
    /\ Select(NoId)
    /\ UNCHANGED <<clipboard, template>>

NudgeElements ==
    /\ Targets # {}
    /\ \E looks \in [Targets \cap OnPage -> Looks] : Edit(With(elements, looks))
    /\ UNCHANGED <<selection, clipboard, template>>

CopyElements ==
    /\ Targets # {}
    /\ clipboard' = Targets \cap OnPage
    /\ UNCHANGED <<elements, selection, stacks, template, dirty>>

\* Each copy gets an id nobody has (a random UUID).
PasteElements ==
    /\ clipboard # {}
    /\ \E new \in SUBSET (Ids \ OnPage) :
        /\ Cardinality(new) = Cardinality(clipboard)
        /\ \E looks \in [new -> Looks] : Edit(With(elements, looks))
        /\ selected' = new
        /\ primary' \in new
    /\ UNCHANGED <<clipboard, template>>

-----------------------------------------------------------------------------
SelectElement ==
    /\ \E i \in OnPage \cup {NoId} : Select(i)
    /\ UNCHANGED <<elements, clipboard, stacks, template, dirty>>

ToggleSelectElement(i) ==
    /\ i \in OnPage
    /\ \/ /\ i \notin selected
          /\ selected' = selected \cup {i} /\ primary' = i
       \/ /\ i \in selected
          /\ selected' = selected \ {i}
          /\ primary' \in IF selected = {i} THEN {NoId} ELSE selected \ {i}
    /\ UNCHANGED <<elements, clipboard, stacks, template, dirty>>

SelectAll ==
    /\ selected' = OnPage
    /\ primary' \in IF OnPage = {} THEN {NoId} ELSE OnPage
    /\ UNCHANGED <<elements, clipboard, stacks, template, dirty>>

-----------------------------------------------------------------------------
FirstOnes(s) == SubSeq(s, 1, IF Len(s) < MaxHistory THEN Len(s) ELSE MaxHistory)
LastOnes(s) == IF Len(s) > MaxHistory THEN SubSeq(s, Len(s) - MaxHistory + 1, Len(s)) ELSE s

Undo_Selected ==
    /\ history # <<>>
    /\ elements' = history[Len(history)]
    /\ history' = SubSeq(history, 1, Len(history) - 1)
    /\ future' = FirstOnes(<<elements>> \o future)
    /\ dirty' = TRUE
    /\ UNCHANGED <<selection, clipboard, template>>

Undo ==
    /\ history # <<>>
    /\ elements' = history[Len(history)]
    /\ history' = SubSeq(history, 1, Len(history) - 1)
    /\ future' = FirstOnes(<<elements>> \o future)
    /\ dirty' = TRUE
    /\ Select(NoId)
    /\ UNCHANGED <<clipboard, template>>

Redo_Forgetting ==
    /\ future # <<>>
    /\ elements' = Head(future)
    /\ future' = Tail(future)
    /\ history' = history
    /\ dirty' = TRUE
    /\ Select(NoId)
    /\ UNCHANGED <<clipboard, template>>

Redo ==
    /\ future # <<>>
    /\ elements' = Head(future)
    /\ future' = Tail(future)
    /\ history' = LastOnes(Append(history, elements))
    /\ dirty' = TRUE
    /\ Select(NoId)
    /\ UNCHANGED <<clipboard, template>>

SetName(name) ==
    /\ template' = [template EXCEPT !.name = name]
    /\ dirty' = TRUE
    /\ UNCHANGED <<elements, selection, clipboard, stacks>>

MarkSaved_KeepsId(id) ==
    /\ dirty' = FALSE
    /\ UNCHANGED <<elements, selection, clipboard, stacks, template>>

MarkSaved(id) ==
    /\ template' = [template EXCEPT !.id = id]
    /\ dirty' = FALSE
    /\ UNCHANGED <<elements, selection, clipboard, stacks>>

-----------------------------------------------------------------------------
\* The initial state of the provider: an empty page, or the template it was given.
ContextInit(page, tpl) ==
    /\ elements = page
    /\ template = tpl
    /\ selected = {} /\ primary = NoId /\ clipboard = {}
    /\ history = <<>> /\ future = <<>>
    /\ dirty = FALSE

\* What changes the template, and what does not.
Edits ==
    \/ AddElement \/ RemoveElements \/ NudgeElements \/ PasteElements \/ Undo \/ Redo
    \/ \E i \in Ids : UpdateElement(i) \/ RemoveElement(i)
    \/ \E name \in Names \cup {NoName} : SetName(name)

Selects ==
    CopyElements \/ SelectElement \/ SelectAll \/ \E i \in Ids : ToggleSelectElement(i)

ContextTypeOK ==
    /\ elements \in Pages
    /\ selected \subseteq Ids /\ primary \in Ids \cup {NoId} /\ clipboard \subseteq Ids
    /\ history \in Seq(Pages) /\ future \in Seq(Pages)
    /\ Len(history) + Len(future) \leq MaxHistory
    /\ template \in Template
    /\ dirty \in BOOLEAN

(***************************************************************************)
(* The two stacks around the page are one line of pages: an undo followed  *)
(* by a redo comes back, no page is lost but those an edit overtakes and   *)
(* the oldest of a full history, and the slices of the reducer never cut.  *)
(***************************************************************************)
Line == INSTANCE EditTimeline WITH
            Values <- Pages, Max <- MaxHistory,
            line <- history \o <<elements>> \o future,
            at <- Len(history) + 1
Timeline == Line!Spec

(***************************************************************************)
(* What is selected is on the page, whatever was removed, pasted, undone   *)
(* or redone since, and the element of the properties panel is one of the  *)
(* selected.  The delete key and the panel rely on it.                     *)
(***************************************************************************)
SelectionOnPage ==
    /\ selected \subseteq OnPage
    /\ primary \in selected \cup {NoId}
=============================================================================
