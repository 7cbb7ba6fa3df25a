-------------------------- MODULE MCTemplateEditor ---------------------------
EXTENDS TemplateEditor, CanvasGeometry, TLC

Symmetry == Permutations(Ids)

\* Once saves begin: no selection and one step of history, since no save reads them.
SavesByThemselves ==
    (\E s \in Saves : call[s].pc # "idle") =>
        /\ selected = {} /\ primary = NoId /\ clipboard = {}
        /\ Len(history) + Len(future) \leq 1

\* Off the grid and on it, outside the page and wider than it.
Tenths == (-7)..30 \cup {78, 80, 85, 98, 100, 112, 198, 200, 205}

\* Of the geometry, that it does what it claims for these lengths.
ASSUME GeometryChecked == PlacedValid /\ EngineAgrees /\ Settles /\ OtherEndStays
=============================================================================
