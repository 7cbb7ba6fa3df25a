--------------------------- MODULE CanvasGeometry ----------------------------
(***************************************************************************)
(* Where the editor puts an element, and what the document engine would    *)
(* say of it.  The two axes are alike and independent: an element is its   *)
(* start and its size along one of them, the print area the length of the  *)
(* page between its margins.  Lengths are tenths of a millimetre, and the  *)
(* grid is half a millimetre.                                              *)
(***************************************************************************)
EXTENDS Integers

CONSTANTS
    Lengths,        \* what dragging, resizing and typing may ask for
    Areas           \* lengths of the print area

ASSUME GeometryAssumption == Lengths \subseteq Int /\ Areas \subseteq Int

\* MINIMUM_SIZES: width and height of a barcode, a QR code, anything else.
Minimums == {200, 80, 100, 20}

Larger(a, b) == IF a < b THEN b ELSE a
Smaller(a, b) == IF a < b THEN a ELSE b

-----------------------------------------------------------------------------
(***************************************************************************)
(* The editor, in TypeScript.                                              *)
(***************************************************************************)
\* Math.round: half up.
SnapToGrid(v) == 5 * ((2 * v + 5) \div 10)

EnforceMinimumSize(size, min) == Larger(size, min)

ClampPosition(at, size, area) == Larger(0, Smaller(at, area - size))

ApplySnappingAndClamping(e, min, area) ==
    LET size == EnforceMinimumSize(e.size, min) IN
    [at |-> ClampPosition(SnapToGrid(e.at), size, area), size |-> size]

\* A step of a resize by d: the handle at the element's start or the one at its end.
ResizeStart(e, d, min) ==
    IF e.size - d < min THEN [at |-> e.at + e.size - min, size |-> min]
                        ELSE [at |-> e.at + d, size |-> e.size - d]

ResizeEnd(e, d, min) == [at |-> e.at, size |-> EnforceMinimumSize(e.size + d, min)]

-----------------------------------------------------------------------------
(***************************************************************************)
(* The engine, in Go.                                                      *)
(***************************************************************************)
\* math.Round: half away from zero.
SnapCoordinate(v) == IF v < 0 THEN -SnapToGrid(-v) ELSE SnapToGrid(v)

ClampElementBounds(at, size, area) ==
    LET start == Larger(at, 0) IN
    Larger(IF start + size > area THEN area - size ELSE start, 0)

SnapAndClampElement(e, area) ==
    LET size == SnapCoordinate(e.size) IN
    [at |-> ClampElementBounds(SnapCoordinate(e.at), size, area), size |-> size]

ValidBounds(e, area) == e.at >= 0 /\ e.at + e.size <= area
ValidMinSize(e, min) == e.size >= min

-----------------------------------------------------------------------------
Elements == [at : Lengths, size : Lengths]
End(e) == e.at + e.size

(***************************************************************************)
(* Whatever is asked for, the element passes the engine's validation of    *)
(* sizes, and of bounds if the print area can hold it; if not, it starts   *)
(* at the margin.                                                          *)
(***************************************************************************)
PlacedValid ==
    \A e \in Elements, min \in Minimums, area \in Areas :
        LET p == ApplySnappingAndClamping(e, min, area) IN
        /\ ValidMinSize(p, min)
        /\ IF p.size <= area THEN ValidBounds(p, area) ELSE p.at = 0

(***************************************************************************)
(* The editor and the engine round and clamp differently and put an        *)
(* element of a valid size on the grid in the same place.                  *)
(***************************************************************************)
EngineAgrees ==
    \A e \in Elements, min \in Minimums, area \in Areas :
        ValidMinSize(e, min) /\ SnapToGrid(e.size) = e.size =>
            SnapAndClampElement(e, area) = ApplySnappingAndClamping(e, min, area)

(***************************************************************************)
(* Every change of an element snaps and clamps it again, also a change of  *)
(* its text.  One that was clamped to the end of the page may be off the   *)
(* grid and move, but once and by less than a quarter of a millimetre,     *)
(* towards the start.                                                      *)
(***************************************************************************)
Settles ==
    \A e \in Elements, min \in Minimums, area \in Areas :
        LET once == ApplySnappingAndClamping(e, min, area)
            twice == ApplySnappingAndClamping(once, min, area)
        IN  /\ twice.at \in (once.at - 2)..once.at
            /\ ApplySnappingAndClamping(twice, min, area) = twice

(***************************************************************************)
(* Resizing at one end leaves the other where it was, to a quarter of a    *)
(* millimetre, also against the minimum size.  Only pulling an end out of  *)
(* the page pushes the other end away.                                     *)
(***************************************************************************)
OtherEndStays ==
    \A e \in Elements, d \in Lengths, min \in Minimums, area \in Areas :
        LET s == ResizeStart(e, d, min)
            t == ResizeEnd(e, d, min)
            p == ApplySnappingAndClamping(s, min, area)
            q == ApplySnappingAndClamping(t, min, area)
        IN  ValidBounds(e, area) /\ ValidMinSize(e, min) =>
                /\ IF s.at >= 0 THEN End(p) \in (End(e) - 2)..(End(e) + 2)
                                ELSE p.at = 0 /\ End(p) >= End(e)
                /\ IF End(t) <= area THEN q.at \in (e.at - 2)..(e.at + 2)
                                     ELSE q.at <= e.at /\ End(q) >= area - 2
=============================================================================
