------------------------ MODULE CanvasGeometryProofs -------------------------
(***************************************************************************)
(* The placing of elements, for all lengths.                               *)
(***************************************************************************)
EXTENDS CanvasGeometry, TLAPS

\* Rounding lands on the grid, a quarter of a millimetre away at most.
LEMMA SnapNear ==
    ASSUME NEW v \in Int
    PROVE  /\ SnapToGrid(v) \in Int
           /\ SnapToGrid(v) - 2 <= v /\ v <= SnapToGrid(v) + 2
           /\ \E k \in Int : SnapToGrid(v) = 5 * k
<1> DEFINE k == (2 * v + 5) \div 10
<1>1. k \in Int
  OBVIOUS
<1>2. 10 * k <= 2 * v + 5 /\ 2 * v + 5 < 10 * k + 10
  OBVIOUS
<1>3. SnapToGrid(v) = 5 * k
  BY DEF SnapToGrid
<1> HIDE DEF k
<1> QED BY <1>1, <1>2, <1>3

\* What is on the grid is left alone.
LEMMA SnapOnGrid ==
    ASSUME NEW k \in Int
    PROVE  SnapToGrid(5 * k) = 5 * k
<1>1. (2 * (5 * k) + 5) \div 10 = k
  OBVIOUS
<1> QED BY <1>1 DEF SnapToGrid

\* Rounding half away from zero and half up only part below zero, and stay there.
LEMMA RoundingsAgree ==
    ASSUME NEW v \in Int
    PROVE  /\ SnapCoordinate(v) \in Int
           /\ v >= 0 => SnapCoordinate(v) = SnapToGrid(v)
           /\ v < 0 => SnapCoordinate(v) <= 0 /\ SnapToGrid(v) <= 0
<1>1. CASE v >= 0
  BY <1>1, SnapNear DEF SnapCoordinate
<1>2. CASE v < 0
  <2>1. SnapToGrid(v) <= 0
    <3>1. PICK k \in Int : SnapToGrid(v) = 5 * k
      BY SnapNear
    <3> QED BY <1>2, <3>1, SnapNear
  <2>2. -v \in Int /\ SnapToGrid(-v) \in Int /\ SnapToGrid(-v) >= 0
    <3> DEFINE w == -v
    <3>1. w \in Int /\ w > 0
      BY <1>2
    <3> HIDE DEF w
    <3>2. w <= SnapToGrid(w) + 2
      BY <3>1, SnapNear
    <3>3. PICK k \in Int : SnapToGrid(w) = 5 * k
      BY <3>1, SnapNear
    <3>4. SnapToGrid(w) \in Int /\ SnapToGrid(w) >= 0
      BY <3>1, <3>2, <3>3
    <3> QED BY <3>1, <3>4 DEF w
  <2>3. SnapCoordinate(v) = -SnapToGrid(-v)
    BY <1>2 DEF SnapCoordinate
  <2> QED BY <1>2, <2>1, <2>2, <2>3
<1> QED BY <1>1, <1>2

\* The two clamps are one function of a position.
LEMMA ClampsAgree ==
    ASSUME NEW at \in Int, NEW size \in Int, NEW area \in Int, size >= 0
    PROVE  ClampElementBounds(at, size, area) = ClampPosition(at, size, area)
BY DEF ClampElementBounds, ClampPosition, Larger, Smaller

\* What there is to place, in integers.
LEMMA Given ==
    /\ \A e \in Elements : e.at \in Int /\ e.size \in Int
    /\ \A min \in Minimums : min \in Int /\ min >= 0
    /\ \A area \in Areas : area \in Int
    /\ \A d \in Lengths : d \in Int
<1>1. \A e \in Elements : e.at \in Lengths /\ e.size \in Lengths
  BY DEF Elements
<1>2. \A min \in Minimums : min \in Int /\ min >= 0
  BY DEF Minimums
<1> QED BY <1>1, <1>2, GeometryAssumption

\* What placing an element makes of it.
LEMMA Placed ==
    ASSUME NEW e, e.at \in Int, e.size \in Int, NEW min \in Int, NEW area \in Int
    PROVE  LET p == ApplySnappingAndClamping(e, min, area) IN
           /\ p = [at |-> p.at, size |-> p.size]
           /\ p.size = Larger(e.size, min) /\ p.size \in Int
           /\ p.at = Larger(0, Smaller(SnapToGrid(e.at), area - p.size)) /\ p.at \in Int
<1>1. min \in Int
  OBVIOUS
<1>2. SnapToGrid(e.at) \in Int
  BY SnapNear
<1> QED BY <1>1, <1>2 DEF ApplySnappingAndClamping, ClampPosition, EnforceMinimumSize, Larger, Smaller

-----------------------------------------------------------------------------
(***************************************************************************)
(* For all lengths: a placed element passes the engine's validation of     *)
(* sizes, and of bounds where the print area can hold it.                  *)
(***************************************************************************)
THEOREM PlacedIsValid == PlacedValid
<1> SUFFICES ASSUME NEW e \in Elements, NEW min \in Minimums, NEW area \in Areas
             PROVE  LET p == ApplySnappingAndClamping(e, min, area) IN
                    /\ ValidMinSize(p, min)
                    /\ IF p.size <= area THEN ValidBounds(p, area) ELSE p.at = 0
  BY DEF PlacedValid
<1> DEFINE p == ApplySnappingAndClamping(e, min, area)
<1>1. e.at \in Int /\ e.size \in Int /\ min \in Int /\ area \in Int
  BY Given
<1>2. /\ p.size = Larger(e.size, min) /\ p.size \in Int
      /\ p.at = Larger(0, Smaller(SnapToGrid(e.at), area - p.size)) /\ p.at \in Int
  BY <1>1, Placed
<1>3. SnapToGrid(e.at) \in Int
  BY <1>1, SnapNear
<1> HIDE DEF p
<1>4. ValidMinSize(p, min)
  BY <1>1, <1>2 DEF ValidMinSize, Larger
<1>5. IF p.size <= area THEN ValidBounds(p, area) ELSE p.at = 0
  BY <1>1, <1>2, <1>3 DEF ValidBounds, Larger, Smaller
<1> QED BY <1>4, <1>5 DEF p

(***************************************************************************)
(* For all lengths: the engine's snapping and clamping agrees with the     *)
(* editor's on elements whose size is valid and on the grid.               *)
(***************************************************************************)
THEOREM EngineIsTheSame == EngineAgrees
<1> SUFFICES ASSUME NEW e \in Elements, NEW min \in Minimums, NEW area \in Areas,
                    ValidMinSize(e, min), SnapToGrid(e.size) = e.size
             PROVE  SnapAndClampElement(e, area) = ApplySnappingAndClamping(e, min, area)
  BY DEF EngineAgrees
<1>1. e.at \in Int /\ e.size \in Int /\ min \in Int /\ min >= 0 /\ area \in Int
  BY Given
<1>2. e.size >= 0 /\ SnapCoordinate(e.size) = e.size /\ EnforceMinimumSize(e.size, min) = e.size
  BY <1>1, RoundingsAgree DEF ValidMinSize, EnforceMinimumSize, Larger
<1>3. ClampElementBounds(SnapCoordinate(e.at), e.size, area)
        = ClampPosition(SnapToGrid(e.at), e.size, area)
  <2>1. SnapCoordinate(e.at) \in Int /\ SnapToGrid(e.at) \in Int
    BY <1>1, SnapNear, RoundingsAgree
  <2>2. ClampElementBounds(SnapCoordinate(e.at), e.size, area)
          = ClampPosition(SnapCoordinate(e.at), e.size, area)
    BY <1>1, <1>2, <2>1, ClampsAgree
  <2>3. CASE e.at >= 0
    BY <1>1, <2>2, <2>3, RoundingsAgree
  <2>4. CASE e.at < 0
    <3>1. SnapCoordinate(e.at) <= 0 /\ SnapToGrid(e.at) <= 0
      BY <1>1, <2>4, RoundingsAgree
    <3> QED BY <1>1, <2>1, <2>2, <3>1 DEF ClampPosition, Larger, Smaller
  <2> QED BY <1>1, <2>3, <2>4
<1> QED BY <1>2, <1>3 DEF SnapAndClampElement, ApplySnappingAndClamping

(***************************************************************************)
(* For all lengths: an element that is placed again moves by less than a   *)
(* quarter of a millimetre, towards the start, and then no more.           *)
(***************************************************************************)
THEOREM PlacingSettles == Settles
<1> SUFFICES ASSUME NEW e \in Elements, NEW min \in Minimums, NEW area \in Areas
             PROVE  LET once == ApplySnappingAndClamping(e, min, area)
                        twice == ApplySnappingAndClamping(once, min, area)
                    IN  /\ twice.at \in (once.at - 2)..once.at
                        /\ ApplySnappingAndClamping(twice, min, area) = twice
  BY DEF Settles
<1> DEFINE once == ApplySnappingAndClamping(e, min, area)
           twice == ApplySnappingAndClamping(once, min, area)
           thrice == ApplySnappingAndClamping(twice, min, area)
<1>1. e.at \in Int /\ e.size \in Int /\ min \in Int /\ area \in Int
  BY Given
<1>2. /\ once = [at |-> once.at, size |-> once.size]
      /\ once.size = Larger(e.size, min) /\ once.size \in Int
      /\ once.at = Larger(0, Smaller(SnapToGrid(e.at), area - once.size)) /\ once.at \in Int
  BY <1>1, Placed
<1> HIDE DEF once
<1>3. /\ twice = [at |-> twice.at, size |-> twice.size]
      /\ twice.size = Larger(once.size, min) /\ twice.size \in Int
      /\ twice.at = Larger(0, Smaller(SnapToGrid(once.at), area - twice.size)) /\ twice.at \in Int
  BY <1>1, <1>2, Placed
<1> HIDE DEF twice
<1>4. /\ thrice = [at |-> thrice.at, size |-> thrice.size]
      /\ thrice.size = Larger(twice.size, min) /\ thrice.size \in Int
      /\ thrice.at = Larger(0, Smaller(SnapToGrid(twice.at), area - thrice.size)) /\ thrice.at \in Int
  BY <1>1, <1>3, Placed
<1> HIDE DEF thrice
<1>5. once.size = twice.size /\ twice.size = thrice.size
  BY <1>1, <1>2, <1>3, <1>4 DEF Larger
\* Placing leaves what it finds at the margin or on the grid within the page.
<1>6. \A a \in Int : SnapToGrid(a) = a => /\ SnapToGrid(Larger(0, a)) = Larger(0, a)
  <2>1. SnapToGrid(0) = 0
    BY SnapOnGrid
  <2> QED BY <2>1 DEF Larger
<1>7. SnapToGrid(once.at) \in Int /\ SnapToGrid(once.at) - 2 <= once.at /\ once.at <= SnapToGrid(once.at) + 2
  BY <1>2, SnapNear
<1>8. SnapToGrid(SnapToGrid(once.at)) = SnapToGrid(once.at)
  <2>1. PICK k \in Int : SnapToGrid(once.at) = 5 * k
    BY <1>2, SnapNear
  <2> QED BY <2>1, SnapOnGrid
<1>9. twice.at = once.at \/ (twice.at = SnapToGrid(once.at) /\ twice.at <= once.at)
  <2>1. CASE once.at = 0
    <3>1. SnapToGrid(once.at) = 0
      BY <2>1, SnapOnGrid
    <3> QED BY <1>1, <1>3, <1>5, <2>1, <3>1 DEF Larger, Smaller
  <2>2. CASE once.at # 0
    <3>1. once.at > 0 /\ once.at <= area - once.size
      BY <1>1, <1>2, <2>2, SnapNear DEF Larger, Smaller
    <3>2. SnapToGrid(once.at) >= 0
      <4>1. PICK k \in Int : SnapToGrid(once.at) = 5 * k
        BY <1>2, SnapNear
      <4>2. SnapToGrid(once.at) > -5
        BY <1>2, <1>7, <3>1
      <4> QED BY <4>1, <4>2
    <3>3. twice.at = SnapToGrid(once.at) \/ twice.at = area - once.size
      BY <1>1, <1>2, <1>3, <1>5, <1>7, <3>1, <3>2 DEF Larger, Smaller
    <3>4. once.at = area - once.size \/ once.at = SnapToGrid(e.at)
      BY <1>1, <1>2, <2>2, SnapNear DEF Larger, Smaller
    <3>5. CASE once.at = area - once.size
      BY <1>1, <1>2, <1>3, <1>5, <1>7, <3>1, <3>2, <3>5 DEF Larger, Smaller
    <3>6. CASE once.at = SnapToGrid(e.at)
      <4>1. SnapToGrid(once.at) = once.at
        <5>1. PICK k \in Int : SnapToGrid(e.at) = 5 * k
          BY <1>1, SnapNear
        <5> QED BY <3>6, <5>1, SnapOnGrid
      <4> QED BY <1>1, <1>2, <1>3, <1>5, <3>1, <4>1 DEF Larger, Smaller
    <3> QED BY <3>4, <3>5, <3>6
  <2> QED BY <2>1, <2>2
<1>10. twice.at \in (once.at - 2)..once.at
  BY <1>2, <1>3, <1>7, <1>9
<1>11. thrice.at = twice.at
  <2>1. CASE twice.at = once.at
    BY <1>3, <1>4, <1>5, <2>1
  <2>2. CASE twice.at = SnapToGrid(once.at)
    <3>1. SnapToGrid(twice.at) = twice.at
      BY <1>8, <2>2
    <3> QED BY <1>1, <1>2, <1>3, <1>4, <1>5, <1>7, <3>1 DEF Larger, Smaller
  <2> QED BY <1>9, <2>1, <2>2
<1>12. thrice = twice
  BY <1>3, <1>4, <1>5, <1>11
<1> QED BY <1>10, <1>12 DEF once, twice, thrice

(***************************************************************************)
(* For all lengths: resizing at one end leaves the other in its place, to  *)
(* a quarter of a millimetre.                                              *)
(***************************************************************************)
THEOREM ResizingIsLocal == OtherEndStays
<1> SUFFICES ASSUME NEW e \in Elements, NEW d \in Lengths, NEW min \in Minimums, NEW area \in Areas,
                    ValidBounds(e, area), ValidMinSize(e, min)
             PROVE  LET s == ResizeStart(e, d, min)
                        t == ResizeEnd(e, d, min)
                        p == ApplySnappingAndClamping(s, min, area)
                        q == ApplySnappingAndClamping(t, min, area)
                    IN  /\ IF s.at >= 0 THEN End(p) \in (End(e) - 2)..(End(e) + 2)
                                        ELSE p.at = 0 /\ End(p) >= End(e)
                        /\ IF End(t) <= area THEN q.at \in (e.at - 2)..(e.at + 2)
                                             ELSE q.at <= e.at /\ End(q) >= area - 2
  BY DEF OtherEndStays
<1> DEFINE s == ResizeStart(e, d, min)
           t == ResizeEnd(e, d, min)
           p == ApplySnappingAndClamping(s, min, area)
           q == ApplySnappingAndClamping(t, min, area)
<1>1. e.at \in Int /\ e.size \in Int /\ d \in Int /\ min \in Int /\ min >= 0 /\ area \in Int
  BY Given
<1>2. e.at >= 0 /\ e.at + e.size <= area /\ e.size >= min
  BY DEF ValidBounds, ValidMinSize
<1>3. /\ s = [at |-> s.at, size |-> s.size] /\ s.at \in Int /\ s.size \in Int
      /\ s.at + s.size = e.at + e.size /\ s.size >= min
  BY <1>1, <1>2 DEF ResizeStart
<1>4. /\ t = [at |-> t.at, size |-> t.size] /\ t.at = e.at /\ t.size \in Int /\ t.size >= min
  BY <1>1, <1>2 DEF ResizeEnd, EnforceMinimumSize, Larger
<1> HIDE DEF s, t
<1>5. /\ p.size = s.size /\ p.at \in Int
      /\ p.at = Larger(0, Smaller(SnapToGrid(s.at), area - s.size))
  BY <1>1, <1>3, Placed DEF Larger
<1>6. /\ q.size = t.size /\ q.at \in Int
      /\ q.at = Larger(0, Smaller(SnapToGrid(t.at), area - t.size))
  BY <1>1, <1>4, Placed DEF Larger
<1> HIDE DEF p, q
<1>7. /\ SnapToGrid(s.at) \in Int /\ SnapToGrid(s.at) - 2 <= s.at /\ s.at <= SnapToGrid(s.at) + 2
      /\ SnapToGrid(t.at) \in Int /\ SnapToGrid(t.at) - 2 <= t.at /\ t.at <= SnapToGrid(t.at) + 2
  BY <1>1, <1>3, <1>4, SnapNear
<1>8. ASSUME s.at >= 0 PROVE End(p) \in (End(e) - 2)..(End(e) + 2)
  BY <1>1, <1>2, <1>3, <1>5, <1>7, <1>8 DEF End, Larger, Smaller
<1>9. ASSUME s.at < 0 PROVE p.at = 0 /\ End(p) >= End(e)
  <2>1. SnapToGrid(s.at) <= 0
    <3>1. PICK k \in Int : SnapToGrid(s.at) = 5 * k
      BY <1>3, SnapNear
    <3> QED BY <1>3, <1>7, <1>9, <3>1
  <2> QED BY <1>1, <1>2, <1>3, <1>5, <1>7, <1>9, <2>1 DEF End, Larger, Smaller
<1>10. ASSUME End(t) <= area PROVE q.at \in (e.at - 2)..(e.at + 2)
  BY <1>1, <1>2, <1>4, <1>6, <1>7, <1>10 DEF End, Larger, Smaller
<1>11. ASSUME End(t) > area PROVE q.at <= e.at /\ End(q) >= area - 2
  BY <1>1, <1>2, <1>4, <1>6, <1>7, <1>11 DEF End, Larger, Smaller
<1>12. End(t) \in Int
  BY <1>1, <1>4 DEF End
<1> QED BY <1>1, <1>3, <1>8, <1>9, <1>10, <1>11, <1>12 DEF s, t, p, q
=============================================================================
