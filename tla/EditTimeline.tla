---------------------------- MODULE EditTimeline -----------------------------
(***************************************************************************)
(* What undo and redo promise: the values a document has had form one      *)
(* line, undo and redo move along it, and an edit cuts off what lies ahead *)
(* and appends.  The line forgets its oldest value when it is full, and    *)
(* nothing else.                                                           *)
(***************************************************************************)
EXTENDS Naturals, Sequences

CONSTANTS Values, Max          \* how many steps back are kept

VARIABLES
    line,                      \* the values, oldest first
    at                         \* which of them the document has

Kept(s) == IF Len(s) > Max + 1 THEN Tail(s) ELSE s

Init == \E v \in Values : line = <<v>> /\ at = 1

Do(v) ==
    /\ line' = Kept(Append(SubSeq(line, 1, at), v))
    /\ at' = Len(line')

Undo == at > 1 /\ at' = at - 1 /\ UNCHANGED line
Redo == at < Len(line) /\ at' = at + 1 /\ UNCHANGED line

Next == Undo \/ Redo \/ \E v \in Values : Do(v)

Spec == Init /\ [][Next]_<<line, at>>
=============================================================================
