------------------------ MODULE TemplateEditorProofs -------------------------
(***************************************************************************)
(* Proofs about the template editor, for every number of elements, looks,  *)
(* names and saves and every length of the history.                        *)
(***************************************************************************)
EXTENDS TemplateEditor, SequenceTheorems, TLAPS

-----------------------------------------------------------------------------
(* Two stacks around a value, as one sequence. *)

Around(h, e, f) == h \o <<e>> \o f

\* The values of the line, place by place.
LEMMA AroundAt ==
    ASSUME NEW S, NEW h \in Seq(S), NEW e \in S, NEW f \in Seq(S)
    PROVE  /\ Around(h, e, f) \in Seq(S)
           /\ Len(Around(h, e, f)) = Len(h) + 1 + Len(f)
           /\ \A i \in 1 .. Len(h) : Around(h, e, f)[i] = h[i]
           /\ Around(h, e, f)[Len(h) + 1] = e
           /\ \A i \in 1 .. Len(f) : Around(h, e, f)[Len(h) + 1 + i] = f[i]
<1>1. <<e>> \in Seq(S) /\ Len(<<e>>) = 1 /\ <<e>>[1] = e
  OBVIOUS
<1>2. /\ h \o <<e>> \in Seq(S)
      /\ Len(h \o <<e>>) = Len(h) + 1
      /\ \A i \in 1 .. Len(h) + 1 :
            (h \o <<e>>)[i] = IF i <= Len(h) THEN h[i] ELSE <<e>>[i - Len(h)]
  BY <1>1, ConcatProperties
<1>3. /\ Around(h, e, f) \in Seq(S)
      /\ Len(Around(h, e, f)) = Len(h) + 1 + Len(f)
      /\ \A i \in 1 .. Len(h) + 1 + Len(f) :
            Around(h, e, f)[i] = IF i <= Len(h) + 1 THEN (h \o <<e>>)[i] ELSE f[i - (Len(h) + 1)]
  BY <1>2, ConcatProperties DEF Around
<1>4. Len(h) \in Nat /\ Len(f) \in Nat
  BY LenProperties
<1>5. ASSUME NEW i \in 1 .. Len(h) PROVE Around(h, e, f)[i] = h[i]
  BY <1>2, <1>3, <1>4
<1>6. Around(h, e, f)[Len(h) + 1] = e
  BY <1>1, <1>2, <1>3, <1>4
<1>7. ASSUME NEW i \in 1 .. Len(f) PROVE Around(h, e, f)[Len(h) + 1 + i] = f[i]
  <2>1. /\ Len(h) + 1 + i \in 1 .. Len(h) + 1 + Len(f)
        /\ ~(Len(h) + 1 + i <= Len(h) + 1)
        /\ Len(h) + 1 + i - (Len(h) + 1) = i
    BY <1>4
  <2> QED BY <2>1, <1>3
<1> QED BY <1>3, <1>5, <1>6, <1>7

LEMMA PushAt ==
    ASSUME NEW S, NEW h \in Seq(S), NEW e \in S
    PROVE  /\ Append(h, e) \in Seq(S)
           /\ Len(Append(h, e)) = Len(h) + 1
           /\ \A i \in 1 .. Len(h) : Append(h, e)[i] = h[i]
           /\ Append(h, e)[Len(h) + 1] = e
OBVIOUS

LEMMA AroundNothing ==
    ASSUME NEW S, NEW h \in Seq(S), NEW e \in S
    PROVE  Around(h, e, <<>>) = Append(h, e)
<1>1. <<e>> \in Seq(S) /\ h \o <<e>> \in Seq(S)
  BY ConcatProperties
<1>2. Around(h, e, <<>>) = h \o <<e>>
  BY <1>1, ConcatEmptySeq DEF Around
<1> QED BY <1>2

\* The line up to the value is the first stack with the value pushed.
LEMMA AroundUpTo ==
    ASSUME NEW S, NEW h \in Seq(S), NEW e \in S, NEW f \in Seq(S)
    PROVE  SubSeq(Around(h, e, f), 1, Len(h) + 1) = Append(h, e)
<1> DEFINE line == Around(h, e, f)
           a == SubSeq(line, 1, Len(h) + 1)
           b == Append(h, e)
<1>1. Len(h) \in Nat /\ Len(f) \in Nat
  BY LenProperties
<1>2. /\ line \in Seq(S) /\ Len(line) = Len(h) + 1 + Len(f)
      /\ \A i \in 1 .. Len(h) : line[i] = h[i]
      /\ line[Len(h) + 1] = e
  BY AroundAt
<1>3. \A i \in 1 .. Len(h) + 1 : line[i] \in S
  BY <1>1, <1>2, ElementOfSeq
<1>4. /\ b \in Seq(S) /\ Len(b) = Len(h) + 1
      /\ \A i \in 1 .. Len(h) : b[i] = h[i]
      /\ b[Len(h) + 1] = e
  BY PushAt
<1> HIDE DEF line, b
<1>5. /\ a \in Seq(S) /\ Len(a) = Len(h) + 1
      /\ \A i \in 1 .. Len(h) + 1 : a[i] = line[i]
  <2>1. 1 \in Int /\ Len(h) + 1 \in Int
    BY <1>1
  <2>2. /\ a \in Seq(S)
        /\ Len(a) = IF 1 <= Len(h) + 1 THEN Len(h) + 1 - 1 + 1 ELSE 0
        /\ \A i \in 1 .. Len(h) + 1 - 1 + 1 : a[i] = line[1 + i - 1]
    BY <2>1, <1>3, SubSeqProperties
  <2> HIDE DEF a
  <2> QED BY <2>2, <1>1
<1> HIDE DEF a
<1>6. ASSUME NEW i \in 1 .. Len(a) PROVE a[i] = b[i]
  <2>1. CASE i \in 1 .. Len(h)
    BY <2>1, <1>1, <1>2, <1>4, <1>5
  <2>2. CASE i = Len(h) + 1
    <3>1. Len(h) + 1 \in 1 .. Len(h) + 1
      BY <1>1
    <3>2. a[Len(h) + 1] = line[Len(h) + 1]
      BY <3>1, <1>5
    <3>3. line[Len(h) + 1] = e
      BY <1>2
    <3>4. b[Len(h) + 1] = e
      BY <1>4
    <3> QED BY <2>2, <3>2, <3>3, <3>4
  <2> QED BY <2>1, <2>2, <1>1, <1>5
<1>7. a = b
  BY <1>4, <1>5, <1>6, SeqEqual
<1> QED BY <1>7 DEF a, b, line

\* Dropping the oldest value of the line drops it from the first stack.
LEMMA TailOfPushed ==
    ASSUME NEW S, NEW h \in Seq(S), h # <<>>, NEW v \in S
    PROVE  Tail(Append(h, v)) = Append(Tail(h), v)
<1> DEFINE a == Tail(Append(h, v))
           b == Append(Tail(h), v)
<1>1. Len(h) \in Nat \ {0}
  BY EmptySeq
<1>2. /\ Append(h, v) \in Seq(S) /\ Len(Append(h, v)) = Len(h) + 1
      /\ \A i \in 1 .. Len(h) : Append(h, v)[i] = h[i]
      /\ Append(h, v)[Len(h) + 1] = v
  BY PushAt
<1>3. Append(h, v) # <<>>
  BY <1>1, <1>2, EmptySeq
<1>4. a \in Seq(S) /\ Len(a) = Len(h)
      /\ \A i \in 1 .. Len(h) : a[i] = Append(h, v)[i + 1]
  <2>1. /\ a \in Seq(S) /\ Len(a) = Len(Append(h, v)) - 1
        /\ \A i \in 1 .. Len(a) : a[i] = Append(h, v)[i + 1]
    BY <1>2, <1>3, HeadTailProperties
  <2> HIDE DEF a
  <2> QED BY <1>1, <1>2, <2>1
<1>5. /\ Tail(h) \in Seq(S) /\ Len(Tail(h)) = Len(h) - 1
      /\ \A i \in 1 .. Len(Tail(h)) : Tail(h)[i] = h[i + 1]
  BY HeadTailProperties
<1>6. /\ b \in Seq(S) /\ Len(b) = Len(h)
      /\ \A i \in 1 .. Len(h) - 1 : b[i] = h[i + 1]
      /\ b[Len(h)] = v
  <2>1. /\ b \in Seq(S) /\ Len(b) = Len(Tail(h)) + 1
        /\ \A i \in 1 .. Len(Tail(h)) : b[i] = Tail(h)[i]
        /\ b[Len(Tail(h)) + 1] = v
    BY <1>5, PushAt
  <2> HIDE DEF b
  <2> QED BY <1>1, <1>5, <2>1
<1> HIDE DEF a, b
<1>7. ASSUME NEW i \in 1 .. Len(a) PROVE a[i] = b[i]
  <2>1. CASE i \in 1 .. Len(h) - 1
    BY <2>1, <1>1, <1>2, <1>4, <1>6
  <2>2. CASE i = Len(h)
    <3>1. Len(h) \in 1 .. Len(h)
      BY <1>1
    <3>2. a[Len(h)] = Append(h, v)[Len(h) + 1]
      BY <3>1, <1>4
    <3>3. Append(h, v)[Len(h) + 1] = v
      BY <1>2
    <3>4. b[Len(h)] = v
      BY <1>6
    <3> QED BY <2>2, <3>2, <3>3, <3>4
  <2> QED BY <2>1, <2>2, <1>1, <1>4
<1>8. a = b
  BY <1>4, <1>6, <1>7, SeqEqual
<1> QED BY <1>8 DEF a, b

\* The value pushed on the second stack and the last of the first one taken: the same line.
Shift(h, e, f, p, x, q) ==
    /\ Len(h) = Len(p) + 1 /\ (\A i \in 1 .. Len(p) : h[i] = p[i]) /\ h[Len(p) + 1] = x
    /\ Len(q) = Len(f) + 1 /\ q[1] = e /\ \A i \in 1 .. Len(f) : q[1 + i] = f[i]

LEMMA AroundShifted ==
    ASSUME NEW S, NEW h \in Seq(S), NEW e \in S, NEW f \in Seq(S),
           NEW p \in Seq(S), NEW x \in S, NEW q \in Seq(S),
           Shift(h, e, f, p, x, q)
    PROVE  Around(p, x, q) = Around(h, e, f)
<1> DEFINE a == Around(p, x, q)
           b == Around(h, e, f)
<1>1. Len(p) \in Nat /\ Len(f) \in Nat
  BY LenProperties
<1>2. a \in Seq(S) /\ Len(a) = Len(p) + 1 + Len(q)
  BY AroundAt
<1>3. \A i \in 1 .. Len(p) : a[i] = p[i]
  BY AroundAt
<1>4. a[Len(p) + 1] = x
  BY AroundAt
<1>5. \A i \in 1 .. Len(q) : a[Len(p) + 1 + i] = q[i]
  BY AroundAt
<1>6. b \in Seq(S) /\ Len(b) = Len(h) + 1 + Len(f)
  BY AroundAt
<1>7. \A i \in 1 .. Len(h) : b[i] = h[i]
  BY AroundAt
<1>8. b[Len(h) + 1] = e
  BY AroundAt
<1>9. \A i \in 1 .. Len(f) : b[Len(h) + 1 + i] = f[i]
  BY AroundAt
<1> HIDE DEF a, b
<1>l. Len(h) = Len(p) + 1 /\ Len(q) = Len(f) + 1 /\ h[Len(p) + 1] = x /\ q[1] = e
  BY DEF Shift
<1>h. \A i \in 1 .. Len(p) : h[i] = p[i]
  BY DEF Shift
<1>q. \A i \in 1 .. Len(f) : q[1 + i] = f[i]
  BY DEF Shift
<1>10. ASSUME NEW i \in 1 .. Len(a) PROVE a[i] = b[i]
  <2>1. CASE i \in 1 .. Len(p)
    BY <2>1, <1>1, <1>3, <1>7, <1>l, <1>h
  <2>2. CASE i = Len(p) + 1
    <3>1. Len(p) + 1 \in 1 .. Len(h)
      BY <1>1, <1>l
    <3>2. b[Len(p) + 1] = h[Len(p) + 1]
      BY <3>1, <1>7
    <3> QED BY <2>2, <3>2, <1>4, <1>l
  <2>3. CASE i = Len(p) + 2
    <3>1. 1 \in 1 .. Len(q)
      BY <1>1, <1>l
    <3>2. a[Len(p) + 1 + 1] = q[1]
      BY <3>1, <1>5
    <3>3. i = Len(p) + 1 + 1 /\ i = Len(h) + 1
      BY <2>3, <1>1, <1>l
    <3> QED BY <3>2, <3>3, <1>8, <1>l
  <2>4. CASE i \in Len(p) + 3 .. Len(p) + 2 + Len(f)
    <3> DEFINE k == i - (Len(p) + 2)
    <3>1. /\ k \in 1 .. Len(f) /\ 1 + k \in 1 .. Len(q)
          /\ i = Len(p) + 1 + (1 + k) /\ i = Len(h) + 1 + k
      BY <2>4, <1>1, <1>l
    <3> HIDE DEF k
    <3>2. a[i] = q[1 + k]
      BY <3>1, <1>5
    <3>3. b[i] = f[k]
      BY <3>1, <1>9
    <3> QED BY <3>1, <3>2, <3>3, <1>q
  <2> QED BY <2>1, <2>2, <2>3, <2>4, <1>1, <1>2, <1>l
<1>11. Len(a) = Len(b)
  BY <1>1, <1>2, <1>6, <1>l
<1>12. a = b
  BY <1>2, <1>6, <1>10, <1>11, SeqEqual
<1> QED BY <1>12 DEF a, b

LEMMA AroundBack ==
    ASSUME NEW S, NEW h \in Seq(S), NEW e \in S, NEW f \in Seq(S), h # <<>>
    PROVE  Around(SubSeq(h, 1, Len(h) - 1), h[Len(h)], <<e>> \o f) = Around(h, e, f)
<1>1. Len(h) \in Nat /\ Len(h) >= 1 /\ Len(f) \in Nat
  <2>1. Len(h) \in Nat \ {0} /\ Len(f) \in Nat
    BY EmptySeq, LenProperties
  <2> QED BY <2>1
<1>2. \A i \in 1 .. Len(h) : h[i] \in S
  BY ElementOfSeq
<1>3. PICK p : p = SubSeq(h, 1, Len(h) - 1)
  OBVIOUS
<1>4. p \in Seq(S) /\ Len(p) = Len(h) - 1 /\ \A i \in 1 .. Len(h) - 1 : p[i] = h[i]
  <2>1. \A i \in 1 .. Len(h) - 1 : h[i] \in S
    BY <1>1, <1>2
  <2>2. 1 \in Int /\ Len(h) - 1 \in Int
    BY <1>1
  <2>3. /\ p \in Seq(S)
        /\ Len(p) = IF 1 <= Len(h) - 1 THEN Len(h) - 1 - 1 + 1 ELSE 0
        /\ \A i \in 1 .. Len(h) - 1 - 1 + 1 : p[i] = h[1 + i - 1]
    BY <1>3, <2>1, <2>2, SubSeqProperties
  <2>4. Len(p) = Len(h) - 1
    <3> DEFINE n == Len(h)
               m == Len(p)
    <3>1. n \in Nat /\ n >= 1 /\ m = IF 1 <= n - 1 THEN n - 1 - 1 + 1 ELSE 0
      BY <1>1, <2>3
    <3>2. m = n - 1
      <4> HIDE DEF n, m
      <4> QED BY <3>1
    <3> QED BY <3>2
  <2>5. ASSUME NEW i \in 1 .. Len(h) - 1 PROVE p[i] = h[i]
    <3>1. i \in 1 .. Len(h) - 1 - 1 + 1 /\ 1 + i - 1 = i
      BY <1>1
    <3> QED BY <3>1, <2>3
  <2> QED BY <2>3, <2>4, <2>5
<1>5. PICK q : q = <<e>> \o f
  OBVIOUS
<1>6. q \in Seq(S) /\ Len(q) = 1 + Len(f) /\ q[1] = e
      /\ \A i \in 1 .. Len(f) : q[1 + i] = f[i]
  <2>1. <<e>> \in Seq(S) /\ Len(<<e>>) = 1 /\ <<e>>[1] = e
    OBVIOUS
  <2>2. /\ q \in Seq(S) /\ Len(q) = 1 + Len(f)
        /\ \A i \in 1 .. 1 + Len(f) : q[i] = IF i <= 1 THEN <<e>>[i] ELSE f[i - 1]
    BY <1>5, <2>1, ConcatProperties
  <2> QED BY <2>1, <2>2, <1>1
<1>7. PICK x \in S : x = h[Len(h)]
  BY <1>1, <1>2
<1>8. Len(h) = Len(p) + 1 /\ (\A i \in 1 .. Len(p) : h[i] = p[i]) /\ h[Len(p) + 1] = x
  BY <1>1, <1>4, <1>7
<1>9. Shift(h, e, f, p, x, q)
  BY <1>1, <1>6, <1>8 DEF Shift
<1>10. p \in Seq(S) /\ q \in Seq(S)
  BY <1>4, <1>6
<1>11. Around(p, x, q) = Around(h, e, f)
  BY <1>9, <1>10, AroundShifted
<1> QED BY <1>3, <1>5, <1>7, <1>11

\* And the way forth is the way back taken the other way.
LEMMA AroundForth ==
    ASSUME NEW S, NEW h \in Seq(S), NEW e \in S, NEW f \in Seq(S), f # <<>>
    PROVE  Around(Append(h, e), Head(f), Tail(f)) = Around(h, e, f)
<1> DEFINE g == Append(h, e)
           b == Around(SubSeq(g, 1, Len(g) - 1), g[Len(g)], <<Head(f)>> \o Tail(f))
<1>1. Head(f) \in S /\ Tail(f) \in Seq(S) /\ f = <<Head(f)>> \o Tail(f)
  BY HeadTailProperties
<1>2. g \in Seq(S) /\ Len(g) = Len(h) + 1 /\ g[Len(h) + 1] = e /\ Len(h) \in Nat
  BY PushAt, LenProperties
<1>3. g # <<>>
  BY <1>2, EmptySeq
<1>4. SubSeq(g, 1, Len(h)) = h
  OBVIOUS
<1>5. b = Around(g, Head(f), Tail(f))
  BY <1>1, <1>2, <1>3, AroundBack
<1>6. Len(g) - 1 = Len(h) /\ g[Len(g)] = e
  BY <1>2
<1>7. b = Around(h, e, f)
  BY <1>1, <1>4, <1>6
<1> QED BY <1>5, <1>7

-----------------------------------------------------------------------------
(* The reducer. *)

StacksOK ==
    /\ elements \in Pages
    /\ history \in Seq(Pages) /\ future \in Seq(Pages)
    /\ Len(history) + Len(future) <= MaxHistory

LineNext == Line!Next
LineVars == <<history \o <<elements>> \o future, Len(history) + 1>>

\* An edit pushes the page: a step of the timeline that cuts and appends.
LEMMA EditOnLine ==
    ASSUME StacksOK, NEW page \in Pages, Edit(page)
    PROVE  StacksOK' /\ LineNext
<1> DEFINE pushed == Append(history, elements)
           line == Around(history, elements, future)
           next == Append(SubSeq(line, 1, Len(history) + 1), page)
<1>1. /\ elements \in Pages /\ history \in Seq(Pages) /\ future \in Seq(Pages)
      /\ Len(history) \in Nat /\ Len(future) \in Nat /\ MaxHistory \in Nat /\ MaxHistory >= 1
      /\ Len(history) + Len(future) <= MaxHistory
  BY LenProperties, ContextAssumption DEF StacksOK
<1>2. pushed \in Seq(Pages) /\ Len(pushed) = Len(history) + 1 /\ pushed # <<>>
  <2>1. pushed \in Seq(Pages) /\ Len(pushed) = Len(history) + 1
    BY <1>1, PushAt
  <2>2. Len(pushed) # 0
    <3> DEFINE n == Len(history)
    <3>1. n \in Nat /\ Len(pushed) = n + 1
      BY <1>1, <2>1
    <3> HIDE DEF n, pushed
    <3> QED BY <3>1
  <2>3. Len(<<>>) = 0
    OBVIOUS
  <2> QED BY <2>1, <2>2, <2>3
<1>3. next = Append(pushed, page)
  BY <1>1, AroundUpTo
<1>4. next \in Seq(Pages) /\ Len(next) = Len(history) + 2
  <2>1. Append(pushed, page) \in Seq(Pages) /\ Len(Append(pushed, page)) = Len(pushed) + 1
    BY <1>2, PushAt
  <2> DEFINE n == Len(history)
  <2>2. n \in Nat /\ Len(pushed) = n + 1 /\ Len(next) = Len(pushed) + 1
    BY <2>1, <1>1, <1>2, <1>3
  <2>3. Len(next) = n + 2
    <3> HIDE DEF n, next, pushed
    <3> QED BY <2>2
  <2> QED BY <2>1, <2>3, <1>3
<1>5. /\ elements' = page /\ future' = <<>>
      /\ history' = IF Len(pushed) > MaxHistory THEN Tail(pushed) ELSE pushed
  BY DEF Edit, Shifted
<1>6. /\ history' \in Seq(Pages)
      /\ Len(history') <= MaxHistory
      /\ Append(history', page) = IF Len(next) > MaxHistory + 1 THEN Tail(next) ELSE next
      /\ Len(Append(history', page)) = Len(history') + 1
  <2>1. CASE Len(pushed) > MaxHistory
    <3>1. history' = Tail(pushed)
      BY <2>1, <1>5
    <3>2. Tail(pushed) \in Seq(Pages) /\ Len(Tail(pushed)) = Len(pushed) - 1
      BY <1>2, HeadTailProperties
    <3>3. Tail(next) = Append(Tail(pushed), page)
      BY <1>2, <1>3, TailOfPushed
    <3>4. Len(next) > MaxHistory + 1 /\ Len(pushed) - 1 <= MaxHistory
      BY <2>1, <1>1, <1>2, <1>4
    <3>5. Len(Append(Tail(pushed), page)) = Len(Tail(pushed)) + 1
      BY <3>2, PushAt
    <3> HIDE DEF pushed, next
    <3> QED BY <3>1, <3>2, <3>3, <3>4, <3>5
  <2>2. CASE ~(Len(pushed) > MaxHistory)
    <3>1. history' = pushed
      BY <2>2, <1>5
    <3>2. ~(Len(next) > MaxHistory + 1) /\ Len(pushed) <= MaxHistory
      BY <2>2, <1>1, <1>2, <1>4
    <3>3. Len(Append(pushed, page)) = Len(pushed) + 1
      BY <1>2, PushAt
    <3> HIDE DEF pushed, next
    <3> QED BY <3>1, <3>2, <3>3, <1>2, <1>3
  <2> QED BY <2>1, <2>2
<1>7. StacksOK'
  <2>1. Len(future') = 0 /\ future' \in Seq(Pages)
    BY <1>5, EmptySeq
  <2>2. Len(history') \in Nat
    BY <1>6, LenProperties
  <2>3. Len(history') + Len(future') <= MaxHistory
    BY <2>1, <2>2, <1>1, <1>6
  <2> QED BY <2>1, <2>3, <1>5, <1>6 DEF StacksOK
<1>8. (history \o <<elements>> \o future)' = Append(history', page)
  BY <1>5, <1>6, AroundNothing DEF Around
<1>9. history \o <<elements>> \o future = line
  BY DEF Around
<1>10. Line!Do(page)
  <2> HIDE DEF pushed, line
  <2>1. (history \o <<elements>> \o future)' = Line!Kept(next)
    BY <1>6, <1>8 DEF Line!Kept
  <2>2. (Len(history) + 1)' = Len((history \o <<elements>> \o future)')
    BY <1>6, <1>8
  <2> QED BY <2>1, <2>2, <1>9 DEF Line!Do
<1> QED BY <1>7, <1>10 DEF LineNext, Line!Next

\* Undo moves along the line, and its slice cuts nothing off.
LEMMA UndoOnLine ==
    ASSUME StacksOK, Undo
    PROVE  StacksOK' /\ LineNext
<1>1. /\ elements \in Pages /\ history \in Seq(Pages) /\ future \in Seq(Pages)
      /\ Len(history) \in Nat /\ Len(future) \in Nat /\ MaxHistory \in Nat
      /\ Len(history) + Len(future) <= MaxHistory
      /\ history # <<>>
  BY LenProperties, ContextAssumption DEF StacksOK, Undo
<1>2. Len(history) >= 1
  BY <1>1, EmptySeq
<1>3. PICK ahead : ahead = <<elements>> \o future
  OBVIOUS
<1>4. ahead \in Seq(Pages) /\ Len(ahead) = 1 + Len(future)
  <2>1. <<elements>> \in Seq(Pages) /\ Len(<<elements>>) = 1
    BY <1>1
  <2> QED BY <2>1, <1>1, <1>3, ConcatProperties
<1>5. Len(ahead) <= MaxHistory
  BY <1>1, <1>2, <1>4
<1>6. FirstOnes(ahead) = ahead
  <2>1. (IF Len(ahead) < MaxHistory THEN Len(ahead) ELSE MaxHistory) = Len(ahead)
    BY <1>1, <1>4, <1>5
  <2>2. SubSeq(ahead, 1, Len(ahead)) = ahead
    BY <1>4, SubSeqFull
  <2> QED BY <2>1, <2>2 DEF FirstOnes
<1>7. /\ elements' = history[Len(history)]
      /\ history' = SubSeq(history, 1, Len(history) - 1)
      /\ future' = <<elements>> \o future
  BY <1>3, <1>6 DEF Undo
<1>8. (history \o <<elements>> \o future)' = history \o <<elements>> \o future
  <2>1. Around(SubSeq(history, 1, Len(history) - 1), history[Len(history)],
               <<elements>> \o future)
            = Around(history, elements, future)
    BY <1>1, AroundBack
  <2> QED BY <2>1, <1>7 DEF Around
<1>9. history' \in Seq(Pages) /\ Len(history') = Len(history) - 1 /\ elements' \in Pages
  <2>1. \A i \in 1 .. Len(history) : history[i] \in Pages
    BY <1>1, ElementOfSeq
  <2>2. \A i \in 1 .. Len(history) - 1 : history[i] \in Pages
    BY <2>1, <1>1
  <2>3. 1 \in Int /\ Len(history) - 1 \in Int
    BY <1>1
  <2>4. /\ history' \in Seq(Pages)
        /\ Len(history') = IF 1 <= Len(history) - 1 THEN Len(history) - 1 - 1 + 1 ELSE 0
    BY <2>2, <2>3, <1>7, SubSeqProperties
  <2>5. Len(history') = Len(history) - 1
    <3> DEFINE n == Len(history)
               m == Len(history')
    <3>1. n \in Nat /\ n >= 1 /\ m = IF 1 <= n - 1 THEN n - 1 - 1 + 1 ELSE 0
      BY <2>4, <1>1, <1>2
    <3>2. m = n - 1
      <4> HIDE DEF n, m
      <4> QED BY <3>1
    <3> QED BY <3>2
  <2>6. elements' \in Pages
    BY <2>1, <1>1, <1>2, <1>7
  <2> QED BY <2>4, <2>5, <2>6
<1>10. StacksOK'
  <2>1. future' \in Seq(Pages) /\ Len(future') = 1 + Len(future)
    BY <1>3, <1>4, <1>7
  <2>2. Len(history') + Len(future') <= MaxHistory
    BY <2>1, <1>1, <1>9
  <2> QED BY <2>1, <2>2, <1>9 DEF StacksOK
<1>11. Line!Undo
  <2>1. Len(history) + 1 > 1 /\ (Len(history) + 1)' = Len(history) + 1 - 1
    BY <1>1, <1>2, <1>9
  <2> QED BY <2>1, <1>8 DEF Line!Undo
<1> QED BY <1>10, <1>11 DEF LineNext, Line!Next

\* So does redo.
LEMMA RedoOnLine ==
    ASSUME StacksOK, Redo
    PROVE  StacksOK' /\ LineNext
<1>1. /\ elements \in Pages /\ history \in Seq(Pages) /\ future \in Seq(Pages)
      /\ Len(history) \in Nat /\ Len(future) \in Nat /\ MaxHistory \in Nat
      /\ Len(history) + Len(future) <= MaxHistory
      /\ future # <<>>
  BY LenProperties, ContextAssumption DEF StacksOK, Redo
<1>2. Len(future) >= 1
  BY <1>1, EmptySeq
<1>3. PICK behind : behind = Append(history, elements)
  OBVIOUS
<1>4. behind \in Seq(Pages) /\ Len(behind) = Len(history) + 1
  BY <1>1, <1>3, PushAt
<1>5. LastOnes(behind) = behind
  <2>1. ~(Len(behind) > MaxHistory)
    BY <1>1, <1>2, <1>4
  <2> QED BY <2>1 DEF LastOnes
<1>6. /\ elements' = Head(future) /\ future' = Tail(future)
      /\ history' = Append(history, elements)
  BY <1>3, <1>5 DEF Redo
<1>7. Head(future) \in Pages /\ Tail(future) \in Seq(Pages) /\ Len(Tail(future)) = Len(future) - 1
  BY <1>1, HeadTailProperties
<1>8. (history \o <<elements>> \o future)' = history \o <<elements>> \o future
  <2>1. Around(Append(history, elements), Head(future), Tail(future))
            = Around(history, elements, future)
    BY <1>1, AroundForth
  <2> QED BY <2>1, <1>6 DEF Around
<1>9. history' \in Seq(Pages) /\ Len(history') = Len(history) + 1
  BY <1>3, <1>4, <1>6
<1>10. StacksOK'
  <2>1. Len(history') + Len(future') <= MaxHistory
    BY <1>1, <1>6, <1>7, <1>9
  <2> QED BY <2>1, <1>6, <1>7, <1>9 DEF StacksOK
<1>11. Line!Redo
  <2>1. Len(history \o <<elements>> \o future) = Len(history) + 1 + Len(future)
    BY <1>1, AroundAt DEF Around
  <2>2. Len(history) + 1 < Len(history) + 1 + Len(future) /\ (Len(history) + 1)' = Len(history) + 1 + 1
    BY <1>1, <1>2, <1>9
  <2> QED BY <2>1, <2>2, <1>8 DEF Line!Redo
<1> QED BY <1>10, <1>11 DEF LineNext, Line!Next

\* A page with some elements given a look: they and what was there are on it.
LEMMA WithPage ==
    ASSUME elements \in Pages, NEW T \in SUBSET Ids, NEW looks \in [T -> Looks]
    PROVE  /\ With(elements, looks) \in Pages
           /\ \A i \in Ids : With(elements, looks)[i] # Gone <=> i \in T \/ elements[i] # Gone
BY ContextAssumption DEF With, Pages

LEMMA WithoutPage ==
    ASSUME elements \in Pages, NEW T \in SUBSET Ids
    PROVE  /\ Without(elements, T) \in Pages
           /\ \A i \in Ids : Without(elements, T)[i] # Gone <=> i \notin T /\ elements[i] # Gone
BY DEF Without, Pages

ContextOK == ContextTypeOK /\ SelectionOnPage

\* What an edit promises besides its own.
Edited ==
    /\ ContextOK'
    /\ dirty' = TRUE
    /\ template'.id = template.id
    /\ LineNext \/ UNCHANGED LineVars

\* Every edit of the page: what is left to show is its selection.
LEMMA EditKeeps ==
    ASSUME ContextOK, NEW page \in Pages, Edit(page), UNCHANGED template,
           clipboard' \subseteq Ids,
           selected' \subseteq {i \in Ids : page[i] # Gone},
           primary' \in selected' \cup {NoId}
    PROVE  Edited
<1>1. StacksOK
  BY DEF ContextOK, ContextTypeOK, StacksOK
<1>2. StacksOK' /\ LineNext
  BY <1>1, EditOnLine
<1>3. elements' = page /\ dirty' = TRUE
  BY DEF Edit
<1>4. selected' \subseteq OnPage'
  BY <1>3 DEF OnPage
<1>5. OnPage' \subseteq Ids
  BY DEF OnPage
<1>6. ContextTypeOK' /\ SelectionOnPage'
  BY <1>2, <1>3, <1>4, <1>5 DEF ContextOK, ContextTypeOK, SelectionOnPage, StacksOK
<1> QED BY <1>2, <1>3, <1>6 DEF Edited, ContextOK

\* Undo and redo show another page and select nothing.
LEMMA TravelKeeps ==
    ASSUME ContextOK, StacksOK', LineNext, dirty' = TRUE,
           Select(NoId), UNCHANGED <<clipboard, template>>
    PROVE  Edited
<1>1. selected' = {} /\ primary' = NoId
  BY DEF Select
<1>2. ContextTypeOK' /\ SelectionOnPage'
  BY <1>1 DEF ContextOK, ContextTypeOK, SelectionOnPage, StacksOK
<1> QED BY <1>2 DEF Edited, ContextOK

LEMMA EditsKeep ==
    ASSUME ContextOK, Edits
    PROVE  Edited
<1>1. /\ elements \in Pages /\ selected \subseteq Ids /\ clipboard \subseteq Ids
      /\ selected \subseteq OnPage /\ primary \in selected \cup {NoId}
      /\ StacksOK
  BY DEF ContextOK, ContextTypeOK, SelectionOnPage, StacksOK
<1>t. Targets \subseteq OnPage /\ OnPage \subseteq Ids
  BY <1>1 DEF Targets, OnPage
<1>2. CASE AddElement
  <2>1. PICK i \in Ids \ OnPage, look \in Looks :
            Edit([elements EXCEPT ![i] = look]) /\ Select(i) /\ UNCHANGED <<clipboard, template>>
    BY <1>2 DEF AddElement
  <2> DEFINE page == [elements EXCEPT ![i] = look]
  <2>2. page \in Pages /\ page[i] # Gone
    BY <1>1, ContextAssumption DEF Pages
  <2>3. selected' \subseteq {j \in Ids : page[j] # Gone} /\ primary' \in selected' \cup {NoId}
    BY <2>1, <2>2 DEF Select
  <2>4. clipboard' \subseteq Ids /\ UNCHANGED template
    BY <1>1, <2>1
  <2> QED BY <2>1, <2>2, <2>3, <2>4, EditKeeps
<1>3. CASE RemoveElements
  <2> DEFINE page == Without(elements, Targets)
  <2>1. page \in Pages
    BY <1>1, <1>t, WithoutPage
  <2>2. Edit(page) /\ selected' = {} /\ primary' = NoId /\ UNCHANGED <<clipboard, template>>
    BY <1>3 DEF RemoveElements, Select
  <2> HIDE DEF page
  <2> QED BY <1>1, <2>1, <2>2, EditKeeps
<1>4. CASE NudgeElements
  <2>1. PICK looks \in [Targets \cap OnPage -> Looks] : Edit(With(elements, looks))
    BY <1>4 DEF NudgeElements
  <2> DEFINE page == With(elements, looks)
  <2>2. /\ page \in Pages
        /\ \A i \in Ids : page[i] # Gone <=> i \in Targets \cap OnPage \/ elements[i] # Gone
    BY <1>1, <1>t, WithPage
  <2>3. UNCHANGED <<selected, primary, clipboard, template>>
    BY <1>4 DEF NudgeElements, selection
  <2>4. Edit(page)
    BY <2>1
  <2> HIDE DEF page
  <2>5. selected' \subseteq {i \in Ids : page[i] # Gone} /\ primary' \in selected' \cup {NoId}
    BY <1>1, <2>2, <2>3 DEF OnPage
  <2> QED BY <1>1, <2>2, <2>3, <2>4, <2>5, EditKeeps
<1>5. CASE PasteElements
  <2>1. PICK new \in SUBSET (Ids \ OnPage) :
            /\ \E looks \in [new -> Looks] : Edit(With(elements, looks))
            /\ selected' = new /\ primary' \in new
    BY <1>5 DEF PasteElements
  <2>2. PICK looks \in [new -> Looks] : Edit(With(elements, looks))
    BY <2>1
  <2> DEFINE page == With(elements, looks)
  <2>3. /\ page \in Pages
        /\ \A i \in Ids : page[i] # Gone <=> i \in new \/ elements[i] # Gone
    BY <1>1, <2>1, WithPage
  <2>4. UNCHANGED <<clipboard, template>>
    BY <1>5 DEF PasteElements
  <2>5. Edit(page)
    BY <2>2
  <2> HIDE DEF page
  <2>6. selected' \subseteq {i \in Ids : page[i] # Gone} /\ primary' \in selected' \cup {NoId}
    BY <2>1, <2>3
  <2> QED BY <1>1, <2>3, <2>4, <2>5, <2>6, EditKeeps
<1>6. CASE Undo
  BY <1>1, <1>6, UndoOnLine, TravelKeeps DEF Undo
<1>7. CASE Redo
  BY <1>1, <1>7, RedoOnLine, TravelKeeps DEF Redo
<1>8. ASSUME NEW i \in Ids, UpdateElement(i) PROVE Edited
  <2>1. PICK look \in Looks : Edit([elements EXCEPT ![i] = look])
    BY <1>8 DEF UpdateElement
  <2> DEFINE page == [elements EXCEPT ![i] = look]
  <2>2. page \in Pages /\ \A j \in Ids : page[j] # Gone <=> j = i \/ elements[j] # Gone
    BY <1>1, ContextAssumption DEF Pages
  <2>3. UNCHANGED <<selected, primary, clipboard, template>>
    BY <1>8 DEF UpdateElement, selection
  <2>4. Edit(page)
    BY <2>1
  <2> HIDE DEF page
  <2>5. selected' \subseteq {j \in Ids : page[j] # Gone} /\ primary' \in selected' \cup {NoId}
    BY <1>1, <2>2, <2>3 DEF OnPage
  <2> QED BY <1>1, <2>2, <2>3, <2>4, <2>5, EditKeeps
<1>9. ASSUME NEW i \in Ids, RemoveElement(i) PROVE Edited
  <2> DEFINE page == Without(elements, {i})
  <2>1. page \in Pages /\ \A j \in Ids : page[j] # Gone <=> j \notin {i} /\ elements[j] # Gone
    BY <1>1, WithoutPage
  <2>2. /\ Edit(page) /\ UNCHANGED <<clipboard, template>>
        /\ selected' = selected \ {i}
        /\ primary' = IF primary = i THEN NoId ELSE primary
    BY <1>9 DEF RemoveElement
  <2> HIDE DEF page
  <2>3. selected' \subseteq {j \in Ids : page[j] # Gone} /\ primary' \in selected' \cup {NoId}
    BY <1>1, <2>1, <2>2 DEF OnPage
  <2> QED BY <1>1, <2>1, <2>2, <2>3, EditKeeps
<1>10. ASSUME NEW name \in Names \cup {NoName}, SetName(name) PROVE Edited
  <2>1. /\ template' = [template EXCEPT !.name = name] /\ dirty' = TRUE
        /\ UNCHANGED <<elements, selected, primary, clipboard, history, future>>
    BY <1>10 DEF SetName, selection, stacks
  <2>2. template' \in Template /\ template'.id = template.id
    BY <2>1 DEF ContextOK, ContextTypeOK, Template
  <2>3. ContextTypeOK' /\ SelectionOnPage'
    BY <2>1, <2>2 DEF ContextOK, ContextTypeOK, SelectionOnPage, OnPage
  <2>4. UNCHANGED LineVars
    BY <2>1 DEF LineVars
  <2> QED BY <2>1, <2>2, <2>3, <2>4 DEF Edited, ContextOK
<1> QED BY <1>2, <1>3, <1>4, <1>5, <1>6, <1>7, <1>8, <1>9, <1>10 DEF Edits

LEMMA SelectsKeep ==
    ASSUME ContextOK, Selects
    PROVE  ContextOK' /\ UNCHANGED <<elements, history, future, template, dirty>>
<1>1. UNCHANGED <<elements, history, future, template, dirty>>
  BY DEF Selects, CopyElements, SelectElement, SelectAll, ToggleSelectElement, stacks
<1>2. selected \subseteq OnPage /\ primary \in selected \cup {NoId} /\ clipboard \subseteq Ids
  BY DEF ContextOK, ContextTypeOK, SelectionOnPage
<1>3. OnPage \subseteq Ids /\ OnPage' = OnPage
  BY <1>1 DEF OnPage
<1>4. selected' \subseteq OnPage /\ primary' \in selected' \cup {NoId} /\ clipboard' \subseteq Ids
  <2>1. CASE CopyElements
    BY <2>1, <1>2, <1>3 DEF CopyElements, selection
  <2>2. CASE SelectElement
    BY <2>2, <1>2 DEF SelectElement, Select
  <2>3. CASE SelectAll
    BY <2>3, <1>2 DEF SelectAll
  <2>4. ASSUME NEW i \in Ids, ToggleSelectElement(i)
        PROVE  /\ selected' \subseteq OnPage /\ primary' \in selected' \cup {NoId}
               /\ clipboard' \subseteq Ids
    BY <2>4, <1>2 DEF ToggleSelectElement
  <2> QED BY <2>1, <2>2, <2>3, <2>4 DEF Selects
<1>5. ContextTypeOK' /\ SelectionOnPage'
  BY <1>1, <1>3, <1>4 DEF ContextOK, ContextTypeOK, SelectionOnPage
<1> QED BY <1>1, <1>5 DEF ContextOK

LEMMA MarkSavedKeeps ==
    ASSUME ContextOK, NEW id \in TemplateIds \cup {NoRow}, MarkSaved(id)
    PROVE  /\ ContextOK'
           /\ UNCHANGED <<elements, history, future>>
           /\ template' = [id |-> id, name |-> template.name]
           /\ dirty' = FALSE
<1>1. /\ UNCHANGED <<elements, selected, primary, clipboard, history, future>>
      /\ template' = [template EXCEPT !.id = id] /\ dirty' = FALSE
  BY DEF MarkSaved, selection, stacks
<1>2. template' \in Template /\ template' = [id |-> id, name |-> template.name]
  BY <1>1 DEF ContextOK, ContextTypeOK, Template
<1>3. ContextTypeOK' /\ SelectionOnPage'
  BY <1>1, <1>2 DEF ContextOK, ContextTypeOK, SelectionOnPage, OnPage
<1> QED BY <1>1, <1>2, <1>3 DEF ContextOK

-----------------------------------------------------------------------------
(* Saving. *)

EditorTypes ==
    /\ rows \in [TemplateIds -> Row \cup {NoRow}]
    /\ call \in [Saves -> Call]
    /\ mixed \in BOOLEAN /\ split \in BOOLEAN

Shown == [name |-> template.name, content |-> elements]
Carried(s) == [name |-> call[s].template.name, content |-> call[s].content]

\* What a save under way has in hand.
CallOK(s) ==
    InFlight(s) =>
        /\ call[s].template.name \in Names /\ call[s].content \in Pages
        /\ call[s].pc = "find" => rows[s] # NoRow /\ call[s].template.id = NoRow
        /\ call[s].template.id # NoRow => rows[call[s].template.id] # NoRow

IdExists == template.id # NoRow => rows[template.id] # NoRow

NamesApart ==
    \A o, p \in TemplateIds :
        rows[o] # NoRow /\ rows[p] # NoRow /\ rows[o].name = rows[p].name => o = p

\* A save that is alone carries what the editor shows.
AloneOK(s) ==
    InFlight(s) /\ call[s].alone =>
        /\ call[s].template = template /\ call[s].content = elements
        /\ \A r \in Saves : InFlight(r) => r = s
        /\ call[s].pc = "find" => rows[s] = Carried(s)

\* The strengthening of StoredWhenSaved: saves under way would write the same again.
StoredInv ==
    ~dirty /\ ~mixed /\ template.id # NoRow =>
        /\ rows[template.id] = Shown
        /\ \A s \in Saves : InFlight(s) =>
                call[s].template = template /\ call[s].content = elements

\* The strengthening of OneRow: the one row there is has its id in the editor, or is looked for.
OneInv ==
    ~split =>
        /\ \A r, s \in Saves : InFlight(r) /\ InFlight(s) => r = s
        /\ \A s \in Saves : rows[s] # NoRow => template.id = s \/ call[s].pc = "find"
        /\ \A s \in Saves : InFlight(s) => call[s].template.id = template.id
        /\ \A s \in Saves : call[s].pc = "find" => rows[s].name = call[s].template.name

Rest ==
    /\ EditorTypes
    /\ \A s \in Saves : CallOK(s)
    /\ IdExists
    /\ NamesApart
    /\ \A s \in Saves : AloneOK(s)
    /\ StoredInv
    /\ OneInv

EditorInv == ContextOK /\ Rest

\* A save that goes on as it was, or has ended.
Kept(r) ==
    InFlight(r)' =>
        /\ InFlight(r)
        /\ call'[r].pc = call[r].pc
        /\ call'[r].template = call[r].template
        /\ call'[r].content = call[r].content
        /\ call'[r].alone => call[r].alone

LEMMA InitOK == Init => EditorInv
<1> SUFFICES ASSUME Init PROVE EditorInv
  OBVIOUS
<1>1. PICK page, tpl : ContextInit(page, tpl) /\ page \in Pages /\ tpl \in Template
  <2>1. CASE InitNew
    <3>1. [i \in Ids |-> Gone] \in Pages
      BY DEF Pages
    <3>2. \A name \in Names \cup {NoName} : [id |-> NoRow, name |-> name] \in Template
      BY DEF Template
    <3> QED BY <2>1, <3>1, <3>2 DEF InitNew
  <2>2. CASE InitOpened
    <3>1. \A shown \in Row : [id |-> Opened, name |-> shown.name] \in Template
                             /\ shown.content \in Pages
      BY EditorAssumption DEF Row, Template
    <3> QED BY <2>2, <3>1 DEF InitOpened
  <2> QED BY <2>1, <2>2 DEF Init
<1>2. ContextOK
  <2>1. <<>> \in Seq(Pages) /\ Len(<<>>) = 0
    BY EmptySeq
  <2>2. 0 + 0 <= MaxHistory
    BY ContextAssumption
  <2> QED BY <1>1, <2>1, <2>2
       DEF ContextInit, ContextOK, ContextTypeOK, SelectionOnPage
<1>3. /\ call = [s \in Saves |-> Resting("idle")] /\ split = FALSE
      /\ \A s \in Saves : call[s].pc = "idle" /\ ~InFlight(s)
  BY DEF Init, Resting, InFlight
<1>4. call \in [Saves -> Call]
  BY <1>3 DEF Resting, Call, NoTemplate, Template
<1>5. CASE InitNew
  <2>1. /\ rows = [id \in TemplateIds |-> NoRow] /\ mixed = FALSE
        /\ template.id = NoRow
    BY <1>5 DEF InitNew, ContextInit
  <2> QED BY <1>2, <1>3, <1>4, <2>1, EditorAssumption
       DEF EditorInv, Rest, EditorTypes, CallOK, IdExists, NamesApart, AloneOK, StoredInv, OneInv
<1>6. CASE InitOpened
  <2>1. PICK shown \in Row, stored \in Row :
            /\ ContextInit(shown.content, [id |-> Opened, name |-> shown.name])
            /\ rows = [id \in TemplateIds |-> IF id = Opened THEN stored ELSE NoRow]
            /\ mixed = (shown # stored)
    BY <1>6 DEF InitOpened
  <2>2. /\ template.id = Opened /\ template.name = shown.name /\ elements = shown.content
        /\ Opened \in TemplateIds /\ rows[Opened] = stored
        /\ \A id \in TemplateIds : rows[id] # NoRow => id = Opened
        /\ \A s \in Saves : rows[s] = NoRow
    BY <2>1, EditorAssumption DEF ContextInit
  <2>3. ~mixed => rows[Opened] = Shown
    BY <2>1, <2>2 DEF Shown, Row
  <2>4. EditorTypes
    BY <1>3, <1>4, <2>1 DEF EditorTypes
  <2>5. StoredInv
    BY <1>3, <2>2, <2>3 DEF StoredInv
  <2>6. IdExists /\ NamesApart
    BY <2>2, EditorAssumption DEF IdExists, NamesApart
  <2>7. OneInv
    BY <1>3, <2>2 DEF OneInv
  <2> QED BY <1>2, <1>3, <2>4, <2>5, <2>6, <2>7 DEF EditorInv, Rest, CallOK, AloneOK
<1> QED BY <1>5, <1>6 DEF Init

\* A failed call: tried again as it was, or ended.
LEMMA FailedKeeps ==
    ASSUME call \in [Saves -> Call], NEW s \in Saves, InFlight(s), Failed(s)
    PROVE  /\ call' \in [Saves -> Call]
           /\ \A r \in Saves : Kept(r)
           /\ \A r \in Saves : r # s => call'[r] = call[r]
           /\ call'[s].pc # call[s].pc => ~InFlight(s)'
<1>1. CASE call[s].tries < 2 /\ call' = [call EXCEPT ![s].tries = @ + 1]
  <2>1. call[s].tries + 1 \in 0 .. 2
    BY <1>1 DEF Call
  <2>2. call' \in [Saves -> Call]
    BY <1>1, <2>1 DEF Call
  <2>3. /\ \A r \in Saves : r # s => call'[r] = call[r]
        /\ call'[s] = [call[s] EXCEPT !.tries = @ + 1]
    BY <1>1
  <2>4. /\ call'[s].pc = call[s].pc /\ call'[s].template = call[s].template
        /\ call'[s].content = call[s].content /\ call'[s].alone = call[s].alone
    BY <2>3 DEF Call
  <2> QED BY <2>2, <2>3, <2>4 DEF Kept, InFlight
<1>2. CASE Finish(s)
  <2>1. call' \in [Saves -> Call]
    BY <1>2 DEF Finish, Resting, Call, NoTemplate, Template
  <2>2. /\ \A r \in Saves : r # s => call'[r] = call[r]
        /\ call'[s].pc = "done"
    BY <1>2 DEF Finish, Resting
  <2> QED BY <2>1, <2>2 DEF Kept, InFlight
<1> QED BY <1>1, <1>2 DEF Failed

LEMMA FinishKeeps ==
    ASSUME call \in [Saves -> Call], NEW s \in Saves, Finish(s)
    PROVE  /\ call' \in [Saves -> Call]
           /\ ~InFlight(s)' /\ call'[s].pc = "done"
           /\ \A r \in Saves : r # s => call'[r] = call[r]
           /\ \A r \in Saves : Kept(r)
<1>1. call' \in [Saves -> Call]
  BY DEF Finish, Resting, Call, NoTemplate, Template
<1>2. /\ \A r \in Saves : r # s => call'[r] = call[r]
      /\ call'[s].pc = "done"
  BY DEF Finish, Resting
<1> QED BY <1>1, <1>2 DEF Kept, InFlight

\* Edits: the dirty flag excuses the page, and no save is alone any more.
LEMMA KeystrokeOK ==
    ASSUME EditorInv, Keystroke
    PROVE  EditorInv'
<1>1. /\ ContextOK /\ EditorTypes /\ (\A s \in Saves : CallOK(s)) /\ IdExists /\ NamesApart
      /\ (\A s \in Saves : AloneOK(s)) /\ StoredInv /\ OneInv
  BY DEF EditorInv, Rest
<1>2. CASE Edits /\ call' = Disturbed(call) /\ UNCHANGED <<rows, mixed, split>>
  <2>1. ContextOK' /\ dirty' = TRUE /\ template'.id = template.id
    BY <1>1, <1>2, EditsKeep DEF Edited
  <2>2. call' \in [Saves -> Call]
    BY <1>1, <1>2 DEF Disturbed, EditorTypes, Call
  <2>3. ASSUME NEW s \in Saves
        PROVE  /\ call'[s].pc = call[s].pc /\ call'[s].template = call[s].template
               /\ call'[s].content = call[s].content /\ call'[s].alone = FALSE
    BY <1>1, <1>2 DEF Disturbed, EditorTypes, Call
  <2>4. rows' = rows /\ mixed' = mixed /\ split' = split
    BY <1>2
  <2>5. EditorTypes'
    BY <1>1, <2>2, <2>4 DEF EditorTypes
  <2>6. ASSUME NEW s \in Saves PROVE CallOK(s)' /\ AloneOK(s)'
    BY <1>1, <2>3, <2>4 DEF CallOK, AloneOK, InFlight
  <2>7. IdExists' /\ NamesApart'
    BY <1>1, <2>1, <2>4 DEF IdExists, NamesApart
  <2>8. StoredInv'
    BY <2>1 DEF StoredInv
  <2>9. OneInv'
    BY <1>1, <2>1, <2>3, <2>4 DEF OneInv, InFlight
  <2> QED BY <2>1, <2>5, <2>6, <2>7, <2>8, <2>9 DEF EditorInv, Rest
<1>3. CASE Selects /\ UNCHANGED <<rows, call, mixed, split>>
  <2>1. ContextOK' /\ UNCHANGED <<elements, template, dirty, rows, call, mixed, split>>
    BY <1>1, <1>3, SelectsKeep
  <2> QED BY <1>1, <2>1
       DEF EditorInv, Rest, EditorTypes, CallOK, IdExists, NamesApart, AloneOK, StoredInv, OneInv,
           InFlight, Shown, Carried
<1> QED BY <1>2, <1>3 DEF Keystroke

LEMMA HandleSaveOK ==
    ASSUME EditorInv, NEW s \in Saves, HandleSave(s)
    PROVE  EditorInv'
<1>1. /\ ContextOK /\ EditorTypes /\ (\A r \in Saves : CallOK(r)) /\ IdExists /\ NamesApart
      /\ (\A r \in Saves : AloneOK(r)) /\ StoredInv /\ OneInv
  BY DEF EditorInv, Rest
<1>2. /\ UNCHANGED <<elements, template, dirty, rows, mixed>>
      /\ split' = (split \/ ~Quiet)
      /\ call[s].pc = "idle" /\ template.name # NoName
  BY DEF HandleSave, contextVars
<1>3. template \in Template /\ elements \in Pages
  BY <1>1 DEF ContextOK, ContextTypeOK
<1>4. ContextOK'
  BY <1>1 DEF HandleSave, contextVars, selection, stacks,
              ContextOK, ContextTypeOK, SelectionOnPage, OnPage
<1>5. Quiet \in BOOLEAN
  BY DEF Quiet
<1>6. /\ call'[s] = [pc |-> "ask", template |-> template, content |-> elements, tries |-> 1,
                     alone |-> Quiet]
      /\ \A r \in Saves : r # s => call'[r] = [call[r] EXCEPT !.alone = FALSE]
      /\ DOMAIN call' = Saves
      /\ call' = [r \in Saves |-> call'[r]]
  BY DEF HandleSave, Disturbed
<1>7. call' \in [Saves -> Call]
  <2>1. [pc |-> "ask", template |-> template, content |-> elements, tries |-> 1,
         alone |-> Quiet] \in Call
    BY <1>3, <1>5 DEF Call
  <2>2. \A r \in Saves : [call[r] EXCEPT !.alone = FALSE] \in Call
    BY <1>1 DEF EditorTypes, Call
  <2>3. \A r \in Saves : call'[r] \in Call
    BY <1>6, <2>1, <2>2
  <2> QED BY <1>6, <2>3
<1>8. /\ call'[s].pc = "ask" /\ call'[s].template = template
      /\ call'[s].content = elements /\ call'[s].alone = Quiet
  BY <1>6
<1>9. ASSUME NEW r \in Saves, r # s
      PROVE  /\ call'[r].pc = call[r].pc /\ call'[r].template = call[r].template
             /\ call'[r].content = call[r].content /\ call'[r].alone = FALSE
  BY <1>1, <1>6, <1>9 DEF EditorTypes, Call
<1>10. EditorTypes'
  BY <1>1, <1>2, <1>5, <1>7 DEF EditorTypes
<1>11. ASSUME NEW r \in Saves PROVE CallOK(r)'
  BY <1>1, <1>2, <1>3, <1>8, <1>9 DEF CallOK, InFlight, IdExists, Template
<1>12. ASSUME NEW r \in Saves PROVE AloneOK(r)'
  BY <1>2, <1>8, <1>9 DEF AloneOK, InFlight, Quiet
<1>13. IdExists' /\ NamesApart'
  BY <1>1, <1>2 DEF IdExists, NamesApart
<1>14. StoredInv'
  BY <1>1, <1>2, <1>8, <1>9 DEF StoredInv, InFlight, Shown
<1>15. OneInv'
  <2>1. SUFFICES ASSUME ~split' PROVE OneInv'
    BY DEF OneInv
  <2>2. ~split /\ Quiet
    BY <2>1, <1>2
  <2> QED BY <1>1, <1>2, <1>8, <1>9, <2>2 DEF OneInv, InFlight, Quiet
<1> QED BY <1>4, <1>10, <1>11, <1>12, <1>13, <1>14, <1>15 DEF EditorInv, Rest

\* Nothing but the calls changed, and those only went on or ended.
LEMMA RejectedOK ==
    ASSUME EditorInv, NEW s \in Saves, Rejected(s)
    PROVE  EditorInv'
<1>1. /\ ContextOK /\ EditorTypes /\ (\A r \in Saves : CallOK(r)) /\ IdExists /\ NamesApart
      /\ (\A r \in Saves : AloneOK(r)) /\ StoredInv /\ OneInv
  BY DEF EditorInv, Rest
<1>2. /\ UNCHANGED <<elements, template, dirty, rows, mixed, split>>
      /\ call[s].pc = "ask" /\ Failed(s)
  BY DEF Rejected, contextVars
<1>3. /\ call' \in [Saves -> Call]
      /\ \A r \in Saves : Kept(r)
      /\ \A r \in Saves : r # s => call'[r] = call[r]
  BY <1>1, <1>2, FailedKeeps DEF EditorTypes, InFlight
<1>4. ContextOK'
  BY <1>1 DEF Rejected, contextVars, selection, stacks,
              ContextOK, ContextTypeOK, SelectionOnPage, OnPage
<1>5. EditorTypes'
  BY <1>1, <1>2, <1>3 DEF EditorTypes
<1>6. ASSUME NEW r \in Saves PROVE CallOK(r)' /\ AloneOK(r)'
  BY <1>1, <1>2, <1>3 DEF CallOK, AloneOK, Kept, InFlight, Carried
<1>7. IdExists' /\ NamesApart'
  BY <1>1, <1>2 DEF IdExists, NamesApart
<1>8. StoredInv'
  BY <1>1, <1>2, <1>3 DEF StoredInv, Kept, InFlight, Shown
<1>9. OneInv'
  BY <1>1, <1>2, <1>3 DEF OneInv, Kept, InFlight
<1> QED BY <1>4, <1>5, <1>6, <1>7, <1>8, <1>9 DEF EditorInv, Rest

\* A row is made under a free name, by a save that has no id.
LEMMA CreateOK ==
    ASSUME EditorInv, NEW s \in Saves, Create(s)
    PROVE  EditorInv'
<1>1. /\ ContextOK /\ EditorTypes /\ (\A r \in Saves : CallOK(r)) /\ IdExists /\ NamesApart
      /\ (\A r \in Saves : AloneOK(r)) /\ StoredInv /\ OneInv
  BY DEF EditorInv, Rest
<1>2. /\ UNCHANGED <<elements, template, dirty, mixed>>
      /\ call[s].pc = "ask" /\ InFlight(s) /\ call[s].template.id = NoRow
      /\ rows[s] = NoRow /\ NameFree(call[s].template.name, s)
      /\ rows' = [rows EXCEPT ![s] = Carried(s)]
      /\ \/ call' = [call EXCEPT ![s].pc = "find"] /\ UNCHANGED split
         \/ Failed(s) /\ split' = TRUE
  BY DEF Create, contextVars, InFlight, Carried
<1>3. ContextOK'
  BY <1>1 DEF Create, contextVars, selection, stacks,
              ContextOK, ContextTypeOK, SelectionOnPage, OnPage
<1>4. s \in TemplateIds /\ Carried(s) \in Row /\ Carried(s) # NoRow
      /\ Carried(s).name = call[s].template.name
  BY <1>1, <1>2, EditorAssumption DEF CallOK, Carried, Row
<1>5. /\ rows' \in [TemplateIds -> Row \cup {NoRow}] /\ rows'[s] = Carried(s)
      /\ \A id \in TemplateIds : id # s => rows'[id] = rows[id]
  BY <1>1, <1>2, <1>4 DEF EditorTypes
<1>6. /\ call' \in [Saves -> Call]
      /\ \A r \in Saves : r # s => call'[r] = call[r]
      /\ InFlight(s)' =>
            /\ call'[s].template = call[s].template /\ call'[s].content = call[s].content
            /\ call'[s].alone = call[s].alone \/ (call'[s].alone => call[s].alone)
      /\ Carried(s)' = Carried(s) \/ ~InFlight(s)'
  <2>1. CASE call' = [call EXCEPT ![s].pc = "find"]
    BY <2>1, <1>1 DEF EditorTypes, Call, Carried
  <2>2. CASE Failed(s)
    BY <2>2, <1>1, <1>2, FailedKeeps DEF EditorTypes, Kept, Carried
  <2> QED BY <2>1, <2>2, <1>2
<1>7. EditorTypes'
  BY <1>1, <1>2, <1>5, <1>6 DEF EditorTypes
<1>8. ASSUME NEW r \in Saves PROVE CallOK(r)'
  <2>1. CASE r = s
    BY <2>1, <1>1, <1>2, <1>4, <1>5, <1>6 DEF CallOK
  <2>2. CASE r # s
    <3>1. call'[r] = call[r] /\ InFlight(r)' = InFlight(r)
      BY <2>2, <1>6 DEF InFlight
    <3>2. \A id \in TemplateIds : rows[id] # NoRow => rows'[id] # NoRow
      BY <1>4, <1>5
    <3>3. r \in TemplateIds
      BY EditorAssumption
    <3>4. InFlight(r) => call[r].template.id \in TemplateIds \cup {NoRow}
      BY <1>1 DEF EditorTypes, Call, Template
    <3> QED BY <3>1, <3>2, <3>3, <3>4, <1>1 DEF CallOK
  <2> QED BY <2>1, <2>2
<1>9. ASSUME NEW r \in Saves PROVE AloneOK(r)'
  <2>1. CASE r = s
    <3>1. SUFFICES ASSUME InFlight(s)', call'[s].alone PROVE AloneOK(s)'
      BY <2>1 DEF AloneOK
    <3>2. /\ call[s].template = template /\ call[s].content = elements
          /\ \A q \in Saves : InFlight(q) => q = s
      BY <3>1, <1>1, <1>2, <1>6 DEF AloneOK
    <3>3. \A q \in Saves : InFlight(q)' => q = s
      BY <3>2, <1>6 DEF InFlight
    <3> QED BY <3>1, <3>2, <3>3, <1>2, <1>5, <1>6 DEF AloneOK
  <2>2. CASE r # s
    <3>1. call'[r] = call[r]
      BY <2>2, <1>6
    <3>2. ~(InFlight(r) /\ call[r].alone)
      BY <2>2, <1>1, <1>2 DEF AloneOK
    <3> QED BY <3>1, <3>2 DEF AloneOK, InFlight
  <2> QED BY <2>1, <2>2
<1>10. IdExists'
  BY <1>1, <1>2, <1>4, <1>5 DEF IdExists, ContextOK, ContextTypeOK, Template
<1>11. NamesApart'
  BY <1>1, <1>2, <1>4, <1>5 DEF NamesApart, NameFree
<1>12. StoredInv'
  <2>1. SUFFICES ASSUME ~dirty, ~mixed, template.id # NoRow PROVE FALSE
    BY <1>2 DEF StoredInv
  <2>2. call[s].template = template
    BY <2>1, <1>1, <1>2 DEF StoredInv
  <2> QED BY <2>1, <2>2, <1>2
<1>13. OneInv'
  <2>1. SUFFICES ASSUME ~split' PROVE OneInv'
    BY DEF OneInv
  <2>2. ~split /\ call' = [call EXCEPT ![s].pc = "find"]
    BY <2>1, <1>2
  <2>3. call'[s].pc = "find" /\ call'[s].template = call[s].template
    BY <2>2, <1>1 DEF EditorTypes, Call
  <2>4. /\ \A r, q \in Saves : InFlight(r) /\ InFlight(q) => r = q
        /\ \A r \in Saves : rows[r] # NoRow => template.id = r \/ call[r].pc = "find"
        /\ template.id = NoRow
    BY <2>2, <1>1, <1>2 DEF OneInv
  <2>5. \A r \in Saves : InFlight(r)' => r = s
    BY <2>4, <1>2, <1>6 DEF InFlight
  <2>6. \A r \in Saves : rows'[r] # NoRow => r = s
    <3>1. ASSUME NEW r \in Saves, rows'[r] # NoRow, r # s PROVE FALSE
      <4>1. r \in TemplateIds /\ NoRow \notin TemplateIds
        BY EditorAssumption, ContextAssumption
      <4>2. call[r].pc = "find"
        BY <3>1, <4>1, <1>5, <2>4
      <4> QED BY <3>1, <4>2, <2>4, <1>2 DEF InFlight
    <3> QED BY <3>1
  <2>7. \A r \in Saves : call'[r].pc = "find" => r = s
    BY <2>5 DEF InFlight
  <2> QED BY <1>2, <1>4, <1>5, <2>3, <2>4, <2>5, <2>6, <2>7 DEF OneInv
<1> QED BY <1>3, <1>7, <1>8, <1>9, <1>10, <1>11, <1>12, <1>13 DEF EditorInv, Rest

\* The row the save names is overwritten; if the save is alone, with what the editor shows.
LEMMA EditRowOK ==
    ASSUME EditorInv, NEW s \in Saves, EditRow(s)
    PROVE  EditorInv'
<1> DEFINE id == call[s].template.id
<1>1. /\ ContextOK /\ EditorTypes /\ (\A r \in Saves : CallOK(r)) /\ IdExists /\ NamesApart
      /\ (\A r \in Saves : AloneOK(r)) /\ StoredInv /\ OneInv
  BY DEF EditorInv, Rest
<1>2. /\ call[s].pc = "ask" /\ InFlight(s) /\ id # NoRow /\ NameFree(call[s].template.name, id)
      /\ rows' = [rows EXCEPT ![id] = Carried(s)]
      /\ split' = split
      /\ \/ Saved(s, id)
         \/ Failed(s) /\ UNCHANGED <<contextVars, mixed>>
  BY DEF EditRow, InFlight, Carried
<1>3. id \in TemplateIds /\ rows[id] # NoRow
  BY <1>1, <1>2 DEF EditorTypes, Call, Template, CallOK
<1>4. Carried(s) \in Row /\ Carried(s) # NoRow /\ Carried(s).name = call[s].template.name
  BY <1>1, <1>2, EditorAssumption DEF CallOK, Carried, Row
<1>5. /\ rows' \in [TemplateIds -> Row \cup {NoRow}] /\ rows'[id] = Carried(s)
      /\ \A o \in TemplateIds : o # id => rows'[o] = rows[o]
      /\ \A o \in TemplateIds : rows[o] # NoRow <=> rows'[o] # NoRow
  BY <1>1, <1>2, <1>3, <1>4 DEF EditorTypes
<1>6. /\ call' \in [Saves -> Call]
      /\ \A r \in Saves : Kept(r)
      /\ \A r \in Saves : r # s => call'[r] = call[r]
      /\ call'[s].pc # "find"
  <2>1. CASE Saved(s, id)
    BY <2>1, <1>1, FinishKeeps DEF Saved, EditorTypes
  <2>2. CASE Failed(s)
    BY <2>2, <1>1, <1>2, FailedKeeps DEF EditorTypes, InFlight
  <2> QED BY <2>1, <2>2, <1>2
<1>7. /\ ContextOK' /\ elements' = elements /\ template'.name = template.name
      /\ template' = template \/ template'.id = id
      /\ mixed' \in BOOLEAN
      /\ \/ template' = template /\ dirty' = dirty /\ mixed' = mixed
         \/ template' = [id |-> id, name |-> template.name] /\ mixed' = ~call[s].alone /\ ~InFlight(s)'
  <2>1. CASE Saved(s, id)
    <3>1. MarkSaved(id) /\ mixed' = ~call[s].alone /\ Finish(s)
      BY <2>1 DEF Saved
    <3>2. ContextOK' /\ elements' = elements /\ template' = [id |-> id, name |-> template.name]
      BY <3>1, <1>1, <1>3, MarkSavedKeeps
    <3>3. call[s].alone \in BOOLEAN
      BY <1>1 DEF EditorTypes, Call
    <3>4. ~InFlight(s)'
      BY <3>1, <1>1, FinishKeeps DEF EditorTypes
    <3> QED BY <3>1, <3>2, <3>3, <3>4
  <2>2. CASE Failed(s) /\ UNCHANGED <<contextVars, mixed>>
    BY <2>2, <1>1 DEF EditorTypes, contextVars, selection, stacks,
                      ContextOK, ContextTypeOK, SelectionOnPage, OnPage
  <2> QED BY <2>1, <2>2, <1>2
<1>8. template \in Template
  BY <1>1 DEF ContextOK, ContextTypeOK
<1> HIDE DEF id
<1>9. EditorTypes'
  BY <1>1, <1>2, <1>5, <1>6, <1>7 DEF EditorTypes
<1>10. ASSUME NEW r \in Saves PROVE CallOK(r)'
  <2>1. r \in TemplateIds /\ call[r].template.id \in TemplateIds \cup {NoRow}
    BY <1>1, EditorAssumption DEF EditorTypes, Call, Template
  <2> QED BY <2>1, <1>1, <1>5, <1>6 DEF CallOK, Kept, InFlight
<1>11. ASSUME NEW r \in Saves PROVE AloneOK(r)'
  <2>1. CASE r = s
    <3>1. SUFFICES ASSUME InFlight(s)', call'[s].alone PROVE AloneOK(s)'
      BY <2>1 DEF AloneOK
    <3>2. template' = template /\ elements' = elements
      BY <3>1, <1>7
    <3>3. /\ call'[s].template = call[s].template /\ call'[s].content = call[s].content
          /\ call[s].alone
      BY <3>1, <1>6 DEF Kept
    <3>4. /\ call[s].template = template /\ call[s].content = elements
          /\ \A q \in Saves : InFlight(q) => q = s
      BY <3>3, <1>1, <1>2 DEF AloneOK
    <3>5. \A q \in Saves : InFlight(q)' => q = s
      BY <3>4, <1>6 DEF Kept
    <3> QED BY <3>2, <3>3, <3>4, <3>5, <1>6 DEF AloneOK
  <2>2. CASE r # s
    <3>1. call'[r] = call[r]
      BY <2>2, <1>6
    <3>2. ~(InFlight(r) /\ call[r].alone)
      BY <2>2, <1>1, <1>2 DEF AloneOK
    <3> QED BY <3>1, <3>2 DEF AloneOK, InFlight
  <2> QED BY <2>1, <2>2
<1>12. IdExists'
  BY <1>1, <1>3, <1>5, <1>7, <1>8 DEF IdExists, Template
<1>13. NamesApart'
  BY <1>1, <1>2, <1>3, <1>4, <1>5 DEF NamesApart, NameFree
<1>14. StoredInv'
  <2>1. CASE template' = template /\ dirty' = dirty /\ mixed' = mixed
    <3>1. SUFFICES ASSUME ~dirty, ~mixed, template.id # NoRow PROVE StoredInv'
      BY <2>1 DEF StoredInv
    <3>2. /\ rows[template.id] = Shown
          /\ \A r \in Saves : InFlight(r) =>
                call[r].template = template /\ call[r].content = elements
      BY <3>1, <1>1 DEF StoredInv
    <3>3. Carried(s) = Shown /\ id = template.id
      BY <3>2, <1>2 DEF Carried, Shown, id
    <3>4. rows'[template'.id] = Shown' /\ Shown' = Shown
      BY <2>1, <3>3, <1>5, <1>7 DEF Shown
    <3> QED BY <2>1, <3>2, <3>4, <1>6, <1>7 DEF StoredInv, Kept
  <2>2. CASE /\ template' = [id |-> id, name |-> template.name]
             /\ mixed' = ~call[s].alone /\ ~InFlight(s)'
    <3>1. SUFFICES ASSUME call[s].alone PROVE StoredInv'
      BY <2>2, <1>1 DEF StoredInv, EditorTypes, Call
    <3>2. /\ call[s].template = template /\ call[s].content = elements
          /\ \A q \in Saves : InFlight(q) => q = s
      BY <3>1, <1>1, <1>2 DEF AloneOK
    <3>3. \A q \in Saves : ~InFlight(q)'
      BY <2>2, <3>2, <1>6 DEF Kept
    <3>4. rows'[template'.id] = Shown'
      BY <2>2, <3>2, <1>5, <1>7 DEF Carried, Shown
    <3> QED BY <3>3, <3>4 DEF StoredInv
  <2> QED BY <2>1, <2>2, <1>7
<1>15. OneInv'
  <2>1. SUFFICES ASSUME ~split PROVE OneInv'
    BY <1>2 DEF OneInv
  <2>2. /\ \A r, q \in Saves : InFlight(r) /\ InFlight(q) => r = q
        /\ \A r \in Saves : rows[r] # NoRow => template.id = r \/ call[r].pc = "find"
        /\ \A r \in Saves : InFlight(r) => call[r].template.id = template.id
    BY <2>1, <1>1 DEF OneInv
  <2>3. template'.id = template.id
    BY <2>2, <1>2, <1>7 DEF id
  <2>4. \A r \in Saves : InFlight(r) => r = s
    BY <2>2, <1>2
  <2>5. \A r \in Saves : call[r].pc # "find" /\ call'[r].pc # "find"
    BY <2>4, <1>2, <1>6 DEF InFlight
  <2>6. Saves \subseteq TemplateIds
    BY EditorAssumption
  <2> QED BY <2>2, <2>3, <2>4, <2>5, <2>6, <1>5, <1>6 DEF OneInv, Kept
<1> QED BY <1>7, <1>9, <1>10, <1>11, <1>12, <1>13, <1>14, <1>15 DEF EditorInv, Rest

\* The lookup ends the save; a row of the save's own name is the save's own, if it is alone.
LEMMA FindOK ==
    ASSUME EditorInv, NEW s \in Saves, Find(s)
    PROVE  EditorInv'
<1>1. /\ ContextOK /\ EditorTypes /\ (\A r \in Saves : CallOK(r)) /\ IdExists /\ NamesApart
      /\ (\A r \in Saves : AloneOK(r)) /\ StoredInv /\ OneInv
  BY DEF EditorInv, Rest
<1>2. call[s].pc = "find" /\ InFlight(s) /\ rows' = rows /\ Finish(s)
  BY DEF Find, InFlight, Saved
<1>3. /\ call' \in [Saves -> Call]
      /\ ~InFlight(s)' /\ call'[s].pc = "done"
      /\ \A r \in Saves : r # s => call'[r] = call[r]
      /\ \A r \in Saves : Kept(r)
  BY <1>1, <1>2, FinishKeeps DEF EditorTypes
<1>4. call[s].alone \in BOOLEAN /\ s \in TemplateIds /\ rows[s] # NoRow
      /\ call[s].template.id = NoRow
  BY <1>1, <1>2, EditorAssumption DEF EditorTypes, Call, CallOK
\* Whatever became of the template, the calls fit: nobody that goes on is alone.
<1>5. ASSUME NEW r \in Saves PROVE CallOK(r)' /\ AloneOK(r)'
  <2>1. CASE r = s
    BY <2>1, <1>3 DEF CallOK, AloneOK
  <2>2. CASE r # s
    <3>1. call'[r] = call[r]
      BY <2>2, <1>3
    <3>2. ~(InFlight(r) /\ call[r].alone)
      BY <2>2, <1>1, <1>2 DEF AloneOK
    <3> QED BY <3>1, <3>2, <1>1, <1>2 DEF CallOK, AloneOK, InFlight
  <2> QED BY <2>1, <2>2
<1>6. NamesApart'
  BY <1>1, <1>2 DEF NamesApart
<1>7. CASE \E id \in TemplateIds :
              /\ rows[id] # NoRow /\ rows[id].name = call[s].template.name
              /\ Saved(s, id) /\ UNCHANGED split
  <2>1. PICK id \in TemplateIds :
              /\ rows[id] # NoRow /\ rows[id].name = call[s].template.name
              /\ MarkSaved(id) /\ mixed' = ~call[s].alone /\ split' = split
    BY <1>7 DEF Saved
  <2>2. ContextOK' /\ elements' = elements /\ template' = [id |-> id, name |-> template.name]
    BY <2>1, <1>1, MarkSavedKeeps
  <2>3. template'.id = id /\ template'.name = template.name
    BY <2>2
  <2>4. EditorTypes'
    BY <2>1, <1>1, <1>2, <1>3, <1>4 DEF EditorTypes
  <2>5. IdExists'
    BY <2>1, <2>3, <1>2 DEF IdExists
  <2>6. StoredInv'
    <3>1. SUFFICES ASSUME call[s].alone PROVE StoredInv'
      BY <2>1, <1>4 DEF StoredInv
    <3>2. /\ call[s].template = template /\ call[s].content = elements
          /\ \A q \in Saves : InFlight(q) => q = s
          /\ rows[s] = Carried(s)
      BY <3>1, <1>1, <1>2 DEF AloneOK
    <3>3. id = s
      BY <3>2, <2>1, <1>1, <1>4 DEF NamesApart, Carried
    <3>4. \A q \in Saves : ~InFlight(q)'
      BY <3>2, <1>3 DEF Kept
    <3>5. rows'[template'.id] = Shown'
      BY <3>2, <3>3, <2>2, <2>3, <1>2 DEF Carried, Shown
    <3> QED BY <3>4, <3>5 DEF StoredInv
  <2>7. OneInv'
    <3>1. SUFFICES ASSUME ~split PROVE OneInv'
      BY <2>1 DEF OneInv
    <3>2. /\ \A r, q \in Saves : InFlight(r) /\ InFlight(q) => r = q
          /\ \A r \in Saves : rows[r] # NoRow => template.id = r \/ call[r].pc = "find"
          /\ template.id = NoRow
          /\ rows[s].name = call[s].template.name
      BY <3>1, <1>1, <1>2, <1>4 DEF OneInv
    <3>3. id = s
      BY <3>2, <2>1, <1>1, <1>4 DEF NamesApart
    <3>4. \A r \in Saves : ~InFlight(r)' /\ call'[r].pc # "find"
      BY <3>2, <1>2, <1>3 DEF Kept, InFlight
    <3>5. \A r \in Saves : rows[r] # NoRow => r = s
      <4>1. Saves \subseteq TemplateIds /\ NoRow \notin TemplateIds
        BY EditorAssumption, ContextAssumption
      <4> QED BY <4>1, <3>2, <1>2 DEF InFlight
    <3> QED BY <3>3, <3>4, <3>5, <2>3, <1>2 DEF OneInv
  <2> QED BY <2>2, <2>4, <2>5, <2>6, <2>7, <1>5, <1>6 DEF EditorInv, Rest
<1>8. CASE Saved(s, NoRow) /\ split' = TRUE
  <2>1. MarkSaved(NoRow) /\ mixed' = ~call[s].alone
    BY <1>8 DEF Saved
  <2>2. ContextOK' /\ template' = [id |-> NoRow, name |-> template.name]
    BY <2>1, <1>1, MarkSavedKeeps
  <2>3. EditorTypes'
    BY <2>1, <1>1, <1>2, <1>3, <1>4, <1>8 DEF EditorTypes
  <2>4. IdExists' /\ StoredInv' /\ OneInv'
    BY <2>2, <1>8 DEF IdExists, StoredInv, OneInv
  <2> QED BY <2>2, <2>3, <2>4, <1>5, <1>6 DEF EditorInv, Rest
<1>9. CASE split' = TRUE /\ UNCHANGED <<contextVars, mixed>>
  <2>1. ContextOK' /\ UNCHANGED <<elements, template, dirty, mixed>>
    BY <1>9, <1>1 DEF contextVars, selection, stacks,
                      ContextOK, ContextTypeOK, SelectionOnPage, OnPage
  <2>2. EditorTypes'
    BY <2>1, <1>1, <1>2, <1>3, <1>9 DEF EditorTypes
  <2>3. IdExists' /\ OneInv'
    BY <2>1, <1>1, <1>2, <1>9 DEF IdExists, OneInv
  <2>4. StoredInv'
    BY <2>1, <1>1, <1>2, <1>3 DEF StoredInv, Kept, Shown
  <2> QED BY <2>1, <2>2, <2>3, <2>4, <1>5, <1>6 DEF EditorInv, Rest
<1> QED BY <1>7, <1>8, <1>9 DEF Find

-----------------------------------------------------------------------------
(* The theorems. *)

LEMMA StutterOK ==
    ASSUME EditorInv, UNCHANGED vars
    PROVE  EditorInv'
<1>1. UNCHANGED <<elements, selected, primary, clipboard, history, future, template, dirty,
                  rows, call, mixed, split>>
  BY DEF vars, contextVars
<1>2. ContextOK'
  BY <1>1 DEF EditorInv, ContextOK, ContextTypeOK, SelectionOnPage, OnPage
<1> QED BY <1>1, <1>2
     DEF EditorInv, Rest, EditorTypes, CallOK, IdExists, NamesApart, AloneOK, StoredInv, OneInv,
         InFlight, Shown, Carried

\* The inductive invariant of the editor and its saves.
THEOREM EditorInvariance == Spec => []EditorInv
<1>1. EditorInv /\ [Next]_vars => EditorInv'
  BY KeystrokeOK, HandleSaveOK, RejectedOK, CreateOK, EditRowOK, FindOK, StutterOK DEF Next
<1> QED BY InitOK, <1>1, PTL DEF Spec

\* Type correctness, and that the two stacks together hold no more than MAX_HISTORY pages.
THEOREM EditorTypeCorrect == Spec => []TypeOK
<1>1. EditorInv => TypeOK
  BY DEF EditorInv, Rest, EditorTypes, ContextOK, TypeOK
<1> QED BY EditorInvariance, <1>1, PTL

\* Nothing that is gone from the page is ever selected.
THEOREM SelectionStays == Spec => []SelectionOnPage
<1>1. EditorInv => SelectionOnPage
  BY DEF EditorInv, ContextOK
<1> QED BY EditorInvariance, <1>1, PTL

\* A template that is not marked dirty is stored, unless its last marked save had company.
THEOREM NotDirtyIsStored == Spec => []StoredWhenSaved
<1>1. EditorInv => StoredWhenSaved
  BY DEF EditorInv, Rest, StoredInv, StoredWhenSaved, Shown
<1> QED BY EditorInvariance, <1>1, PTL

\* Saves one after the other, none of whose answers is lost, make one row.
THEOREM OneRowOnly == Spec => []OneRow
<1>1. EditorInv => OneRow
  <2>1. SUFFICES ASSUME EditorInv, ~split,
                        NEW r \in Saves, NEW s \in Saves, rows[r] # NoRow, rows[s] # NoRow
                 PROVE  r = s
    BY DEF OneRow
  <2>2. /\ \A p, q \in Saves : InFlight(p) /\ InFlight(q) => p = q
        /\ \A q \in Saves : rows[q] # NoRow => template.id = q \/ call[q].pc = "find"
        /\ \A q \in Saves : InFlight(q) => call[q].template.id = template.id
        /\ \A q \in Saves : CallOK(q)
    BY <2>1 DEF EditorInv, Rest, OneInv
  <2>3. \A q \in Saves : call[q].pc = "find" => InFlight(q) /\ template.id = NoRow
    BY <2>2 DEF InFlight, CallOK
  <2>4. Saves \subseteq TemplateIds /\ NoRow \notin TemplateIds
    BY EditorAssumption, ContextAssumption
  <2> QED BY <2>1, <2>2, <2>3, <2>4
<1> QED BY EditorInvariance, <1>1, PTL

\* The reducer's stacks, also beside its saves, implement the timeline.
THEOREM TimelineImplemented == Spec => Timeline
<1>1. Init => Line!Init
  <2>1. SUFFICES ASSUME Init PROVE Line!Init
    OBVIOUS
  <2>2. history = <<>> /\ future = <<>>
    BY <2>1 DEF Init, InitNew, InitOpened, ContextInit
  <2>3. elements \in Pages
    BY <2>1, InitOK DEF EditorInv, ContextOK, ContextTypeOK
  <2>4. <<elements>> \in Seq(Pages) /\ <<>> \in Seq(Pages) /\ Len(<<>>) = 0
    BY <2>3, EmptySeq
  <2>5. history \o <<elements>> \o future = <<elements>>
    BY <2>2, <2>4, ConcatEmptySeq
  <2>6. Len(history) + 1 = 1
    BY <2>2, <2>4
  <2> QED BY <2>3, <2>5, <2>6 DEF Line!Init
<1>2. EditorInv /\ [Next]_vars => LineNext \/ UNCHANGED LineVars
  <2> SUFFICES ASSUME EditorInv, [Next]_vars PROVE LineNext \/ UNCHANGED LineVars
    OBVIOUS
  <2>1. ContextOK
    BY DEF EditorInv
  <2>2. CASE Keystroke
    <3>1. CASE Edits
      BY <3>1, <2>1, EditsKeep DEF Edited
    <3>2. CASE Selects
      BY <3>2, <2>1, SelectsKeep DEF LineVars
    <3> QED BY <2>2, <3>1, <3>2 DEF Keystroke
  <2>3. ASSUME NEW s \in Saves,
               HandleSave(s) \/ Rejected(s) \/ Create(s) \/ EditRow(s) \/ Find(s)
        PROVE  UNCHANGED LineVars
    <3>1. UNCHANGED <<elements, history, future>>
      BY <2>3 DEF HandleSave, Rejected, Create, EditRow, Find, Saved, MarkSaved,
                  contextVars, stacks
    <3> QED BY <3>1 DEF LineVars
  <2>4. CASE UNCHANGED vars
    BY <2>4 DEF vars, contextVars, stacks, LineVars
  <2> QED BY <2>2, <2>3, <2>4 DEF Next
<1>3. LineNext \/ UNCHANGED LineVars => [Line!Next]_LineVars
  BY DEF LineNext
<1> QED BY EditorInvariance, <1>1, <1>2, <1>3, PTL DEF Spec, Timeline, Line!Spec, LineVars
=============================================================================
