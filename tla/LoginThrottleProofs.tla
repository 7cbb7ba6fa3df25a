------------------------- MODULE LoginThrottleProofs -------------------------
(***************************************************************************)
(* Proofs about LoginThrottle, for any number of logins and any limit,     *)
(* window and duration, with any of the calls failing.                     *)
(*                                                                         *)
(* The bound on admitted logins rests on one fact about the code: a login  *)
(* is not admitted before its own attempt is written (NotYetCounted), so   *)
(* the last of the admitted logins to count saw the rows of all the others *)
(* and its own.                                                            *)
(***************************************************************************)
EXTENDS LoginThrottle, FiniteSetTheorems, TLAPS

Admitted == {l \in Failed(attempt) : login[l].counted}

NotYetCounted == \A l \in Logins : At(l, "start") => ~login[l].counted

ThrottleInv == TypeOK /\ NotYetCounted /\ AdmittedBounded

-----------------------------------------------------------------------------
\* A set of logins has no more elements than one that includes it.
LEMMA FewerLogins ==
    ASSUME NEW T \in SUBSET Logins, NEW S \in SUBSET T
    PROVE  /\ Cardinality(S) \in Nat
           /\ Cardinality(T) \in Nat
           /\ Cardinality(S) <= Cardinality(T)
<1>1. IsFiniteSet(T)
  BY FS_Subset, ThrottleAssumption
<1>2. IsFiniteSet(S) /\ Cardinality(S) <= Cardinality(T)
  BY <1>1, FS_Subset
<1> QED
  BY <1>1, <1>2, FS_CardinalityType

\* The number of failed attempts is a number, and counts every ATTEMPT row.
LEMMA CountNat ==
    /\ FailedInWindow \in Nat
    /\ Cardinality(Failed(attempt)) <= FailedInWindow
<1>1. Failed(attempt) \in SUBSET Logins /\ Failed(outcome) \in SUBSET Logins
  BY DEF Failed
<1>2. Cardinality(Failed(attempt)) \in Nat /\ Cardinality(Failed(outcome)) \in Nat
  BY <1>1, FewerLogins
<1> QED
  BY <1>2 DEF FailedInWindow

\* A row written is a row.
LEMMA RowWritten ==
    ASSUME NEW rows \in [Logins -> Row], NEW l \in Logins,
           NEW state \in {"failed", "success"}, clock \in Nat
    PROVE  /\ [rows EXCEPT ![l] = [state |-> state, at |-> clock]] \in [Logins -> Row]
           /\ \A k \in Logins \ {l} :
                 [rows EXCEPT ![l] = [state |-> state, at |-> clock]][k] = rows[k]
BY DEF Row

\* Clearing makes no row failed.
LEMMA ClearedRows ==
    ASSUME NEW rows \in [Logins -> Row]
    PROVE  /\ Cleared(rows) \in [Logins -> Row]
           /\ \A k \in Logins : Cleared(rows)[k].state # "failed"
BY DEF Cleared, Row

\* The goroutine of l moves on; the others do not.
Moves(l) ==
    /\ login' \in [Logins -> Login]
    /\ login'[l].pc # "start"
    /\ \A k \in Logins \ {l} : login'[k] = login[k]

LEMMA GotoMoves ==
    ASSUME TypeOK, NEW l \in Logins, NEW pc \in PC \ {"start"}, Goto(l, pc)
    PROVE  /\ Moves(l)
           /\ login'[l].pc = pc
           /\ login'[l].counted = login[l].counted
BY DEF TypeOK, Login, Goto, Moves

\* What a step of l does: the types are kept, l moves on and is admitted only by
\* Count, and no row becomes failed but l's own ATTEMPT, at the start.
Stepped(l) ==
    /\ TypeOK'
    /\ Moves(l)
    /\ login'[l].counted => login[l].counted \/ Count(l)
    /\ clock' = clock
    /\ \A k \in Logins : attempt'[k].state = "failed" =>
          attempt'[k] = attempt[k] \/ (k = l /\ At(l, "start"))

LEMMA StepEffect ==
    ASSUME TypeOK, NEW l \in Logins, Step(l)
    PROVE  Stepped(l)
<1> DEFINE T == /\ attempt' \in [Logins -> Row] /\ outcome' \in [Logins -> Row]
                /\ account' \in [exists : BOOLEAN, until : Nat]
                /\ clock' \in Nat /\ faults' \in Nat
<1> DEFINE C == login'[l].counted => login[l].counted \/ Count(l)
<1> DEFINE A == \A k \in Logins : attempt'[k].state = "failed" =>
                   attempt'[k] = attempt[k] \/ (k = l /\ At(l, "start"))
<1> USE DEF TypeOK, Succeeds, Fails
<1>1. CASE WriteAttempt(l)
  <2>1. Moves(l) /\ C
    BY <1>1, GotoMoves DEF WriteAttempt, PC
  <2>2. T /\ A
    BY <1>1, RowWritten DEF WriteAttempt
  <2> QED
    BY <1>1, <2>1, <2>2 DEF Stepped, Moves, WriteAttempt
<1>2. CASE ReadUser(l)
  <2>1. CASE Goto(l, "count")
    BY <1>2, <2>1, GotoMoves DEF ReadUser, PC, Stepped, Moves
  <2>2. ASSUME NEW next \in {"count", "refuse", "unlockReset"},
               login' = [login EXCEPT ![l].pc = next, ![l].known = account.exists]
        PROVE  Moves(l) /\ C
    BY <2>2 DEF Moves, Login, PC
  <2>3. CASE login' = [login EXCEPT
                        ![l].pc = IF ~account.exists \/ account.until = 0 THEN "count"
                                  ELSE IF Locked THEN "refuse" ELSE "unlockReset",
                        ![l].known = account.exists]
    <3>1. Moves(l) /\ C
      BY <2>2, <2>3
    <3> QED
      BY <1>2, <3>1 DEF ReadUser, Stepped, Moves
  <2> QED
    BY <1>2, <2>1, <2>3 DEF ReadUser
<1>3. CASE UnlockReset(l)
  <2>1. Moves(l) /\ C
    BY <1>3, GotoMoves DEF UnlockReset, PC
  <2> QED
    BY <1>3, <2>1 DEF Stepped, Moves, UnlockReset
<1>4. CASE UnlockClear(l)
  <2>1. Moves(l) /\ C
    BY <1>4, GotoMoves DEF UnlockClear, PC
  <2>2. T /\ A
    BY <1>4, ClearedRows DEF UnlockClear
  <2> QED
    BY <1>4, <2>1, <2>2 DEF Stepped, Moves, UnlockClear
<1>5. CASE Count(l)
  <2>1. CASE Goto(l, "upsertRead")
    BY <1>5, <2>1, GotoMoves DEF Count, PC, Stepped, Moves
  <2>2. ASSUME NEW next \in {"lock", "refuse"},
               login' = [login EXCEPT ![l].until = clock + LockDuration, ![l].pc = next]
        PROVE  Moves(l)
    <3>1. clock + LockDuration \in Nat
      BY ThrottleAssumption
    <3> QED
      BY <2>2, <3>1 DEF Moves, Login, PC
  <2>3. CASE login' = [login EXCEPT ![l].pc = "upsertRead", ![l].counted = TRUE]
    BY <1>5, <2>3 DEF Moves, Login, PC, Count, Stepped
  <2>4. CASE login' = [login EXCEPT ![l].until = clock + LockDuration,
                         ![l].pc = IF login[l].known THEN "lock" ELSE "refuse"]
    <3>1. Moves(l)
      BY <2>2, <2>4
    <3> QED
      BY <1>5, <3>1 DEF Count, Stepped, Moves
  <2> QED
    BY <1>5, <2>1, <2>3, <2>4 DEF Count
<1>6. CASE LockAccount(l)
  <2>1. Moves(l) /\ C
    BY <1>6, GotoMoves DEF LockAccount, PC
  <2>2. login[l].until \in Nat
    BY DEF Login
  <2> QED
    BY <1>6, <2>1, <2>2 DEF Stepped, Moves, LockAccount
<1>7. CASE Refuse(l)
  <2>1. Moves(l) /\ C
    BY <1>7, GotoMoves DEF Refuse, PC
  <2>2. T /\ A
    BY <1>7, RowWritten DEF Refuse
  <2> QED
    BY <1>7, <2>1, <2>2 DEF Stepped, Moves, Refuse
<1>8. CASE UpsertRead(l)
  <2>1. CASE Goto(l, "create")
    BY <1>8, <2>1, GotoMoves DEF UpsertRead, PC, Stepped, Moves
  <2>2. CASE Goto(l, "failed")
    BY <1>8, <2>2, GotoMoves DEF UpsertRead, PC, Stepped, Moves
  <2>3. CASE login' = [login EXCEPT ![l].pc = "save", ![l].until = account.until]
    <3>1. account.until \in Nat
      OBVIOUS
    <3>2. Moves(l) /\ login'[l].counted = login[l].counted
      BY <2>3, <3>1 DEF Moves, Login, PC
    <3> QED
      BY <1>8, <3>2 DEF UpsertRead, Stepped, Moves
  <2> QED
    BY <1>8, <2>1, <2>2, <2>3 DEF UpsertRead
<1>9. CASE UpsertCreate(l)
  <2>1. Moves(l) /\ C
    BY <1>9, GotoMoves DEF UpsertCreate, PC
  <2>2. [exists |-> TRUE, until |-> 0] \in [exists : BOOLEAN, until : Nat]
    OBVIOUS
  <2>3. account' \in [exists : BOOLEAN, until : Nat]
    BY <1>9, <2>2 DEF UpsertCreate
  <2> QED
    BY <1>9, <2>1, <2>3 DEF Stepped, Moves, UpsertCreate
<1>10. CASE UpsertSave(l)
  <2>1. Moves(l) /\ C
    BY <1>10, GotoMoves DEF UpsertSave, PC
  <2>2. [account EXCEPT !.until = login[l].until] \in [exists : BOOLEAN, until : Nat]
    BY DEF Login
  <2>3. account' \in [exists : BOOLEAN, until : Nat]
    BY <1>10, <2>2 DEF UpsertSave
  <2> QED
    BY <1>10, <2>1, <2>3 DEF Stepped, Moves, UpsertSave
<1>11. CASE ResetFailedLogin(l)
  <2>1. Moves(l) /\ C
    BY <1>11, GotoMoves DEF ResetFailedLogin, PC
  <2> QED
    BY <1>11, <2>1 DEF Stepped, Moves, ResetFailedLogin
<1>12. CASE CreateSession(l)
  <2>1. Moves(l) /\ C
    BY <1>12, GotoMoves DEF CreateSession, PC
  <2> QED
    BY <1>12, <2>1 DEF Stepped, Moves, CreateSession
<1>13. CASE WriteSuccess(l)
  <2>1. Moves(l) /\ C
    BY <1>13, GotoMoves DEF WriteSuccess, PC
  <2>2. T /\ A
    BY <1>13, RowWritten DEF WriteSuccess
  <2> QED
    BY <1>13, <2>1, <2>2 DEF Stepped, Moves, WriteSuccess
<1> QED
  BY <1>1, <1>2, <1>3, <1>4, <1>5, <1>6, <1>7, <1>8, <1>9, <1>10,
     <1>11, <1>12, <1>13 DEF Step

\* Every step keeps the types.
LEMMA TypeNext == TypeOK /\ [Next]_vars => TypeOK'
<1> SUFFICES ASSUME TypeOK, [Next]_vars PROVE TypeOK'
  OBVIOUS
<1>1. CASE Tick
  BY <1>1 DEF Tick, TypeOK
<1>2. ASSUME NEW l \in Logins, Step(l) PROVE TypeOK'
  BY <1>2, StepEffect DEF Stepped
<1>3. CASE UNCHANGED vars
  BY <1>3 DEF vars, TypeOK
<1> QED
  BY <1>1, <1>2, <1>3 DEF Next

\* The variables are of their types in every state.
THEOREM ThrottleTypeCorrect == Spec => []TypeOK
<1>1. Init => TypeOK
  BY DEF Init, TypeOK, Row, NoRow, Login, PC
<1> QED
  BY <1>1, TypeNext, PTL DEF Spec

-----------------------------------------------------------------------------
\* Login l reads a count below the limit.
CountAdmits(l) == Count(l) /\ login'[l].counted /\ ~login[l].counted

\* Only Count admits a login, and it admits its own; a row that was not failed
\* becomes so only in WriteAttempt, before the login counts.
LEMMA AdmittedGrows ==
    ASSUME TypeOK, NotYetCounted, [Next]_vars,
           ~ \E l \in Logins : CountAdmits(l)
    PROVE  NotYetCounted' /\ Admitted' \subseteq Admitted
<1>1. CASE Tick
  <2>1. Failed(attempt)' \subseteq Failed(attempt)
    BY <1>1, ThrottleAssumption DEF Tick, Failed, TypeOK, Row
  <2> QED
    BY <1>1, <2>1 DEF Tick, NotYetCounted, Admitted, At
<1>2. ASSUME NEW l \in Logins, Step(l) PROVE NotYetCounted' /\ Admitted' \subseteq Admitted
  <2>1. Stepped(l)
    BY <1>2, StepEffect
  <2>2. \A k \in Logins : login'[k].counted => login[k].counted
    BY <1>2, <2>1 DEF Stepped, Moves, CountAdmits
  <2>3. NotYetCounted'
    BY <2>1 DEF Stepped, Moves, NotYetCounted, At
  <2>4. ASSUME NEW k \in Admitted' PROVE k \in Admitted
    <3>1. k \in Logins /\ login'[k].counted /\ attempt'[k].state = "failed"
      BY <2>4 DEF Admitted, Failed
    <3>2. login[k].counted
      BY <2>2, <3>1
    <3>3. attempt'[k] = attempt[k]
      BY <2>1, <3>1, <3>2 DEF Stepped, NotYetCounted
    <3> QED
      BY <2>1, <2>4, <3>2, <3>3 DEF Admitted, Failed, Stepped
  <2> QED
    BY <2>3, <2>4
<1>3. CASE UNCHANGED vars
  BY <1>3 DEF vars, NotYetCounted, Admitted, Failed, At
<1> QED
  BY <1>1, <1>2, <1>3 DEF Next

\* A login that counts fewer failed attempts than the limit leaves fewer
\* admitted logins than the limit, its own included.
LEMMA CountBounds ==
    ASSUME TypeOK, NotYetCounted, NEW l \in Logins, CountAdmits(l)
    PROVE  NotYetCounted' /\ AdmittedBounded'
<1>1. NotYetCounted'
  <2>1. Stepped(l)
    BY StepEffect DEF CountAdmits, Step
  <2> QED
    BY <2>1 DEF Stepped, Moves, NotYetCounted, At
<1>2. FailedInWindow < MaxFailedAttempts /\ UNCHANGED <<attempt, outcome, clock>>
  <2>1. CASE Goto(l, "upsertRead")
    BY <2>1, GotoMoves DEF CountAdmits, PC
  <2>2. CASE FailedInWindow >= MaxFailedAttempts /\
             login' = [login EXCEPT ![l].until = clock + LockDuration,
                         ![l].pc = IF login[l].known THEN "lock" ELSE "refuse"]
    BY <2>2 DEF CountAdmits, TypeOK, Login
  <2> QED
    BY <2>1, <2>2, CountNat, ThrottleAssumption DEF CountAdmits, Count
<1>3. Admitted' \subseteq Failed(attempt) /\ Failed(attempt) \in SUBSET Logins
  BY <1>2 DEF Admitted, Failed
<1>4. /\ Cardinality(Admitted') \in Nat
      /\ Cardinality(Admitted') <= Cardinality(Failed(attempt))
      /\ Cardinality(Failed(attempt)) \in Nat
  BY <1>3, FewerLogins
<1>5. Cardinality(Admitted') < MaxFailedAttempts
  BY <1>2, <1>4, CountNat, ThrottleAssumption
<1> QED
  BY <1>1, <1>5 DEF AdmittedBounded, Admitted

\* The invariant is inductive.
LEMMA ThrottleInvNext == ThrottleInv /\ [Next]_vars => ThrottleInv'
<1> SUFFICES ASSUME ThrottleInv, [Next]_vars PROVE ThrottleInv'
  OBVIOUS
<1>1. TypeOK'
  BY TypeNext DEF ThrottleInv
<1>2. CASE \E l \in Logins : CountAdmits(l)
  BY <1>1, <1>2, CountBounds DEF ThrottleInv
<1>3. CASE ~ \E l \in Logins : CountAdmits(l)
  <2>1. NotYetCounted' /\ Admitted' \subseteq Admitted
    BY <1>3, AdmittedGrows DEF ThrottleInv
  <2>2. /\ Cardinality(Admitted') \in Nat
        /\ Cardinality(Admitted) \in Nat
        /\ Cardinality(Admitted') <= Cardinality(Admitted)
    BY <2>1, FewerLogins DEF Admitted, Failed
  <2>3. Cardinality(Admitted) < MaxFailedAttempts
    BY DEF ThrottleInv, AdmittedBounded, Admitted
  <2>4. Cardinality(Admitted') < MaxFailedAttempts
    BY <2>2, <2>3, ThrottleAssumption
  <2> QED
    BY <1>1, <2>1, <2>4 DEF ThrottleInv, AdmittedBounded, Admitted
<1> QED
  BY <1>2, <1>3

\* Fewer logins than the limit are let through by their count within one
\* window, however many arrive at the same time.
THEOREM AdmissionBounded == Spec => []AdmittedBounded
<1>1. Init => ThrottleInv
  <2> SUFFICES ASSUME Init PROVE ThrottleInv
    OBVIOUS
  <2>1. TypeOK
    BY DEF Init, TypeOK, Row, NoRow, Login, PC
  <2>2. NotYetCounted
    BY DEF Init, NotYetCounted
  <2>3. Admitted = {}
    BY DEF Init, Admitted, Failed, NoRow
  <2>4. AdmittedBounded
    BY <2>3, FS_EmptySet, ThrottleAssumption DEF AdmittedBounded, Admitted
  <2> QED
    BY <2>1, <2>2, <2>4 DEF ThrottleInv
<1>2. ThrottleInv => AdmittedBounded
  BY DEF ThrottleInv
<1> QED
  BY <1>1, <1>2, ThrottleInvNext, PTL DEF Spec

-----------------------------------------------------------------------------
\* A lock that stands is kept by every step.
LEMMA LockKept ==
    ASSUME TypeOK, [Next]_vars, LockStands
    PROVE  /\ account' = account
           /\ LockStands' \/ clock' >= account.until
                          \/ \E l \in Logins : At(l, "readUser") /\ faults' > faults
<1> USE DEF TypeOK, Login, At, Goto, LockStands, MayTouchLock, Locked
<1>1. CASE Tick
  BY <1>1 DEF Tick
<1>2. ASSUME NEW l \in Logins, Step(l)
      PROVE  /\ account' = account
             /\ LockStands' \/ (At(l, "readUser") /\ faults' > faults)
  <2>1. ~MayTouchLock(l)
    OBVIOUS
  <2>2. CASE WriteAttempt(l)
    BY <2>2 DEF WriteAttempt
  <2>3. CASE ReadUser(l)
    BY <2>3 DEF ReadUser, Fails
  <2>4. CASE Refuse(l)
    BY <2>4 DEF Refuse
  <2>5. CASE UpsertCreate(l)
    BY <2>5 DEF UpsertCreate
  <2>6. CASE CreateSession(l)
    BY <2>6 DEF CreateSession
  <2>7. CASE WriteSuccess(l)
    BY <2>7 DEF WriteSuccess
  <2> QED
    BY <1>2, <2>1, <2>2, <2>3, <2>4, <2>5, <2>6, <2>7
       DEF Step, UnlockReset, UnlockClear, Count, LockAccount, UpsertRead, UpsertSave,
           ResetFailedLogin
<1>3. CASE UNCHANGED vars
  BY <1>3 DEF vars
<1> QED
  BY <1>1, <1>2, <1>3 DEF Next

\* A lock stands for its whole duration once the logins that read the user
\* before it was set have ended.
THEOREM LockKeptForItsDuration == Spec => LockIsKept
<1>1. TypeOK /\ [Next]_vars =>
        [LockStands =>
          /\ account' = account
          /\ LockStands' \/ clock' >= account.until
                         \/ \E l \in Logins : At(l, "readUser") /\ faults' > faults]_vars
  BY LockKept
<1> QED
  BY <1>1, ThrottleTypeCorrect, PTL DEF Spec, LockIsKept
=============================================================================
