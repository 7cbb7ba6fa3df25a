---------------------------- MODULE LoginThrottle ----------------------------
(***************************************************************************)
(* The brute-force protection of Login: the rows of sa_t_login_attempt it  *)
(* counts, and the lock in sa_m_user.locked_until.                         *)
(*                                                                         *)
(* Rows are counted per username and the lock belongs to one user, so one  *)
(* user is enough.  Each element of Logins is one POST of that user's      *)
(* token, a goroutine of its own, used once; each action is one database   *)
(* call, together with the branch taken on its result.  A login writes at  *)
(* most two rows: its ATTEMPT, and the row that says how it ended.  The    *)
(* counter failed_login_count is left out: nothing reads it.  What Login   *)
(* does after the session row is created belongs to SessionCache.          *)
(***************************************************************************)
EXTENDS Naturals, FiniteSets

CONSTANTS
    Logins,
    MaxFailedAttempts,   \* LOGIN_MAX_FAILED_ATTEMPTS
    Window,              \* LOGIN_RATE_LIMIT_WINDOW_MIN, in clock ticks
    LockDuration,        \* LOGIN_LOCK_DURATION_MIN, in clock ticks
    MaxClock,            \* bound on the clock
    Calls,               \* the calls that may fail, by their pc
    MaxFaults            \* bound on the number of failing calls

ASSUME ThrottleAssumption ==
    /\ IsFiniteSet(Logins)
    /\ MaxFailedAttempts \in Nat \ {0}
    /\ Window \in Nat \ {0}
    /\ LockDuration \in Nat \ {0}
    /\ MaxClock \in Nat
    /\ MaxFaults \in Nat

VARIABLES
    attempt,   \* the ATTEMPT row of each login
    outcome,   \* its LOCKED, EXCEEDED_LIMIT or success row
    account,   \* sa_m_user: does the row exist, and locked_until (0: NULL)
    login,     \* the goroutines
    clock, faults

vars == <<attempt, outcome, account, login, clock, faults>>

-----------------------------------------------------------------------------
\* "failed": is_success = false; "cleared": is_deleted = true.
Row   == [state : {"none", "failed", "success", "cleared"}, at : Nat]
NoRow == [state |-> "none", at |-> 0]

PC == {"start", "readUser", "unlockReset", "unlockClear", "count", "lock", "refuse",
       "upsertRead", "create", "save", "reset", "session", "success",
       "refused", "failed", "done"}

\* known: existingUser was read; until: a locked_until held in memory;
\* counted: the count was read and was below the limit.
Login == [pc : PC, known : BOOLEAN, until : Nat, counted : BOOLEAN]

TypeOK ==
    /\ attempt \in [Logins -> Row]
    /\ outcome \in [Logins -> Row]
    /\ account \in [exists : BOOLEAN, until : Nat]
    /\ login \in [Logins -> Login]
    /\ clock \in Nat
    /\ faults \in Nat

Init ==
    /\ attempt = [l \in Logins |-> NoRow]
    /\ outcome = [l \in Logins |-> NoRow]
    /\ account \in [exists : BOOLEAN, until : {0}]
    /\ login = [l \in Logins |-> [pc |-> "start", known |-> FALSE,
                                  until |-> 0, counted |-> FALSE]]
    /\ clock = 0
    /\ faults = 0

-----------------------------------------------------------------------------
At(l, pc) == login[l].pc = pc
Goto(l, pc) == login' = [login EXCEPT ![l].pc = pc]

Succeeds == UNCHANGED faults
Fails(l) ==
    /\ login[l].pc \in Calls
    /\ faults < MaxFaults
    /\ faults' = faults + 1

Locked == account.until > clock

\* CountFailedInWindow
Failed(rows) ==
    {l \in Logins : rows[l].state = "failed" /\ rows[l].at + Window >= clock}
FailedInWindow == Cardinality(Failed(attempt)) + Cardinality(Failed(outcome))

\* writeLoginAttempt: a failed insert is logged, and the login goes on.
WriteAttempt(l) ==
    /\ At(l, "start")
    /\ \/ Succeeds /\ attempt' = [attempt EXCEPT ![l] = [state |-> "failed", at |-> clock]]
       \/ Fails(l) /\ UNCHANGED attempt
    /\ Goto(l, "readUser")
    /\ UNCHANGED <<outcome, account, clock>>

ReadUser_Backwards(l) ==
    /\ At(l, "readUser")
    /\ Succeeds
    /\ LET next == IF ~account.exists \/ account.until = 0 THEN "count"
                   ELSE IF Locked THEN "unlockReset" ELSE "refuse"
       IN login' = [login EXCEPT ![l].pc = next, ![l].known = account.exists]
    /\ UNCHANGED <<attempt, outcome, account, clock>>

\* FindByKeycloakId and the check of LockedUntil: a user that could not be read
\* is a user that does not exist.
ReadUser(l) ==
    /\ At(l, "readUser")
    /\ \/ /\ Succeeds
          /\ LET next == IF ~account.exists \/ account.until = 0 THEN "count"
                         ELSE IF Locked THEN "refuse" ELSE "unlockReset"
             IN login' = [login EXCEPT ![l].pc = next, ![l].known = account.exists]
       \/ Fails(l) /\ Goto(l, "count")
    /\ UNCHANGED <<attempt, outcome, account, clock>>

\* The lock is over: ResetFailedLogin, then ClearFailedAttempts.
UnlockReset(l) ==
    /\ At(l, "unlockReset")
    /\ \/ Succeeds /\ account' = [account EXCEPT !.until = 0]
       \/ Fails(l) /\ UNCHANGED account
    /\ Goto(l, "unlockClear")
    /\ UNCHANGED <<attempt, outcome, clock>>

Cleared(rows) ==
    [l \in Logins |-> IF rows[l].state = "failed"
                      THEN [rows[l] EXCEPT !.state = "cleared"] ELSE rows[l]]

UnlockClear(l) ==
    /\ At(l, "unlockClear")
    /\ \/ Succeeds /\ attempt' = Cleared(attempt) /\ outcome' = Cleared(outcome)
       \/ Fails(l) /\ UNCHANGED <<attempt, outcome>>
    /\ Goto(l, "count")
    /\ UNCHANGED <<account, clock>>

Count_OneTooMany(l) ==
    /\ At(l, "count")
    /\ Succeeds
    /\ IF FailedInWindow > MaxFailedAttempts
       THEN login' = [login EXCEPT ![l].until = clock + LockDuration,
                        ![l].pc = IF login[l].known THEN "lock" ELSE "refuse"]
       ELSE login' = [login EXCEPT ![l].pc = "upsertRead", ![l].counted = TRUE]
    /\ UNCHANGED <<attempt, outcome, account, clock>>

\* A count that could not be read is zero.
Count(l) ==
    /\ At(l, "count")
    /\ \/ /\ Succeeds
          /\ IF FailedInWindow >= MaxFailedAttempts
             THEN login' = [login EXCEPT ![l].until = clock + LockDuration,
                              ![l].pc = IF login[l].known THEN "lock" ELSE "refuse"]
             ELSE login' = [login EXCEPT ![l].pc = "upsertRead", ![l].counted = TRUE]
       \/ Fails(l) /\ Goto(l, "upsertRead")
    /\ UNCHANGED <<attempt, outcome, account, clock>>

\* IncrementFailedLogin
LockAccount(l) ==
    /\ At(l, "lock")
    /\ \/ Succeeds /\ account' = [account EXCEPT !.until = login[l].until]
       \/ Fails(l) /\ UNCHANGED account
    /\ Goto(l, "refuse")
    /\ UNCHANGED <<attempt, outcome, clock>>

Refuse_ByReason(l) ==
    /\ At(l, "refuse")
    /\ Succeeds
    /\ outcome' = [outcome EXCEPT ![l] = [state |-> "EXCEEDED_LIMIT", at |-> clock]]
    /\ Goto(l, "refused")
    /\ UNCHANGED <<attempt, account, clock>>

\* The row that records a LOCKED or EXCEEDED_LIMIT refusal.
Refuse(l) ==
    /\ At(l, "refuse")
    /\ \/ Succeeds /\ outcome' = [outcome EXCEPT ![l] = [state |-> "failed", at |-> clock]]
       \/ Fails(l) /\ UNCHANGED outcome
    /\ Goto(l, "refused")
    /\ UNCHANGED <<attempt, account, clock>>

-----------------------------------------------------------------------------
\* UpsertByKeycloakId reads the whole row and saves it whole, the lock included.
UpsertRead(l) ==
    /\ At(l, "upsertRead")
    /\ \/ /\ Succeeds
          /\ IF account.exists
             THEN login' = [login EXCEPT ![l].pc = "save", ![l].until = account.until]
             ELSE Goto(l, "create")
       \/ Fails(l) /\ Goto(l, "failed")
    /\ UNCHANGED <<attempt, outcome, account, clock>>

\* uk_keycloak_id refuses a second row.
UpsertCreate(l) ==
    /\ At(l, "create")
    /\ \/ /\ Succeeds /\ ~account.exists
          /\ account' = [exists |-> TRUE, until |-> 0]
          /\ Goto(l, "reset")
       \/ /\ (Succeeds /\ account.exists) \/ Fails(l)
          /\ Goto(l, "failed")
          /\ UNCHANGED account
    /\ UNCHANGED <<attempt, outcome, clock>>

UpsertSave(l) ==
    /\ At(l, "save")
    /\ \/ /\ Succeeds
          /\ account' = [account EXCEPT !.until = login[l].until]
          /\ Goto(l, "reset")
       \/ Fails(l) /\ Goto(l, "failed") /\ UNCHANGED account
    /\ UNCHANGED <<attempt, outcome, clock>>

ResetFailedLogin(l) ==
    /\ At(l, "reset")
    /\ \/ Succeeds /\ account' = [account EXCEPT !.until = 0]
       \/ Fails(l) /\ UNCHANGED account
    /\ Goto(l, "session")
    /\ UNCHANGED <<attempt, outcome, clock>>

CreateSession(l) ==
    /\ At(l, "session")
    /\ \/ Succeeds /\ Goto(l, "success")
       \/ Fails(l) /\ Goto(l, "failed")
    /\ UNCHANGED <<attempt, outcome, account, clock>>

WriteSuccess(l) ==
    /\ At(l, "success")
    /\ \/ Succeeds /\ outcome' = [outcome EXCEPT ![l] = [state |-> "success", at |-> clock]]
       \/ Fails(l) /\ UNCHANGED outcome
    /\ Goto(l, "done")
    /\ UNCHANGED <<attempt, account, clock>>

Tick ==
    /\ clock < MaxClock
    /\ clock' = clock + 1
    /\ UNCHANGED <<attempt, outcome, account, login, faults>>

Step(l) ==
    \/ WriteAttempt(l) \/ ReadUser(l) \/ UnlockReset(l) \/ UnlockClear(l)
    \/ Count(l) \/ LockAccount(l) \/ Refuse(l)
    \/ UpsertRead(l) \/ UpsertCreate(l) \/ UpsertSave(l) \/ ResetFailedLogin(l)
    \/ CreateSession(l) \/ WriteSuccess(l)

Next == Tick \/ \E l \in Logins : Step(l)

Spec == Init /\ [][Next]_vars

-----------------------------------------------------------------------------
\* However the logins interleave, fewer than LOGIN_MAX_FAILED_ATTEMPTS of the
\* attempts of one window get past the limit, as long as their rows are not
\* cleared: every login writes its row before it counts, so two that count at
\* the same time see each other.  (A login whose count could not be read is
\* not stopped by it, and is not in the bound.)
AdmittedBounded ==
    Cardinality({l \in Failed(attempt) : login[l].counted}) < MaxFailedAttempts

\* A login that has read the user before it was locked may still lift, shorten
\* or renew the lock: it resets the counter, or saves the row it read.
MayTouchLock(l) ==
    login[l].pc \in {"unlockReset", "unlockClear", "count", "lock",
                     "upsertRead", "save", "reset"}
LockStands == account.exists /\ Locked /\ \A l \in Logins : ~MayTouchLock(l)

\* A lock stands for its whole duration once the logins that were under way
\* have ended: nobody who reads the locked user gets through to lift it.  (A
\* failed read of the user lets a login through: ReadUser ignores the error.)
LockIsKept ==
    [][LockStands =>
          /\ account' = account
          /\ LockStands' \/ clock' >= account.until
                         \/ \E l \in Logins : At(l, "readUser") /\ faults' > faults]_vars

\* "Account is locked due to too many failed login attempts": the login that
\* locks the account is not preceded by successful logins alone.
LockFollowsFailure ==
    [][\A l \in Logins : LockAccount(l) /\ account' # account =>
          \E k \in Logins \ {l} : login[k].pc \notin {"start", "done"}]_vars
=============================================================================
