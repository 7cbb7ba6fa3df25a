---------------------------- MODULE SessionCache ----------------------------
(***************************************************************************)
(* Sessions of the smart-access service: the rows of sa_t_session, the     *)
(* polaris:session:{id} documents in Redis that the Access Gate reads, and *)
(* the request handlers and goroutines that keep the two in step.          *)
(*                                                                         *)
(* Every HTTP handler is a sequence of database and Redis calls, and       *)
(* handlers run concurrently, one goroutine per request.  A process of     *)
(* Procs is one such goroutine; each of its actions is one call (calls on  *)
(* data nobody else writes are folded into the next one).  A goroutine the *)
(* handler detaches with `go` continues in the same process: nothing reads *)
(* the response that was sent in between.                                  *)
(*                                                                         *)
(* Owner, role and warehouse lists are sets.  The empty owner set is the   *)
(* nil slice of the code: unrestricted access.  Usernames are left out:    *)
(* sa_m_user.username never changes, and every cache write takes it from   *)
(* there.  Whether a user may enter a warehouse is answered by             *)
(* sa_r_user_warehouse and by the master-data service: either answer may   *)
(* come back.                                                              *)
(*                                                                         *)
(* A definition named Def_Bug is Def with a bug seeded; no specification   *)
(* uses it.  The checks put it in Def's place to see the properties fail.  *)
(***************************************************************************)
EXTENDS Naturals, FiniteSets

CONSTANTS
    Users, Sessions, Owners, Roles, Warehouses,
    Procs,        \* goroutines that may run at the same time
    NoUser, NoWarehouse,
    Timeout,      \* SES_TIMEOUT_MIN, in clock ticks
    MaxClock,     \* bound on the clock
    Ops,          \* the operations a run exercises
    FaultyOps,    \* the operations whose database and Redis calls may fail
    MaxFaults     \* bound on the number of failing calls

AllOps == {"login", "switch", "logout", "current", "owner", "role", "keep",
           "status", "deactivate"}

ASSUME SessionAssumption ==
    /\ NoUser \notin Users
    /\ NoWarehouse \notin Warehouses
    /\ Timeout \in Nat \ {0}
    /\ MaxClock \in Nat
    /\ MaxFaults \in Nat
    /\ Ops \subseteq AllOps
    /\ FaultyOps \subseteq Ops
    /\ Sessions # {}

VARIABLES
    sess,        \* sa_t_session
    cache,       \* polaris:session:{id}
    userOwners,  \* sa_r_user_owner, rows not deleted
    userRoles,   \* sa_r_user_role, rows not deleted, whatever their role's status
    roleStatus,  \* sa_m_role.status
    proc,        \* the goroutines
    clock,       \* time.Now()
    faults       \* failed calls so far

vars == <<sess, cache, userOwners, userRoles, roleStatus, proc, clock, faults>>

-----------------------------------------------------------------------------
Status == {"NONE", "ACTIVE", "INVALIDATED"}   \* NONE: the row does not exist
Wh     == Warehouses \cup {NoWarehouse}

\* FRESH: ACTIVE, as Role.Save creates it; the others: as Role.Update and
\* Role.Delete left it.  A deleted role counts as INACTIVE.
RoleStatus == {"FRESH", "ACTIVE", "INACTIVE"}

SessRow == [status: Status, user: Users \cup {NoUser}, wh: Wh,
            roles: SUBSET Roles, exp: Nat]
Entry   == [user: Users \cup {NoUser}, wh: Wh, owners: SUBSET Owners,
            roles: SUBSET Roles, exp: Nat]

NoRow == [status |-> "NONE", user |-> NoUser, wh |-> NoWarehouse,
          roles |-> {}, exp |-> 0]
Gone  == [user |-> NoUser, wh |-> NoWarehouse, owners |-> {},
          roles |-> {}, exp |-> 0]             \* no key in Redis

PC == {"idle",
       "loginCreate", "readOwners", "readRoles", "populate",
       "swValidate", "swUpdate", "loInvalidate",
       "gcRedis", "gcHitDb", "gcHitOwners", "gcMissDb", "gcMissOwners",
       "healRead", "healWrite",
       "rfSessions", "rfOwners", "rfWrite", "rfClear",
       "roleRows", "keepRows", "invFind", "invDb", "invClear"}

\* A row of a FindActiveByUserId result.  Its user, role set and expiry never
\* change after Create, so they are read from sess when they are needed.
Found == [sid: Sessions, wh: Wh]

Goroutine == [op: AllOps, pc: PC, sid: Sessions, user: Users \cup {NoUser},
              wh: Wh, owners: SUBSET Owners, roles: SUBSET Roles,
              todo: SUBSET Found, clear: SUBSET Sessions, now: Nat, err: BOOLEAN]

AnySession == CHOOSE s \in Sessions : TRUE
Idle == [op |-> "logout", pc |-> "idle", sid |-> AnySession, user |-> NoUser,
         wh |-> NoWarehouse, owners |-> {}, roles |-> {},
         todo |-> {}, clear |-> {}, now |-> 0, err |-> FALSE]

TypeOK ==
    /\ sess \in [Sessions -> SessRow]
    /\ cache \in [Sessions -> Entry]
    /\ userOwners \in [Users -> SUBSET Owners]
    /\ userRoles \in [Users -> SUBSET Roles]
    /\ roleStatus \in [Roles -> RoleStatus]
    /\ proc \in [Procs -> Goroutine]
    /\ clock \in Nat
    /\ faults \in Nat

Init ==
    /\ sess = [s \in Sessions |-> NoRow]
    /\ cache = [s \in Sessions |-> Gone]
    /\ userOwners \in [Users -> SUBSET Owners]
    /\ userRoles \in [Users -> SUBSET Roles]
    /\ roleStatus = [r \in Roles |-> "FRESH"]
    /\ proc = [p \in Procs |-> Idle]
    /\ clock = 0
    /\ faults = 0

-----------------------------------------------------------------------------
At(p, pc) == proc[p].pc = pc
Become(p, g) == proc' = [proc EXCEPT ![p] = g]
Goto(p, pc) == Become(p, [proc[p] EXCEPT !.pc = pc])
Return(p) == Become(p, Idle)
Start(op, pc) == [Idle EXCEPT !.op = op, !.pc = pc]

\* InvalidateAllUserSessions is given the user and knows nothing else.
Invalidate(p) ==
    Become(p, [Start(proc[p].op, "invFind") EXCEPT !.sid = proc[p].sid,
                                                   !.user = proc[p].user])

\* The calls this step makes succeed, or n of them return an error.
Succeeds == UNCHANGED faults
CallsFail(op, n) ==
    /\ op \in FaultyOps
    /\ faults + n <= MaxFaults
    /\ faults' = faults + n
Fails(p) == CallsFail(proc[p].op, 1)

SetCache(s, e) == cache' = [cache EXCEPT ![s] = e]
DeleteCache(s) == SetCache(s, Gone)

ActiveOf(u) == {s \in Sessions : sess[s].status = "ACTIVE" /\ sess[s].user = u}
FindActiveByUserId_NoWarehouse(u) ==
    {[sid |-> s, wh |-> NoWarehouse] : s \in ActiveOf(u)}
FindActiveByUserId(u) == {[sid |-> s, wh |-> sess[s].wh] : s \in ActiveOf(u)}

\* deleteSessionCache: the entry goes, unless Redis refuses, which is logged.
DropEntry(p, s) ==
    \/ Succeeds /\ DeleteCache(s)
    \/ Fails(p) /\ UNCHANGED cache

\* A call failed, and the handler reacts by dropping the entry: fail-closed.
FailClosed(p, s) ==
    \/ Fails(p) /\ DeleteCache(s)
    \/ CallsFail(proc[p].op, 2) /\ UNCHANGED cache

-----------------------------------------------------------------------------
(* Login, from resolveRoleSet on. *)

\* uuid.NewV7 gives an id that no row and no other login has.
FreshId(s) ==
    /\ sess[s].status = "NONE"
    /\ \A q \in Procs : At(q, "loginCreate") => proc[q].sid # s

(* resolveRoleSet: what cannot be read, one role or all, is left out. *)
ActiveRoles(u) == {r \in userRoles[u] : roleStatus[r] # "INACTIVE"}

LoginResolveRoles(p, u) ==
    /\ At(p, "idle") /\ "login" \in Ops
    /\ \E s \in Sessions, rs \in SUBSET ActiveRoles(u) :
          /\ FreshId(s)
          /\ IF rs = ActiveRoles(u) THEN Succeeds ELSE CallsFail("login", 1)
          /\ Become(p, [Start("login", "loginCreate") EXCEPT
                           !.sid = s, !.user = u, !.roles = rs])
    /\ UNCHANGED <<sess, cache, userOwners, userRoles, roleStatus, clock>>

LoginCreate_ErrorIgnored(p) ==
    /\ At(p, "loginCreate")
    /\ Goto(p, "readOwners")
    /\ \/ /\ Succeeds
          /\ sess' = [sess EXCEPT ![proc[p].sid] =
                        [status |-> "ACTIVE", user |-> proc[p].user,
                         wh |-> NoWarehouse, roles |-> proc[p].roles,
                         exp |-> clock + Timeout]]
       \/ Fails(p) /\ UNCHANGED sess
    /\ UNCHANGED <<cache, userOwners, userRoles, roleStatus, clock>>

LoginCreate(p) ==
    /\ At(p, "loginCreate")
    /\ \/ /\ Succeeds
          /\ sess' = [sess EXCEPT ![proc[p].sid] =
                        [status |-> "ACTIVE", user |-> proc[p].user,
                         wh |-> NoWarehouse, roles |-> proc[p].roles,
                         exp |-> clock + Timeout]]
          /\ Goto(p, "readOwners")
       \/ Fails(p) /\ Return(p) /\ UNCHANGED sess
    /\ UNCHANGED <<cache, userOwners, userRoles, roleStatus, clock>>

(* resolveOwnerIds: a failed read leaves the owner list nil. *)
ReadOwners(p) ==
    /\ At(p, "readOwners")
    /\ \E os \in {userOwners[proc[p].user], {}} :
          /\ IF os = userOwners[proc[p].user] THEN Succeeds ELSE Fails(p)
          /\ Become(p, [proc[p] EXCEPT
                !.owners = os,
                !.pc = IF proc[p].op = "login" THEN "populate" ELSE "readRoles"])
    /\ UNCHANGED <<sess, cache, userOwners, userRoles, roleStatus, clock>>

(* PopulateSessionToRedisWithTTL, with a full session timeout to live. *)
Populate(p) ==
    /\ At(p, "populate")
    /\ LET s == proc[p].sid IN
       \/ /\ Succeeds
          /\ SetCache(s, [user |-> proc[p].user, wh |-> proc[p].wh,
                          owners |-> proc[p].owners, roles |-> proc[p].roles,
                          exp |-> clock + Timeout])
       \/ FailClosed(p, s)
    /\ Return(p)
    /\ UNCHANGED <<sess, userOwners, userRoles, roleStatus, clock>>

-----------------------------------------------------------------------------
(* SessionTimeoutMiddleware runs before every handler that gets a token.   *)
(* A request it answers with 401 and nothing else changes nothing here.    *)

Admitted_NoExpiry(s) == sess[s].status = "ACTIVE"
Admitted(s) == sess[s].status = "ACTIVE" /\ ~(clock > sess[s].exp)

ExpireOnRequest_OtherStatus(s) ==
    /\ sess[s].status = "ACTIVE"
    /\ clock > sess[s].exp
    /\ sess' = [sess EXCEPT ![s].status = "EXPIRED"]
    /\ UNCHANGED <<cache, userOwners, userRoles, roleStatus, proc, clock, faults>>

ExpireOnRequest(s) ==
    /\ sess[s].status = "ACTIVE"
    /\ clock > sess[s].exp
    /\ sess' = [sess EXCEPT ![s].status = "INVALIDATED"]
    /\ UNCHANGED <<cache, userOwners, userRoles, roleStatus, proc, clock, faults>>

Arrive(p, s, op, pc) ==
    /\ At(p, "idle") /\ op \in Ops
    /\ Admitted(s)
    /\ Become(p, [Start(op, pc) EXCEPT !.sid = s])
    /\ UNCHANGED <<sess, cache, userOwners, userRoles, roleStatus, clock, faults>>

SwitchContext(p, s)     == Arrive(p, s, "switch", "swValidate")
Logout(p, s)            == Arrive(p, s, "logout", "loInvalidate")
GetCurrentSession(p, s) == Arrive(p, s, "current", "gcRedis")

(* SwitchContext: the checks, then the update, then the detached goroutine. *)
SwitchValidate(p) ==
    /\ At(p, "swValidate")
    /\ Succeeds
    /\ LET s == proc[p].sid IN
       \/ Return(p)
       \/ /\ sess[s].status = "ACTIVE"
          /\ \E w \in Warehouses :
                Become(p, [proc[p] EXCEPT !.pc = "swUpdate",
                                          !.user = sess[s].user, !.wh = w])
    /\ UNCHANGED <<sess, cache, userOwners, userRoles, roleStatus, clock>>

SwitchUpdate_SlidesExpiry(p) ==
    /\ At(p, "swUpdate")
    /\ Succeeds
    /\ sess' = [sess EXCEPT ![proc[p].sid].wh = proc[p].wh,
                            ![proc[p].sid].exp = clock + Timeout]
    /\ Goto(p, "readOwners")
    /\ UNCHANGED <<cache, userOwners, userRoles, roleStatus, clock>>

SwitchUpdate(p) ==
    /\ At(p, "swUpdate")
    /\ \/ /\ Succeeds
          /\ sess' = [sess EXCEPT ![proc[p].sid].wh = proc[p].wh]
          /\ Goto(p, "readOwners")
       \/ Fails(p) /\ Return(p) /\ UNCHANGED sess
    /\ UNCHANGED <<cache, userOwners, userRoles, roleStatus, clock>>

SwitchReadRoles(p) ==
    /\ At(p, "readRoles")
    /\ \E rs \in SUBSET ActiveRoles(proc[p].user) :
          /\ IF rs = ActiveRoles(proc[p].user) THEN Succeeds ELSE Fails(p)
          /\ Become(p, [proc[p] EXCEPT !.roles = rs, !.pc = "populate"])
    /\ UNCHANGED <<sess, cache, userOwners, userRoles, roleStatus, clock>>

LogoutInvalidate(p) ==
    /\ At(p, "loInvalidate")
    /\ \/ Succeeds /\ sess' = [sess EXCEPT ![proc[p].sid].status = "INVALIDATED"]
       \/ Fails(p) /\ UNCHANGED sess
    /\ Return(p)
    /\ UNCHANGED <<cache, userOwners, userRoles, roleStatus, clock>>

-----------------------------------------------------------------------------
(* GetCurrentSession: the Redis document, or the row when there is none.   *)

CurrentRedis(p) ==
    /\ At(p, "gcRedis")
    /\ LET e == cache[proc[p].sid] IN
       \/ /\ Succeeds /\ e # Gone
          /\ Become(p, [proc[p] EXCEPT !.pc = "gcHitDb", !.user = e.user,
                !.wh = e.wh, !.owners = e.owners, !.roles = e.roles])
       \/ /\ (Succeeds /\ e = Gone) \/ Fails(p)
          /\ Goto(p, "gcMissDb")
    /\ UNCHANGED <<sess, cache, userOwners, userRoles, roleStatus, clock>>

CurrentHitDb(p) ==
    /\ At(p, "gcHitDb")
    /\ LET s == proc[p].sid IN
       \/ /\ Succeeds /\ UNCHANGED cache
          /\ IF sess[s].status = "ACTIVE" THEN Goto(p, "gcHitOwners") ELSE Return(p)
       \/ FailClosed(p, s) /\ Return(p)
    /\ UNCHANGED <<sess, userOwners, userRoles, roleStatus, clock>>

CurrentHitOwners_TrustsDocument(p) ==
    /\ At(p, "gcHitOwners") /\ Succeeds /\ Return(p)
    /\ UNCHANGED <<sess, cache, userOwners, userRoles, roleStatus, clock>>

(* A failed user or owner lookup drops the entry; owners that differ from   *)
(* the database's are healed.                                               *)
CurrentHitOwners(p) ==
    /\ At(p, "gcHitOwners")
    /\ LET fresh == userOwners[proc[p].user] IN
       \/ /\ Succeeds /\ UNCHANGED cache
          /\ IF proc[p].owners = fresh
             THEN Return(p)
             ELSE Become(p, [proc[p] EXCEPT !.owners = fresh, !.now = clock,
                                            !.pc = "healRead"])
       \/ FailClosed(p, proc[p].sid) /\ Return(p)
    /\ UNCHANGED <<sess, userOwners, userRoles, roleStatus, clock>>

CurrentMissDb(p) ==
    /\ At(p, "gcMissDb")
    /\ LET row == sess[proc[p].sid] IN
       \/ /\ Succeeds
          /\ IF row.status = "ACTIVE"
             THEN Become(p, [proc[p] EXCEPT !.pc = "gcMissOwners", !.user = row.user,
                                            !.wh = row.wh, !.roles = row.roles])
             ELSE Return(p)
       \/ Fails(p) /\ Return(p)
    /\ UNCHANGED <<sess, cache, userOwners, userRoles, roleStatus, clock>>

CurrentMissOwners(p) ==
    /\ At(p, "gcMissOwners")
    /\ \/ /\ Succeeds
          /\ Become(p, [proc[p] EXCEPT !.owners = userOwners[proc[p].user],
                                       !.now = clock, !.pc = "healRead"])
       \/ Fails(p) /\ Return(p)
    /\ UNCHANGED <<sess, cache, userOwners, userRoles, roleStatus, clock>>

SessionEligible_AtExpiry(s, u, now) ==
    /\ sess[s].status = "ACTIVE"
    /\ sess[s].user = u
    /\ sess[s].exp >= now

SessionEligibleForOwnerRewrite(s, u, now) ==
    /\ sess[s].status = "ACTIVE"
    /\ sess[s].user = u
    /\ sess[s].exp > now

(* healSessionOwnerCache: the time was read before the row is. *)
HealRead(p) ==
    /\ At(p, "healRead")
    /\ LET s == proc[p].sid
           eligible == SessionEligibleForOwnerRewrite(s, proc[p].user, proc[p].now) IN
       \/ Succeeds /\ UNCHANGED cache /\ eligible /\ Goto(p, "healWrite")
       \/ /\ ~eligible
          /\ DropEntry(p, s)
          /\ Return(p)
       \/ FailClosed(p, s) /\ Return(p)
    /\ UNCHANGED <<sess, userOwners, userRoles, roleStatus, clock>>

(* writeSessionOwnerContext: the entry lives as long as RemainingSessionTTL *)
(* said when the time was read; a failed Set deletes it.                    *)
Rewrite(p, s, e) ==
    \/ Succeeds /\ SetCache(s, [e EXCEPT !.exp = clock + (sess[s].exp - proc[p].now)])
    \/ FailClosed(p, s)

HealWrite(p) ==
    /\ At(p, "healWrite")
    /\ Rewrite(p, proc[p].sid, [user |-> proc[p].user, wh |-> proc[p].wh,
                                owners |-> proc[p].owners, roles |-> proc[p].roles,
                                exp |-> 0])
    /\ Return(p)
    /\ UNCHANGED <<sess, userOwners, userRoles, roleStatus, clock>>

-----------------------------------------------------------------------------
(* UserOwner.Save and Delete: the row, then                                *)
(* refreshOwnerContextForActiveSessions, which reads the time first.       *)

MutateOwners(p, u) ==
    /\ At(p, "idle") /\ "owner" \in Ops
    /\ \E o \in Owners :
          userOwners' = [userOwners EXCEPT ![u] =
                           IF o \in @ THEN @ \ {o} ELSE @ \cup {o}]
    /\ Become(p, [Start("owner", "rfSessions") EXCEPT !.user = u, !.now = clock])
    /\ UNCHANGED <<sess, cache, userRoles, roleStatus, clock, faults>>

RefreshSessions(p) ==
    /\ At(p, "rfSessions")
    /\ \/ /\ Succeeds
          /\ Become(p, [proc[p] EXCEPT !.todo = FindActiveByUserId(proc[p].user),
                                       !.pc = "rfOwners"])
       \/ /\ Fails(p)
          /\ Become(p, [proc[p] EXCEPT !.err = TRUE, !.pc = "rfOwners"])
    /\ UNCHANGED <<sess, cache, userOwners, userRoles, roleStatus, clock>>

RefreshOwners_ErrorDropped(p) ==
    /\ At(p, "rfOwners")
    /\ Succeeds
    /\ IF proc[p].err
       THEN Return(p)
       ELSE Become(p, [proc[p] EXCEPT !.owners = userOwners[proc[p].user],
                                      !.pc = "rfWrite"])
    /\ UNCHANGED <<sess, cache, userOwners, userRoles, roleStatus, clock>>

(* The owners and the user.  When either cannot be read, the entries of the *)
(* sessions found are deleted; when the sessions could not be read, nothing *)
(* is.  Both end in InvalidateAllUserSessions.                              *)
RefreshOwners(p) ==
    /\ At(p, "rfOwners")
    /\ \/ /\ Succeeds /\ ~proc[p].err
          /\ Become(p, [proc[p] EXCEPT !.owners = userOwners[proc[p].user],
                                       !.pc = "rfWrite"])
       \/ Succeeds /\ proc[p].err /\ Invalidate(p)
       \/ /\ Fails(p)
          /\ Become(p, [proc[p] EXCEPT !.clear = {t.sid : t \in proc[p].todo},
                                       !.todo = {}, !.err = TRUE, !.pc = "rfClear"])
    /\ UNCHANGED <<sess, cache, userOwners, userRoles, roleStatus, clock>>

RefreshWrite_IgnoresExpiry(p) ==
    /\ At(p, "rfWrite")
    /\ \E t \in proc[p].todo :
          /\ Succeeds
          /\ SetCache(t.sid, [user |-> sess[t.sid].user, wh |-> t.wh,
                              owners |-> proc[p].owners,
                              roles |-> sess[t.sid].roles, exp |-> clock + Timeout])
          /\ Become(p, [proc[p] EXCEPT !.todo = @ \ {t}])
    /\ UNCHANGED <<sess, userOwners, userRoles, roleStatus, clock>>

RefreshWrite(p) ==
    /\ At(p, "rfWrite")
    /\ \E t \in proc[p].todo :
          /\ IF sess[t.sid].exp > proc[p].now
             THEN Rewrite(p, t.sid, [user |-> sess[t.sid].user, wh |-> t.wh,
                                     owners |-> proc[p].owners,
                                     roles |-> sess[t.sid].roles, exp |-> 0])
             ELSE Succeeds /\ UNCHANGED cache
          /\ Become(p, [proc[p] EXCEPT !.todo = @ \ {t},
                                       !.err = @ \/ faults' # faults])
    /\ UNCHANGED <<sess, userOwners, userRoles, roleStatus, clock>>

RefreshDone(p) ==
    /\ At(p, "rfWrite") /\ proc[p].todo = {}
    /\ IF proc[p].err THEN Invalidate(p) ELSE Return(p)
    /\ UNCHANGED <<sess, cache, userOwners, userRoles, roleStatus, clock, faults>>

-----------------------------------------------------------------------------
(* InvalidateAllUserSessions: the sessions found are marked in the database *)
(* one by one, then their Redis keys are deleted one by one.                *)

InvalidateFind(p) ==
    /\ At(p, "invFind")
    /\ \/ /\ Succeeds
          /\ LET found == FindActiveByUserId(proc[p].user) IN
             IF found = {} THEN Return(p)
             ELSE Become(p, [proc[p] EXCEPT !.todo = found,
                               !.clear = {t.sid : t \in found}, !.pc = "invDb"])
       \/ Fails(p) /\ Return(p)
    /\ UNCHANGED <<sess, cache, userOwners, userRoles, roleStatus, clock>>

InvalidateOne(p) ==
    /\ At(p, "invDb")
    /\ \E t \in proc[p].todo :
          /\ \/ Succeeds /\ sess' = [sess EXCEPT ![t.sid].status = "INVALIDATED"]
             \/ Fails(p) /\ UNCHANGED sess
          /\ Become(p, [proc[p] EXCEPT !.todo = @ \ {t}])
    /\ UNCHANGED <<cache, userOwners, userRoles, roleStatus, clock>>

(* Deactivate stops here: its InvalidateUserCache is empty. *)
InvalidateDbDone(p) ==
    /\ At(p, "invDb") /\ proc[p].todo = {}
    /\ IF proc[p].op = "deactivate" THEN Return(p) ELSE Goto(p, "invClear")
    /\ UNCHANGED <<sess, cache, userOwners, userRoles, roleStatus, clock, faults>>

ClearOne(p) ==
    /\ proc[p].pc \in {"rfClear", "invClear"}
    /\ \E s \in proc[p].clear :
          /\ DropEntry(p, s)
          /\ Become(p, [proc[p] EXCEPT !.clear = @ \ {s}])
    /\ UNCHANGED <<sess, userOwners, userRoles, roleStatus, clock>>

ClearDone(p) ==
    /\ proc[p].pc \in {"rfClear", "invClear"} /\ proc[p].clear = {}
    /\ IF At(p, "rfClear") THEN Invalidate(p) ELSE Return(p)
    /\ UNCHANGED <<sess, cache, userOwners, userRoles, roleStatus, clock, faults>>

(* UserRole.Save and Delete, and UserRole.Update for a UserProvisioning.Update *)
(* whose list differs from the roles it read: row by row, then the             *)
(* invalidation, detached.                                                     *)
MutateRoles(p, u) ==
    /\ At(p, "idle") /\ "role" \in Ops
    /\ \E rs \in SUBSET Roles :
          /\ rs # {}
          /\ Become(p, [Start("role", "roleRows") EXCEPT !.user = u, !.roles = rs])
    /\ UNCHANGED <<sess, cache, userOwners, userRoles, roleStatus, clock, faults>>

MutateRoleRow_NoInvalidation(p) ==
    /\ At(p, "roleRows")
    /\ \E r \in proc[p].roles :
          /\ \/ userRoles' = [userRoles EXCEPT ![proc[p].user] = @ \ {r}]
             \/ userRoles' = [userRoles EXCEPT ![proc[p].user] = @ \cup {r}]
          /\ IF proc[p].roles = {r} THEN Return(p)
             ELSE Become(p, [proc[p] EXCEPT !.roles = @ \ {r}])
    /\ UNCHANGED <<sess, cache, userOwners, roleStatus, clock, faults>>

(* A row is deleted, or added for a role that is ACTIVE, or skipped.  On an   *)
(* error Save and Delete return with the rows so far; Update goes on after a  *)
(* row it cannot delete and else stops there, and UserProvisioning.Update,    *)
(* which drops the error, invalidates.                                        *)
MutateRoleRow(p) ==
    /\ At(p, "roleRows")
    /\ \E r \in proc[p].roles :
          LET u == proc[p].user
              rest == [proc[p] EXCEPT !.roles = @ \ {r},
                         !.pc = IF proc[p].roles = {r} THEN "invFind" ELSE "roleRows"] IN
          \/ /\ Succeeds /\ Become(p, rest)
             /\ \/ userRoles' = [userRoles EXCEPT ![u] = @ \ {r}]
                \/ /\ roleStatus[r] # "INACTIVE"
                   /\ userRoles' = [userRoles EXCEPT ![u] = @ \cup {r}]
                \/ UNCHANGED userRoles
          \/ /\ Fails(p) /\ UNCHANGED userRoles
             /\ Become(p, rest) \/ Invalidate(p) \/ Return(p)
    /\ UNCHANGED <<sess, cache, userOwners, roleStatus, clock>>

(* UserProvisioning.Update with the roles it read itself: UserRole.Update reads *)
(* them again and makes the rows agree with the list, and nothing is            *)
(* invalidated.  A row whose role is INACTIVE or whose call fails is left.      *)
KeepRoles(p, u) ==
    /\ At(p, "idle") /\ "keep" \in Ops
    /\ userRoles[u] # {}
    /\ Become(p, [Start("keep", "keepRows") EXCEPT !.user = u, !.roles = userRoles[u]])
    /\ UNCHANGED <<sess, cache, userOwners, userRoles, roleStatus, clock, faults>>

KeepRoleRow(p) ==
    /\ At(p, "keepRows")
    /\ \/ Return(p) /\ UNCHANGED userRoles
       \/ \E r \in Roles :
             /\ r \in proc[p].roles => roleStatus[r] # "INACTIVE"
             /\ userRoles' = [userRoles EXCEPT ![proc[p].user] =
                                IF r \in proc[p].roles THEN @ \cup {r} ELSE @ \ {r}]
             /\ UNCHANGED proc
    /\ UNCHANGED <<sess, cache, userOwners, roleStatus, clock, faults>>

(* Role.Update with a status, and Role.Delete: one write, and no session is   *)
(* told.  IncrementRoleVersion counts it in Redis: no session has the number. *)
UpdateRole(r) ==
    /\ "status" \in Ops
    /\ \E st \in {"ACTIVE", "INACTIVE"} : roleStatus' = [roleStatus EXCEPT ![r] = st]
    /\ UNCHANGED <<sess, cache, userOwners, userRoles, proc, clock, faults>>

Deactivate(p, u) ==
    /\ At(p, "idle") /\ "deactivate" \in Ops
    /\ Become(p, [Start("deactivate", "invFind") EXCEPT !.user = u])
    /\ UNCHANGED <<sess, cache, userOwners, userRoles, roleStatus, clock, faults>>

-----------------------------------------------------------------------------
(* Time passes, and Redis drops the keys whose time to live is over. *)
Tick ==
    /\ clock < MaxClock
    /\ clock' = clock + 1
    /\ cache' = [s \in Sessions |-> IF cache[s].exp > clock' THEN cache[s] ELSE Gone]
    /\ UNCHANGED <<sess, userOwners, userRoles, roleStatus, proc, faults>>

Step(p) ==
    \/ LoginCreate(p) \/ ReadOwners(p) \/ Populate(p)
    \/ SwitchValidate(p) \/ SwitchUpdate(p) \/ SwitchReadRoles(p)
    \/ LogoutInvalidate(p)
    \/ CurrentRedis(p) \/ CurrentHitDb(p) \/ CurrentHitOwners(p)
    \/ CurrentMissDb(p) \/ CurrentMissOwners(p)
    \/ HealRead(p) \/ HealWrite(p)
    \/ RefreshSessions(p) \/ RefreshOwners(p) \/ RefreshWrite(p) \/ RefreshDone(p)
    \/ InvalidateFind(p) \/ InvalidateOne(p) \/ InvalidateDbDone(p)
    \/ ClearOne(p) \/ ClearDone(p)
    \/ MutateRoleRow(p) \/ KeepRoleRow(p)

Request(p) ==
    \/ \E u \in Users : \/ LoginResolveRoles(p, u) \/ MutateOwners(p, u)
                        \/ MutateRoles(p, u) \/ KeepRoles(p, u)
                        \/ Deactivate(p, u)
    \/ \E s \in Sessions : \/ SwitchContext(p, s) \/ Logout(p, s)
                           \/ GetCurrentSession(p, s)

Next ==
    \/ \E p \in Procs : Request(p) \/ Step(p)
    \/ \E s \in Sessions : ExpireOnRequest(s)
    \/ \E r \in Roles : UpdateRole(r)
    \/ Tick

Spec == Init /\ [][Next]_vars

\* A goroutine that started runs to its end; nobody has to send a request.
FairSpec == Spec /\ \A p \in Procs : WF_vars(Step(p))

-----------------------------------------------------------------------------
(* What must hold of any interleaving. *)

\* Every document in Redis has time left to live.  A rewrite that passed a
\* zero TTL would store a document Redis keeps for ever, the boundary
\* RemainingSessionTTL cuts off when a session expires right now.
CacheHasTimeToLive == \A s \in Sessions : cache[s] # Gone => cache[s].exp > clock

\* A document exists only for a session whose row was created, and speaks of
\* that session's user: no handler, however late, writes under another
\* session's key or before Create.
CacheBelongsToSession ==
    \A s \in Sessions : cache[s] # Gone =>
        /\ sess[s].status # "NONE"
        /\ cache[s].user = sess[s].user

\* What a row says of its user, roles and expiry is fixed by Create: no later
\* call, and no other login, writes it again.
RowIsFixedByCreate ==
    [][\A s \in Sessions : sess[s].status # "NONE" =>
          /\ sess'[s].status \in {sess[s].status, "INVALIDATED"}
          /\ sess'[s].user = sess[s].user
          /\ sess'[s].roles = sess[s].roles
          /\ sess'[s].exp = sess[s].exp]_vars

\* A session that is over: invalidated, or past its expiry.
Dead(s) ==
    \/ sess[s].status = "INVALIDATED"
    \/ sess[s].status = "ACTIVE" /\ clock > sess[s].exp

\* A goroutine past its last check, or with a time before the session's end,
\* may still write the document.
MayStillCache(p, s) ==
    \/ /\ proc[p].sid = s
       /\ proc[p].pc \in {"swUpdate", "readOwners", "readRoles", "populate", "healWrite"}
    \/ /\ proc[p].sid = s /\ At(p, "swValidate") /\ sess[s].status = "ACTIVE"
    \/ /\ proc[p].sid = s /\ At(p, "healRead")
       /\ sess[s].status = "ACTIVE" /\ sess[s].exp > proc[p].now
    \/ /\ proc[p].user = sess[s].user /\ At(p, "rfSessions")
       /\ sess[s].status = "ACTIVE" /\ sess[s].exp > proc[p].now
    \/ /\ proc[p].pc \in {"rfOwners", "rfWrite"}
       /\ sess[s].exp > proc[p].now
       /\ \E t \in proc[p].todo : t.sid = s

Buried(s) ==
    /\ Dead(s)
    /\ cache[s] = Gone
    /\ \A p \in Procs : ~MayStillCache(p, s)

\* A session that is over stays over: once it is dead, its document is gone
\* and no goroutine is past its checks, no request, refresh or heal that
\* comes later brings the document back.
DeathIsFinal == [][\A s \in Sessions : Buried(s) => Buried(s)']_vars

-----------------------------------------------------------------------------
(* What must hold when no handler is running. *)

Quiet == \A p \in Procs : At(p, "idle")

\* The owner list the gate reads for a session in force is the one in the
\* database, or the document is gone: a failed refresh never leaves an older
\* list behind (syncOwnerSessionsAfterMutation, healSessionOwnerCache).  A
\* document that outlives its row's expiry, as one written by SwitchContext
\* with a full timeout does, is skipped by the refresh and may keep its list.
OwnersAgreeWhenQuiet ==
    Quiet => \A s \in Sessions :
        cache[s] # Gone /\ sess[s].status = "ACTIVE" /\ sess[s].exp > clock =>
            cache[s].owners = userOwners[sess[s].user]

\* A role set against its user's assignments: no role that was taken from the
\* user, and every other one but for a role whose status was changed.
RolesOf(rs, u) ==
    /\ rs \subseteq userRoles[u]
    /\ \A r \in userRoles[u] \ rs : roleStatus[r] # "FRESH"

\* After a change of assignments the user's earlier sessions are over
\* (InvalidateAllUserSessions): a session still ACTIVE has the roles assigned to
\* its user now, in its row and in the document the gate reads, if there is one.
\* A change of a role's status ends no session: one that has a role keeps it
\* when the role is deactivated or deleted, one that lacks it stays without when
\* the role is ACTIVE again.
RolesAgreeWhenQuiet ==
    Quiet => \A s \in Sessions : sess[s].status = "ACTIVE" =>
        /\ RolesOf(sess[s].roles, sess[s].user)
        /\ cache[s] # Gone => RolesOf(cache[s].roles, sess[s].user)

\* The document and the row name the same warehouse: a refresh or a heal
\* keeps the warehouse the user switched to.
WarehouseAgreesWhenQuiet ==
    Quiet => \A s \in Sessions :
        cache[s] # Gone => cache[s].wh = sess[s].wh

-----------------------------------------------------------------------------
(* Liveness. *)

OwnersSettle == <>[][UNCHANGED userOwners]_vars
Polled(s) == []<><<\E p \in Procs : GetCurrentSession(p, s)>>_vars

\* A stale owner list heals: when owners stop changing and the client of a
\* session keeps asking for it, the document ends up with the database's
\* owners, whatever stale writes were under way.
StaleOwnersHeal ==
    \A s \in Sessions :
        OwnersSettle /\ Polled(s) =>
            <>[](cache[s] # Gone => cache[s].owners = userOwners[sess[s].user])
=============================================================================
