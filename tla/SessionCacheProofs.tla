------------------------- MODULE SessionCacheProofs -------------------------
(***************************************************************************)
(* Proofs about SessionCache, for any number of users, sessions, owners,   *)
(* roles and goroutines, with any of their calls failing.                  *)
(*                                                                         *)
(* CacheBelongsToSession and CacheHasTimeToLive are not inductive: what a  *)
(* goroutine writes is what it remembered several calls ago.  SessionInv   *)
(* adds what a goroutine may rely on at each point (GoroutineOK): that the *)
(* row it works for exists, that the user it remembers is the row's, that  *)
(* a heal under way found time left, and that a login's id is its own.     *)
(*                                                                         *)
(* The three agreements between rows, documents and assignments do not     *)
(* hold in every interleaving.  Each is proved from the absence of the one *)
(* overlap that breaks it (RolesSteady, SwitchesApart, OwnersSteady).      *)
(* RolesInv, WarehouseInv and OwnersInv say who is about to restore them   *)
(* where they do not hold now.                                             *)
(***************************************************************************)
EXTENDS SessionCache, TLAPS

\* The goroutine works for a row that Create wrote...
HasRow == {"readOwners", "readRoles", "populate", "swValidate", "swUpdate",
           "loInvalidate", "gcRedis", "gcHitDb", "gcHitOwners", "gcMissDb",
           "gcMissOwners", "healRead", "healWrite"}

\* ... and remembers its user.
HasUser == HasRow \ {"swValidate", "loInvalidate", "gcRedis", "gcMissDb"}

GoroutineOK(g) ==
    /\ g.pc \in HasRow => sess[g.sid].status # "NONE"
    /\ g.pc \in HasUser => g.user = sess[g.sid].user
    /\ g.pc = "healWrite" => sess[g.sid].exp > g.now
    /\ g.pc = "loginCreate" => sess[g.sid].status = "NONE"
    /\ g.pc \in {"loginCreate", "rfSessions", "rfOwners", "rfWrite", "keepRows"} =>
          g.user \in Users
    /\ g.pc = "rfSessions" => g.todo = {}
    /\ \A t \in g.todo : sess[t.sid].status # "NONE"

LoginsApart ==
    \A p, q \in Procs :
        p # q /\ At(p, "loginCreate") /\ At(q, "loginCreate") =>
            proc[p].sid # proc[q].sid

RowsHaveUsers ==
    \A s \in Sessions : sess[s].status # "NONE" => sess[s].user \in Users

SessionInv ==
    /\ TypeOK
    /\ RowsHaveUsers
    /\ \A p \in Procs : GoroutineOK(proc[p])
    /\ LoginsApart
    /\ CacheBelongsToSession
    /\ CacheHasTimeToLive

\* What any step of goroutine p does to the rows: none that exists changes its
\* user, roles or expiry, or is resurrected; a new one is the login's own.
RowsKept(p) ==
    \A s \in Sessions :
        \/ sess'[s] = sess[s]
        \/ /\ sess[s].status # "NONE"
           /\ sess'[s].status \in {sess[s].status, "INVALIDATED"}
           /\ sess'[s].user = sess[s].user
           /\ sess'[s].roles = sess[s].roles
           /\ sess'[s].exp = sess[s].exp
        \/ /\ sess[s].status = "NONE"
           /\ At(p, "loginCreate") /\ s = proc[p].sid
           /\ sess'[s].user \in Users

-----------------------------------------------------------------------------
(* Typing. *)

LEMMA GoneType == Gone \in Entry
  BY DEF Gone, Entry, Wh

LEMMA IdleType == Idle \in Goroutine
  <1>1. AnySession \in Sessions
    BY SessionAssumption DEF AnySession
  <1> QED
    BY <1>1 DEF Idle, Goroutine, AllOps, PC, Wh

LEMMA StartType ==
  ASSUME NEW op \in AllOps, NEW pc \in PC
  PROVE  /\ Start(op, pc) \in Goroutine
         /\ Start(op, pc).op = op /\ Start(op, pc).pc = pc
         /\ Start(op, pc).todo = {} /\ Start(op, pc).now = 0
  BY IdleType DEF Start, Goroutine, Idle

LEMMA BecomeType ==
  ASSUME proc \in [Procs -> Goroutine], NEW p \in Procs,
         NEW g \in Goroutine, Become(p, g)
  PROVE  /\ proc' \in [Procs -> Goroutine]
         /\ proc'[p] = g
         /\ \A q \in Procs \ {p} : proc'[q] = proc[q]
  BY DEF Become

-----------------------------------------------------------------------------
(* A goroutine's step in three parts: the rows, the documents, itself. *)

LEMMA RowSame ==
  ASSUME SessionInv, NEW p \in Procs, UNCHANGED sess
  PROVE  sess' \in [Sessions -> SessRow] /\ RowsKept(p)
  BY DEF SessionInv, TypeOK, RowsKept

LEMMA RowInvalidated ==
  ASSUME SessionInv, NEW p \in Procs, NEW s \in Sessions, sess[s].status # "NONE",
         sess' = [sess EXCEPT ![s].status = "INVALIDATED"]
  PROVE  sess' \in [Sessions -> SessRow] /\ RowsKept(p)
  BY DEF SessionInv, TypeOK, RowsKept, SessRow, Status

LEMMA RowMoved ==
  ASSUME SessionInv, NEW p \in Procs, NEW s \in Sessions, sess[s].status # "NONE",
         proc[p].wh \in Wh, sess' = [sess EXCEPT ![s].wh = proc[p].wh]
  PROVE  sess' \in [Sessions -> SessRow] /\ RowsKept(p)
  BY DEF SessionInv, TypeOK, RowsKept, SessRow, Status

LEMMA CacheStep ==
  ASSUME SessionInv, NEW p \in Procs, RowsKept(p), UNCHANGED clock,
         \/ UNCHANGED cache
         \/ \E s \in Sessions : DeleteCache(s)
         \/ \E s \in Sessions, e \in Entry :
               /\ SetCache(s, e)
               /\ sess'[s].status # "NONE"
               /\ e.user = sess'[s].user
               /\ e.exp > clock
  PROVE  /\ cache' \in [Sessions -> Entry]
         /\ CacheBelongsToSession'
         /\ CacheHasTimeToLive'
  <1>1. \A s \in Sessions : sess[s].status # "NONE" =>
           sess'[s].status # "NONE" /\ sess'[s].user = sess[s].user
    BY DEF RowsKept
  <1>2. CASE UNCHANGED cache
    BY <1>1, <1>2 DEF SessionInv, TypeOK, CacheBelongsToSession, CacheHasTimeToLive
  <1>3. CASE \E s \in Sessions : DeleteCache(s)
    BY <1>1, <1>3, GoneType DEF SessionInv, TypeOK, CacheBelongsToSession,
       CacheHasTimeToLive, DeleteCache, SetCache
  <1>4. ASSUME NEW s \in Sessions, NEW e \in Entry, SetCache(s, e),
               sess'[s].status # "NONE", e.user = sess'[s].user, e.exp > clock
        PROVE  /\ cache' \in [Sessions -> Entry]
               /\ CacheBelongsToSession'
               /\ CacheHasTimeToLive'
    BY <1>1, <1>4 DEF SessionInv, TypeOK, CacheBelongsToSession,
       CacheHasTimeToLive, SetCache
  <1> QED
    BY <1>2, <1>3, <1>4

LEMMA StepInv ==
  ASSUME SessionInv, NEW p \in Procs, NEW g \in Goroutine, Become(p, g),
         sess' \in [Sessions -> SessRow] /\ RowsKept(p),
         cache' \in [Sessions -> Entry],
         CacheBelongsToSession' /\ CacheHasTimeToLive',
         userOwners' \in [Users -> SUBSET Owners],
         userRoles' \in [Users -> SUBSET Roles],
         roleStatus' \in [Roles -> RoleStatus],
         clock' \in Nat, faults' \in Nat,
         GoroutineOK(g)',
         g.pc = "loginCreate" =>
            \A q \in Procs \ {p} : At(q, "loginCreate") => proc[q].sid # g.sid
  PROVE  SessionInv'
  <1>1. /\ proc' \in [Procs -> Goroutine]
        /\ proc'[p] = g
        /\ \A q \in Procs \ {p} : proc'[q] = proc[q]
    BY BecomeType DEF SessionInv, TypeOK
  <1>2. TypeOK'
    BY <1>1 DEF TypeOK
  <1>3. ASSUME NEW q \in Procs
        PROVE  GoroutineOK(proc[q])'
    <2>1. CASE q = p
      BY <1>1, <2>1 DEF GoroutineOK
    <2>2. CASE q # p
      <3>1. proc'[q] = proc[q] /\ proc[q] \in Goroutine
        BY <1>1, <2>2 DEF SessionInv, TypeOK
      <3>2. proc[q].sid \in Sessions /\ \A t \in proc[q].todo : t.sid \in Sessions
        BY <3>1 DEF Goroutine, Found
      <3>3. GoroutineOK(proc[q])
        BY DEF SessionInv
      <3>4. \A s \in Sessions : sess[s].status # "NONE" =>
               /\ sess'[s].status # "NONE"
               /\ sess'[s].user = sess[s].user
               /\ sess'[s].exp = sess[s].exp
        BY DEF RowsKept
      <3>5. At(q, "loginCreate") => sess'[proc[q].sid] = sess[proc[q].sid]
        BY <2>2, <3>2, <3>3 DEF SessionInv, LoginsApart, RowsKept, GoroutineOK, At
      <3>6. \A t \in proc[q].todo : sess'[t.sid].status # "NONE"
        BY <3>2, <3>3, <3>4 DEF GoroutineOK
      <3>7. proc[q].pc \in HasRow =>
               /\ sess'[proc[q].sid].status # "NONE"
               /\ sess'[proc[q].sid].user = sess[proc[q].sid].user
               /\ sess'[proc[q].sid].exp = sess[proc[q].sid].exp
        BY <3>2, <3>3, <3>4 DEF GoroutineOK
      <3>8. HasUser \subseteq HasRow /\ "healWrite" \in HasRow
        BY DEF HasUser, HasRow
      <3> QED
        BY <3>1, <3>3, <3>5, <3>6, <3>7, <3>8 DEF GoroutineOK, At
    <2> QED
      BY <2>1, <2>2
  <1>4. LoginsApart'
    BY <1>1 DEF SessionInv, LoginsApart, At
  <1>5. RowsHaveUsers'
    BY DEF SessionInv, RowsHaveUsers, RowsKept
  <1> QED
    BY <1>2, <1>3, <1>4, <1>5 DEF SessionInv

LEMMA QuietStep ==
  ASSUME SessionInv, NEW p \in Procs, NEW g \in Goroutine, Become(p, g),
         UNCHANGED <<sess, userOwners, userRoles, roleStatus, clock>>,
         faults' \in Nat,
         \/ UNCHANGED cache
         \/ \E s \in Sessions : DeleteCache(s)
         \/ \E s \in Sessions, e \in Entry :
               /\ SetCache(s, e)
               /\ sess[s].status # "NONE"
               /\ e.user = sess[s].user
               /\ e.exp > clock,
         GoroutineOK(g), g.pc # "loginCreate"
  PROVE  SessionInv'
  <1>1. sess' \in [Sessions -> SessRow] /\ RowsKept(p)
    BY RowSame
  <1>2. /\ cache' \in [Sessions -> Entry]
        /\ CacheBelongsToSession'
        /\ CacheHasTimeToLive'
    BY <1>1, CacheStep
  <1>3. GoroutineOK(g)'
    BY DEF GoroutineOK
  <1>4. /\ userOwners' \in [Users -> SUBSET Owners]
        /\ userRoles' \in [Users -> SUBSET Roles]
        /\ roleStatus' \in [Roles -> RoleStatus]
        /\ clock' \in Nat
    BY DEF SessionInv, TypeOK
  <1> QED
    BY <1>1, <1>2, <1>3, <1>4, StepInv

LEMMA ProcOK ==
  ASSUME SessionInv, NEW p \in Procs
  PROVE  /\ proc[p] \in Goroutine
         /\ GoroutineOK(proc[p])
  BY DEF SessionInv, TypeOK

LEMMA IdleOK == Idle \in Goroutine /\ GoroutineOK(Idle) /\ Idle.pc # "loginCreate"
  BY IdleType DEF Idle, GoroutineOK, HasRow, HasUser

LEMMA CallOutcome ==
  ASSUME SessionInv, NEW p \in Procs
  PROVE  /\ Succeeds => faults' \in Nat
         /\ Fails(p) => faults' \in Nat
         /\ \A op : CallsFail(op, 1) => faults' \in Nat
  BY DEF SessionInv, TypeOK, Succeeds, Fails, CallsFail

LEMMA DropOutcome ==
  ASSUME SessionInv, NEW p \in Procs, NEW s \in Sessions,
         DropEntry(p, s) \/ FailClosed(p, s)
  PROVE  /\ faults' \in Nat
         /\ UNCHANGED cache \/ DeleteCache(s)
  BY DEF SessionInv, TypeOK, Succeeds, Fails, CallsFail, DropEntry, FailClosed

\* A step that ends its goroutine.
LEMMA ReturnStep ==
  ASSUME SessionInv, NEW p \in Procs, Return(p),
         UNCHANGED <<sess, userOwners, userRoles, roleStatus, clock>>,
         faults' \in Nat,
         UNCHANGED cache \/ (\E s \in Sessions : DeleteCache(s))
  PROVE  SessionInv'
  BY IdleOK, QuietStep DEF Return

\* What a goroutine at work on a row knows, and how it moves on.
LEMMA RowOf ==
  ASSUME SessionInv, NEW p \in Procs, proc[p].pc \in HasRow
  PROVE  /\ proc[p].sid \in Sessions
         /\ sess[proc[p].sid] \in SessRow
         /\ sess[proc[p].sid].status # "NONE"
         /\ sess[proc[p].sid].user \in Users
         /\ proc[p].pc \in HasUser => proc[p].user = sess[proc[p].sid].user
  <1>1. proc[p] \in Goroutine /\ GoroutineOK(proc[p])
    BY ProcOK
  <1>2. proc[p].sid \in Sessions
    BY <1>1 DEF Goroutine
  <1> QED
    BY <1>1, <1>2 DEF SessionInv, TypeOK, RowsHaveUsers, GoroutineOK

LEMMA MoveOn ==
  ASSUME SessionInv, NEW p \in Procs, proc[p].pc \in HasRow,
         NEW g \in Goroutine, g.pc \in HasRow,
         g.sid = proc[p].sid, g.todo = proc[p].todo,
         g.pc \in HasUser => g.user = sess[g.sid].user,
         g.pc = "healWrite" => sess[g.sid].exp > g.now
  PROVE  GoroutineOK(g) /\ g.pc # "loginCreate"
  <1>1. sess[g.sid].status # "NONE"
    BY RowOf
  <1>2. \A t \in g.todo : sess[t.sid].status # "NONE"
    BY ProcOK DEF GoroutineOK
  <1> QED
    BY <1>1, <1>2 DEF GoroutineOK, HasRow

LEMMA GotoStep ==
  ASSUME SessionInv, NEW p \in Procs, proc[p].pc \in HasRow,
         NEW c \in PC \cap HasRow, c # "healWrite",
         c \in HasUser => proc[p].pc \in HasUser,
         Goto(p, c),
         UNCHANGED <<sess, cache, userOwners, userRoles, roleStatus, clock>>,
         faults' \in Nat
  PROVE  SessionInv'
  <1> DEFINE g == [proc[p] EXCEPT !.pc = c]
  <1>1. /\ g \in Goroutine /\ g.pc = c /\ g.sid = proc[p].sid
        /\ g.todo = proc[p].todo /\ g.user = proc[p].user
    BY ProcOK DEF Goroutine
  <1>2. GoroutineOK(g) /\ g.pc # "loginCreate"
    BY <1>1, RowOf, MoveOn
  <1> QED
    BY <1>1, <1>2, QuietStep DEF Goto

-----------------------------------------------------------------------------
(* Login. *)

LEMMA LoginResolveRolesInv ==
  ASSUME SessionInv, NEW p \in Procs, NEW u \in Users, LoginResolveRoles(p, u)
  PROVE  SessionInv'
  <1>1. PICK s \in Sessions, rs \in SUBSET ActiveRoles(u) :
           /\ FreshId(s)
           /\ IF rs = ActiveRoles(u) THEN Succeeds ELSE CallsFail("login", 1)
           /\ Become(p, [Start("login", "loginCreate") EXCEPT
                            !.sid = s, !.user = u, !.roles = rs])
    BY DEF LoginResolveRoles
  <1> DEFINE g == [Start("login", "loginCreate") EXCEPT
                      !.sid = s, !.user = u, !.roles = rs]
  <1>2. rs \in SUBSET Roles
    BY DEF SessionInv, TypeOK, ActiveRoles
  <1>3. Start("login", "loginCreate") \in Goroutine
        /\ Start("login", "loginCreate").pc = "loginCreate"
        /\ Start("login", "loginCreate").todo = {}
    BY StartType DEF AllOps, PC
  <1>4. /\ g \in Goroutine /\ g.pc = "loginCreate" /\ g.sid = s
        /\ g.user = u /\ g.todo = {}
    BY <1>2, <1>3 DEF Goroutine
  <1>5. UNCHANGED <<sess, cache, userOwners, userRoles, roleStatus, clock>>
    BY DEF LoginResolveRoles
  <1>6. GoroutineOK(g)'
    BY <1>1, <1>4, <1>5 DEF GoroutineOK, FreshId, HasRow, HasUser
  <1>7. sess' \in [Sessions -> SessRow] /\ RowsKept(p)
    BY <1>5, RowSame
  <1>8. /\ cache' \in [Sessions -> Entry]
        /\ CacheBelongsToSession'
        /\ CacheHasTimeToLive'
    BY <1>5, <1>7, CacheStep
  <1>9. faults' \in Nat
    BY <1>1, CallOutcome
  <1>10. \A q \in Procs \ {p} : At(q, "loginCreate") => proc[q].sid # g.sid
    BY <1>1, <1>4 DEF FreshId
  <1>11. /\ userOwners' \in [Users -> SUBSET Owners]
         /\ userRoles' \in [Users -> SUBSET Roles]
         /\ roleStatus' \in [Roles -> RoleStatus]
         /\ clock' \in Nat
    BY <1>5 DEF SessionInv, TypeOK
  <1>12. Become(p, g)
    BY <1>1
  <1> QED
    BY <1>4, <1>6, <1>7, <1>8, <1>9, <1>10, <1>11, <1>12, StepInv

LEMMA LoginInv ==
  ASSUME SessionInv, NEW p \in Procs,
         LoginCreate(p) \/ ReadOwners(p) \/ Populate(p)
  PROVE  SessionInv'
  <1>1. ASSUME LoginCreate(p)
        PROVE  SessionInv'
    <2> USE <1>1
    <2>1. /\ proc[p] \in Goroutine /\ GoroutineOK(proc[p]) /\ At(p, "loginCreate")
          /\ UNCHANGED <<cache, userOwners, userRoles, roleStatus, clock>>
      BY ProcOK DEF LoginCreate
    <2> DEFINE row == [status |-> "ACTIVE", user |-> proc[p].user,
                       wh |-> NoWarehouse, roles |-> proc[p].roles,
                       exp |-> clock + Timeout]
    <2>2. CASE /\ Succeeds
               /\ sess' = [sess EXCEPT ![proc[p].sid] = row]
               /\ Goto(p, "readOwners")
      <3>1. row \in SessRow /\ proc[p].sid \in Sessions
        BY <2>1, SessionAssumption DEF SessionInv, TypeOK, Goroutine, SessRow, Status, Wh
      <3>2. sess[proc[p].sid].status = "NONE" /\ row.user \in Users
        BY <2>1 DEF GoroutineOK, At
      <3>3. sess' \in [Sessions -> SessRow] /\ RowsKept(p)
        BY <2>1, <2>2, <3>1, <3>2 DEF SessionInv, TypeOK, RowsKept
      <3>4. /\ cache' \in [Sessions -> Entry]
            /\ CacheBelongsToSession'
            /\ CacheHasTimeToLive'
        BY <2>1, <3>3, CacheStep
      <3>0. PICK g \in Goroutine : g = [proc[p] EXCEPT !.pc = "readOwners"]
        BY <2>1 DEF Goroutine, PC
      <3>5. /\ g.pc = "readOwners" /\ g.sid = proc[p].sid
            /\ g.user = proc[p].user /\ g.todo = proc[p].todo
        BY <2>1, <3>0 DEF Goroutine, PC
      <3>6. sess'[proc[p].sid] = row
        BY <2>2, <3>1 DEF SessionInv, TypeOK
      <3>7. \A t \in proc[p].todo : sess'[t.sid].status # "NONE"
        <4>1. \A t \in proc[p].todo : t.sid \in Sessions /\ sess[t.sid].status # "NONE"
          BY <2>1 DEF Goroutine, Found, GoroutineOK
        <4> QED
          BY <4>1, <3>3 DEF RowsKept
      <3>8. GoroutineOK(g)'
        BY <3>5, <3>6, <3>7 DEF GoroutineOK, HasRow, HasUser
      <3>9. faults' \in Nat
        BY <2>2, CallOutcome
      <3>10. /\ userOwners' \in [Users -> SUBSET Owners]
             /\ userRoles' \in [Users -> SUBSET Roles]
             /\ roleStatus' \in [Roles -> RoleStatus]
             /\ clock' \in Nat
        BY <2>1 DEF SessionInv, TypeOK
      <3>11. Become(p, g)
        BY <2>2, <3>0 DEF Goto
      <3> QED
        BY <3>3, <3>4, <3>5, <3>8, <3>9, <3>10, <3>11, StepInv
    <2>3. CASE Fails(p) /\ Return(p) /\ UNCHANGED sess
      BY <2>1, <2>3, CallOutcome, ReturnStep
    <2> QED
      BY <2>2, <2>3 DEF LoginCreate
  <1>2. ASSUME ReadOwners(p)
        PROVE  SessionInv'
    <2> USE <1>2
    <2>1. /\ proc[p] \in Goroutine /\ GoroutineOK(proc[p]) /\ At(p, "readOwners")
          /\ UNCHANGED <<sess, cache, userOwners, userRoles, roleStatus, clock>>
      BY ProcOK DEF ReadOwners
    <2>2. PICK os \in {userOwners[proc[p].user], {}} :
            /\ IF os = userOwners[proc[p].user] THEN Succeeds ELSE Fails(p)
            /\ Become(p, [proc[p] EXCEPT
                  !.owners = os,
                  !.pc = IF proc[p].op = "login" THEN "populate" ELSE "readRoles"])
      BY DEF ReadOwners
    <2>3. faults' \in Nat
      BY <2>2, CallOutcome
    <2> DEFINE g == [proc[p] EXCEPT
                  !.owners = os,
                  !.pc = IF proc[p].op = "login" THEN "populate" ELSE "readRoles"]
    <2>4. proc[p].user = sess[proc[p].sid].user /\ sess[proc[p].sid].status # "NONE"
      BY <2>1 DEF GoroutineOK, HasRow, HasUser, At
    <2>5. os \in SUBSET Owners
      BY <2>1, <2>4 DEF SessionInv, TypeOK, RowsHaveUsers, Goroutine
    <2>6. g \in Goroutine /\ g.pc \in {"populate", "readRoles"}
          /\ g.sid = proc[p].sid /\ g.user = proc[p].user /\ g.todo = proc[p].todo
      BY <2>1, <2>5 DEF Goroutine, PC
    <2>7. GoroutineOK(g)
      BY <2>1, <2>4, <2>6 DEF GoroutineOK, HasRow, HasUser
    <2>8. Become(p, g) /\ g.pc # "loginCreate"
      BY <2>2, <2>6
    <2> QED
      BY <2>1, <2>3, <2>6, <2>7, <2>8, QuietStep
  <1>3. ASSUME Populate(p)
        PROVE  SessionInv'
    <2> USE <1>3
    <2>1. /\ proc[p].pc = "populate" /\ Return(p)
          /\ UNCHANGED <<sess, userOwners, userRoles, roleStatus, clock>>
      BY DEF Populate, At
    <2>2. /\ proc[p] \in Goroutine
          /\ proc[p].sid \in Sessions
          /\ sess[proc[p].sid].status # "NONE"
          /\ proc[p].user = sess[proc[p].sid].user
      BY <2>1, ProcOK, RowOf DEF HasRow, HasUser
    <2> DEFINE e == [user |-> proc[p].user, wh |-> proc[p].wh,
                     owners |-> proc[p].owners, roles |-> proc[p].roles,
                     exp |-> clock + Timeout]
    <2>3. CASE Succeeds /\ SetCache(proc[p].sid, e)
      <3>1. e \in Entry /\ e.exp > clock /\ e.user = proc[p].user
        BY <2>2, SessionAssumption DEF Entry, Goroutine, SessionInv, TypeOK
      <3>2. faults' \in Nat
        BY <2>3, CallOutcome
      <3> QED
        BY <2>1, <2>2, <2>3, <3>1, <3>2, IdleOK, QuietStep DEF Return
    <2>4. CASE FailClosed(p, proc[p].sid)
      BY <2>1, <2>2, <2>4, DropOutcome, ReturnStep
    <2> QED
      BY <2>3, <2>4 DEF Populate
  <1> QED
    BY <1>1, <1>2, <1>3

-----------------------------------------------------------------------------
(* The requests that carry a token. *)

LEMMA ArriveInv ==
  ASSUME SessionInv, NEW p \in Procs, NEW s \in Sessions, NEW op \in AllOps,
         NEW c \in {"swValidate", "loInvalidate", "gcRedis"}, Arrive(p, s, op, c)
  PROVE  SessionInv'
  <1> DEFINE g == [Start(op, c) EXCEPT !.sid = s]
  <1>1. Start(op, c) \in Goroutine /\ Start(op, c).pc = c /\ Start(op, c).todo = {}
    BY StartType DEF PC
  <1>2. g \in Goroutine /\ g.pc = c /\ g.sid = s /\ g.todo = {}
    BY <1>1 DEF Goroutine
  <1>3. sess[s].status # "NONE"
    BY DEF Arrive, Admitted
  <1>4. GoroutineOK(g) /\ g.pc # "loginCreate"
    BY <1>2, <1>3 DEF GoroutineOK, HasRow, HasUser
  <1>5. Become(p, g) /\ UNCHANGED <<sess, cache, userOwners, userRoles, roleStatus, clock, faults>>
    BY DEF Arrive
  <1>6. faults' \in Nat
    BY <1>5 DEF SessionInv, TypeOK
  <1> QED
    BY <1>2, <1>4, <1>5, <1>6, QuietStep

LEMMA SwitchInv ==
  ASSUME SessionInv, NEW p \in Procs,
         SwitchValidate(p) \/ SwitchUpdate(p) \/ SwitchReadRoles(p) \/ LogoutInvalidate(p)
  PROVE  SessionInv'
  <1>1. ASSUME SwitchValidate(p)
        PROVE  SessionInv'
    <2> USE <1>1
    <2>1. /\ proc[p].pc = "swValidate" /\ Succeeds
          /\ UNCHANGED <<sess, cache, userOwners, userRoles, roleStatus, clock>>
      BY DEF SwitchValidate, At
    <2>2. faults' \in Nat
      BY <2>1, CallOutcome
    <2>3. CASE Return(p)
      BY <2>1, <2>2, <2>3, ReturnStep
    <2>4. ASSUME NEW w \in Warehouses,
                 Become(p, [proc[p] EXCEPT !.pc = "swUpdate",
                               !.user = sess[proc[p].sid].user, !.wh = w])
          PROVE  SessionInv'
      <3> DEFINE g == [proc[p] EXCEPT !.pc = "swUpdate",
                          !.user = sess[proc[p].sid].user, !.wh = w]
      <3>1. /\ proc[p] \in Goroutine /\ proc[p].pc \in HasRow
            /\ sess[proc[p].sid].user \in Users
        BY <2>1, ProcOK, RowOf DEF HasRow
      <3>2. /\ g \in Goroutine /\ g.pc = "swUpdate" /\ g.sid = proc[p].sid
            /\ g.user = sess[proc[p].sid].user /\ g.todo = proc[p].todo
        BY <3>1 DEF Goroutine, PC, Wh
      <3>3. GoroutineOK(g) /\ g.pc # "loginCreate"
        BY <3>1, <3>2, MoveOn DEF HasRow
      <3> QED
        BY <2>1, <2>2, <2>4, <3>2, <3>3, QuietStep
    <2> QED
      BY <2>3, <2>4 DEF SwitchValidate
  <1>2. ASSUME SwitchUpdate(p)
        PROVE  SessionInv'
    <2> USE <1>2
    <2>1. /\ proc[p].pc = "swUpdate"
          /\ UNCHANGED <<cache, userOwners, userRoles, roleStatus, clock>>
      BY DEF SwitchUpdate, At
    <2>2. /\ proc[p] \in Goroutine /\ proc[p].sid \in Sessions /\ proc[p].wh \in Wh
          /\ sess[proc[p].sid].status # "NONE"
          /\ proc[p].user = sess[proc[p].sid].user
          /\ sess[proc[p].sid].user \in Users
      BY <2>1, ProcOK, RowOf DEF HasRow, HasUser, Goroutine
    <2>3. CASE /\ Succeeds
               /\ sess' = [sess EXCEPT ![proc[p].sid].wh = proc[p].wh]
               /\ Goto(p, "readOwners")
      <3>1. sess' \in [Sessions -> SessRow] /\ RowsKept(p)
        BY <2>2, <2>3, RowMoved
      <3>2. /\ cache' \in [Sessions -> Entry]
            /\ CacheBelongsToSession'
            /\ CacheHasTimeToLive'
        BY <2>1, <3>1, CacheStep
      <3>3. PICK g \in Goroutine : g = [proc[p] EXCEPT !.pc = "readOwners"]
        BY <2>2 DEF Goroutine, PC
      <3>4. /\ g.pc = "readOwners" /\ g.sid = proc[p].sid
            /\ g.user = proc[p].user /\ g.todo = proc[p].todo
        BY <2>2, <3>3 DEF Goroutine
      <3>5. \A t \in proc[p].todo : t.sid \in Sessions /\ sess[t.sid].status # "NONE"
        BY <2>2, ProcOK DEF Goroutine, Found, GoroutineOK
      <3>6. GoroutineOK(g)'
        <4>1. sess'[g.sid].status # "NONE" /\ sess'[g.sid].user = g.user
          BY <2>2, <3>1, <3>4 DEF RowsKept
        <4>2. \A t \in g.todo : sess'[t.sid].status # "NONE"
          BY <3>1, <3>4, <3>5 DEF RowsKept
        <4> QED
          BY <3>4, <4>1, <4>2 DEF GoroutineOK
      <3>7. faults' \in Nat
        BY <2>3, CallOutcome
      <3>8. /\ userOwners' \in [Users -> SUBSET Owners]
            /\ userRoles' \in [Users -> SUBSET Roles]
            /\ roleStatus' \in [Roles -> RoleStatus]
            /\ clock' \in Nat
        BY <2>1 DEF SessionInv, TypeOK
      <3> QED
        BY <2>3, <3>1, <3>2, <3>3, <3>4, <3>6, <3>7, <3>8, StepInv DEF Goto
    <2>4. CASE Fails(p) /\ Return(p) /\ UNCHANGED sess
      BY <2>1, <2>4, CallOutcome, ReturnStep
    <2> QED
      BY <2>3, <2>4 DEF SwitchUpdate
  <1>3. ASSUME SwitchReadRoles(p)
        PROVE  SessionInv'
    <2> USE <1>3
    <2>1. /\ proc[p].pc = "readRoles"
          /\ UNCHANGED <<sess, cache, userOwners, userRoles, roleStatus, clock>>
      BY DEF SwitchReadRoles, At
    <2>2. PICK rs \in SUBSET ActiveRoles(proc[p].user) :
            /\ IF rs = ActiveRoles(proc[p].user) THEN Succeeds ELSE Fails(p)
            /\ Become(p, [proc[p] EXCEPT !.roles = rs, !.pc = "populate"])
      BY DEF SwitchReadRoles
    <2> DEFINE g == [proc[p] EXCEPT !.roles = rs, !.pc = "populate"]
    <2>3. /\ proc[p] \in Goroutine /\ proc[p].pc \in HasRow
          /\ proc[p].user = sess[proc[p].sid].user
          /\ sess[proc[p].sid].user \in Users
      BY <2>1, ProcOK, RowOf DEF HasRow, HasUser
    <2>4. rs \in SUBSET Roles
      BY <2>3 DEF SessionInv, TypeOK, ActiveRoles
    <2>5. /\ g \in Goroutine /\ g.pc = "populate" /\ g.sid = proc[p].sid
          /\ g.user = proc[p].user /\ g.todo = proc[p].todo
      BY <2>3, <2>4 DEF Goroutine, PC
    <2>6. GoroutineOK(g) /\ g.pc # "loginCreate"
      BY <2>3, <2>5, MoveOn DEF HasRow
    <2>7. faults' \in Nat
      BY <2>2, CallOutcome
    <2> QED
      BY <2>1, <2>2, <2>5, <2>6, <2>7, QuietStep
  <1>4. ASSUME LogoutInvalidate(p)
        PROVE  SessionInv'
    <2> USE <1>4
    <2>1. /\ proc[p].pc = "loInvalidate" /\ Return(p)
          /\ UNCHANGED <<cache, userOwners, userRoles, roleStatus, clock>>
      BY DEF LogoutInvalidate, At
    <2>2. proc[p].sid \in Sessions /\ sess[proc[p].sid].status # "NONE"
      BY <2>1, RowOf DEF HasRow
    <2>3. sess' \in [Sessions -> SessRow] /\ RowsKept(p)
      BY <2>2, RowSame, RowInvalidated DEF LogoutInvalidate
    <2>4. /\ cache' \in [Sessions -> Entry]
          /\ CacheBelongsToSession'
          /\ CacheHasTimeToLive'
      BY <2>1, <2>3, CacheStep
    <2>5. faults' \in Nat
      BY CallOutcome DEF LogoutInvalidate
    <2>6. /\ userOwners' \in [Users -> SUBSET Owners]
          /\ userRoles' \in [Users -> SUBSET Roles]
          /\ roleStatus' \in [Roles -> RoleStatus]
          /\ clock' \in Nat
      BY <2>1 DEF SessionInv, TypeOK
    <2>7. GoroutineOK(Idle)'
      BY DEF GoroutineOK, Idle, HasRow, HasUser
    <2> QED
      BY <2>1, <2>3, <2>4, <2>5, <2>6, <2>7, IdleOK, StepInv DEF Return
  <1> QED
    BY <1>1, <1>2, <1>3, <1>4

-----------------------------------------------------------------------------
(* GetCurrentSession and its heal. *)

LEMMA CurrentInv ==
  ASSUME SessionInv, NEW p \in Procs,
         \/ CurrentRedis(p) \/ CurrentHitDb(p) \/ CurrentHitOwners(p)
         \/ CurrentMissDb(p) \/ CurrentMissOwners(p)
  PROVE  SessionInv'
  <1>1. /\ proc[p] \in Goroutine
        /\ UNCHANGED <<sess, userOwners, userRoles, roleStatus, clock>>
        /\ proc[p].pc \in HasRow
    BY ProcOK DEF CurrentRedis, CurrentHitDb, CurrentHitOwners, CurrentMissDb,
       CurrentMissOwners, At, HasRow
  <1> DEFINE s == proc[p].sid
  <1>2. /\ s \in Sessions /\ sess[s] \in SessRow
        /\ sess[s].status # "NONE" /\ sess[s].user \in Users
        /\ proc[p].pc \in HasUser => proc[p].user = sess[s].user
    BY <1>1, RowOf
  <1>3. CASE CurrentRedis(p)
    <2>1. proc[p].pc = "gcRedis" /\ UNCHANGED cache
      BY <1>3 DEF CurrentRedis, At
    <2>2. CASE /\ Succeeds /\ cache[s] # Gone
               /\ Become(p, [proc[p] EXCEPT !.pc = "gcHitDb",
                     !.user = cache[s].user, !.wh = cache[s].wh,
                     !.owners = cache[s].owners, !.roles = cache[s].roles])
      <3> DEFINE g == [proc[p] EXCEPT !.pc = "gcHitDb",
                     !.user = cache[s].user, !.wh = cache[s].wh,
                     !.owners = cache[s].owners, !.roles = cache[s].roles]
      <3>1. cache[s] \in Entry /\ cache[s].user = sess[s].user
        BY <1>2, <2>2 DEF SessionInv, TypeOK, CacheBelongsToSession
      <3>2. /\ g \in Goroutine /\ g.pc = "gcHitDb" /\ g.sid = s
            /\ g.user = cache[s].user /\ g.todo = proc[p].todo
        BY <1>1, <3>1 DEF Goroutine, Entry, PC
      <3>3. GoroutineOK(g) /\ g.pc # "loginCreate"
        BY <1>1, <3>1, <3>2, MoveOn DEF HasRow
      <3>4. faults' \in Nat /\ Become(p, g)
        BY <2>2, CallOutcome
      <3> QED
        BY <1>1, <2>1, <3>2, <3>3, <3>4, QuietStep
    <2>3. CASE /\ (Succeeds /\ cache[s] = Gone) \/ Fails(p)
               /\ Goto(p, "gcMissDb")
      BY <1>1, <2>1, <2>3, CallOutcome, GotoStep DEF PC, HasRow, HasUser
    <2> QED
      BY <1>3, <2>2, <2>3 DEF CurrentRedis
  <1>4. CASE CurrentHitDb(p)
    <2>1. proc[p].pc = "gcHitDb"
      BY <1>4 DEF CurrentHitDb, At
    <2>2. CASE /\ Succeeds /\ UNCHANGED cache
               /\ IF sess[s].status = "ACTIVE"
                  THEN Goto(p, "gcHitOwners") ELSE Return(p)
      BY <1>1, <2>1, <2>2, CallOutcome, GotoStep, ReturnStep DEF PC, HasRow, HasUser
    <2>3. CASE FailClosed(p, s) /\ Return(p)
      BY <1>1, <1>2, <2>3, DropOutcome, ReturnStep
    <2> QED
      BY <1>4, <2>2, <2>3 DEF CurrentHitDb
  <1>5. CASE CurrentHitOwners(p)
    <2>1. proc[p].pc = "gcHitOwners"
      BY <1>5 DEF CurrentHitOwners, At
    <2>2. /\ proc[p].user = sess[s].user
          /\ userOwners[proc[p].user] \in SUBSET Owners
      BY <1>2, <2>1 DEF HasRow, HasUser, SessionInv, TypeOK
    <2>3. CASE /\ Succeeds /\ UNCHANGED cache
               /\ Become(p, [proc[p] EXCEPT !.owners = userOwners[proc[p].user],
                                            !.now = clock, !.pc = "healRead"])
      <3> DEFINE g == [proc[p] EXCEPT !.owners = userOwners[proc[p].user],
                                      !.now = clock, !.pc = "healRead"]
      <3>1. /\ g \in Goroutine /\ g.pc = "healRead" /\ g.sid = s
            /\ g.user = proc[p].user /\ g.todo = proc[p].todo
        BY <1>1, <2>2 DEF Goroutine, PC, SessionInv, TypeOK
      <3>2. GoroutineOK(g) /\ g.pc # "loginCreate"
        BY <1>1, <2>2, <3>1, MoveOn DEF HasRow
      <3>3. faults' \in Nat /\ Become(p, g)
        BY <2>3, CallOutcome
      <3> QED
        BY <1>1, <2>3, <3>1, <3>2, <3>3, QuietStep
    <2>4. CASE Succeeds /\ UNCHANGED cache /\ Return(p)
      BY <1>1, <2>4, CallOutcome, ReturnStep
    <2>5. CASE FailClosed(p, s) /\ Return(p)
      BY <1>1, <1>2, <2>5, DropOutcome, ReturnStep
    <2> QED
      BY <1>5, <2>3, <2>4, <2>5 DEF CurrentHitOwners
  <1>6. CASE CurrentMissDb(p)
    <2>1. proc[p].pc = "gcMissDb" /\ UNCHANGED cache
      BY <1>6 DEF CurrentMissDb, At
    <2>2. CASE /\ Succeeds
               /\ Become(p, [proc[p] EXCEPT !.pc = "gcMissOwners",
                     !.user = sess[s].user, !.wh = sess[s].wh,
                     !.roles = sess[s].roles])
      <3> DEFINE g == [proc[p] EXCEPT !.pc = "gcMissOwners",
                     !.user = sess[s].user, !.wh = sess[s].wh,
                     !.roles = sess[s].roles]
      <3>1. /\ g \in Goroutine /\ g.pc = "gcMissOwners" /\ g.sid = s
            /\ g.user = sess[s].user /\ g.todo = proc[p].todo
        BY <1>1, <1>2 DEF Goroutine, SessRow, PC
      <3>2. GoroutineOK(g) /\ g.pc # "loginCreate"
        BY <1>1, <3>1, MoveOn DEF HasRow
      <3>3. faults' \in Nat /\ Become(p, g)
        BY <2>2, CallOutcome
      <3> QED
        BY <1>1, <2>1, <3>1, <3>2, <3>3, QuietStep
    <2>3. CASE (Succeeds \/ Fails(p)) /\ Return(p)
      BY <1>1, <2>1, <2>3, CallOutcome, ReturnStep
    <2> QED
      BY <1>6, <2>2, <2>3 DEF CurrentMissDb
  <1>7. CASE CurrentMissOwners(p)
    <2>1. proc[p].pc = "gcMissOwners" /\ UNCHANGED cache
      BY <1>7 DEF CurrentMissOwners, At
    <2>2. /\ proc[p].user = sess[s].user
          /\ userOwners[proc[p].user] \in SUBSET Owners
      BY <1>2, <2>1 DEF HasRow, HasUser, SessionInv, TypeOK
    <2>3. CASE /\ Succeeds
               /\ Become(p, [proc[p] EXCEPT !.owners = userOwners[proc[p].user],
                                            !.now = clock, !.pc = "healRead"])
      <3> DEFINE g == [proc[p] EXCEPT !.owners = userOwners[proc[p].user],
                                      !.now = clock, !.pc = "healRead"]
      <3>1. /\ g \in Goroutine /\ g.pc = "healRead" /\ g.sid = s
            /\ g.user = proc[p].user /\ g.todo = proc[p].todo
        BY <1>1, <2>2 DEF Goroutine, PC, SessionInv, TypeOK
      <3>2. GoroutineOK(g) /\ g.pc # "loginCreate"
        BY <1>1, <2>2, <3>1, MoveOn DEF HasRow
      <3>3. faults' \in Nat /\ Become(p, g)
        BY <2>3, CallOutcome
      <3> QED
        BY <1>1, <2>1, <3>1, <3>2, <3>3, QuietStep
    <2>4. CASE Fails(p) /\ Return(p)
      BY <1>1, <2>1, <2>4, CallOutcome, ReturnStep
    <2> QED
      BY <1>7, <2>3, <2>4 DEF CurrentMissOwners
  <1> QED
    BY <1>3, <1>4, <1>5, <1>6, <1>7

\* A rewrite stores what is left of the row's time, never less than a tick.
LEMMA RewriteStep ==
  ASSUME SessionInv, NEW p \in Procs, NEW s \in Sessions, NEW e \in Entry,
         sess[s].status # "NONE", e.user = sess[s].user,
         sess[s].exp > proc[p].now, Rewrite(p, s, e)
  PROVE  /\ faults' \in Nat
         /\ \/ UNCHANGED cache
            \/ DeleteCache(s)
            \/ \E f \in Entry : /\ SetCache(s, f)
                                /\ f.user = sess[s].user
                                /\ f.exp > clock
  <1>1. proc[p].now \in Nat /\ sess[s].exp \in Nat /\ clock \in Nat
    BY DEF SessionInv, TypeOK, Goroutine, SessRow
  <1>2. CASE Succeeds /\ SetCache(s, [e EXCEPT !.exp = clock + (sess[s].exp - proc[p].now)])
    <2> DEFINE left == clock + (sess[s].exp - proc[p].now)
               f == [e EXCEPT !.exp = left]
    <2>1. left \in Nat /\ left > clock
      BY <1>1
    <2> HIDE DEF left
    <2>2. f \in Entry /\ f.user = sess[s].user /\ f.exp = left
      BY <2>1 DEF Entry
    <2> QED
      BY <1>2, <2>1, <2>2, CallOutcome DEF left
  <1>3. CASE FailClosed(p, s)
    BY <1>3, DropOutcome
  <1> QED
    BY <1>2, <1>3 DEF Rewrite

LEMMA HealInv ==
  ASSUME SessionInv, NEW p \in Procs, HealRead(p) \/ HealWrite(p)
  PROVE  SessionInv'
  <1>1. /\ proc[p] \in Goroutine /\ GoroutineOK(proc[p])
        /\ UNCHANGED <<sess, userOwners, userRoles, roleStatus, clock>>
        /\ proc[p].pc \in HasRow
    BY ProcOK DEF HealRead, HealWrite, At, HasRow
  <1> DEFINE s == proc[p].sid
  <1>2. /\ s \in Sessions /\ sess[s] \in SessRow
        /\ sess[s].status # "NONE" /\ proc[p].user = sess[s].user
    BY <1>1, RowOf DEF HealRead, HealWrite, At, HasUser, HasRow
  <1>3. CASE HealRead(p)
    <2>1. CASE /\ Succeeds /\ UNCHANGED cache
               /\ SessionEligibleForOwnerRewrite(s, proc[p].user, proc[p].now)
               /\ Goto(p, "healWrite")
      <3> DEFINE g == [proc[p] EXCEPT !.pc = "healWrite"]
      <3>1. /\ g \in Goroutine /\ g.pc = "healWrite" /\ g.sid = s
            /\ g.user = proc[p].user /\ g.todo = proc[p].todo /\ g.now = proc[p].now
        BY <1>1 DEF Goroutine, PC
      <3>2. GoroutineOK(g) /\ g.pc # "loginCreate"
        BY <1>1, <1>2, <2>1, <3>1, MoveOn DEF HasRow, SessionEligibleForOwnerRewrite
      <3>3. faults' \in Nat /\ Become(p, g)
        BY <2>1, CallOutcome DEF Goto
      <3> QED
        BY <1>1, <2>1, <3>1, <3>2, <3>3, QuietStep
    <2>2. CASE (DropEntry(p, s) \/ FailClosed(p, s)) /\ Return(p)
      BY <1>1, <1>2, <2>2, DropOutcome, ReturnStep
    <2> QED
      BY <1>3, <2>1, <2>2 DEF HealRead
  <1>4. CASE HealWrite(p)
    <2> DEFINE e == [user |-> proc[p].user, wh |-> proc[p].wh,
                     owners |-> proc[p].owners, roles |-> proc[p].roles, exp |-> 0]
    <2>1. e \in Entry /\ e.user = sess[s].user
      BY <1>1, <1>2 DEF Entry, Goroutine
    <2>2. sess[s].exp > proc[p].now
      BY <1>1, <1>4 DEF HealWrite, At, GoroutineOK
    <2>3. Rewrite(p, s, e) /\ Return(p)
      BY <1>4 DEF HealWrite
    <2>4. /\ faults' \in Nat
          /\ \/ UNCHANGED cache
             \/ DeleteCache(s)
             \/ \E f \in Entry : /\ SetCache(s, f)
                                 /\ f.user = sess[s].user
                                 /\ f.exp > clock
      BY <1>2, <2>1, <2>2, <2>3, RewriteStep
    <2> QED
      BY <1>1, <1>2, <2>3, <2>4, IdleOK, QuietStep DEF Return
  <1> QED
    BY <1>3, <1>4

-----------------------------------------------------------------------------
(* The refresh after an owner change, and the invalidation. *)

LEMMA FoundOK ==
  ASSUME SessionInv, NEW u
  PROVE  /\ FindActiveByUserId(u) \in SUBSET Found
         /\ \A t \in FindActiveByUserId(u) : sess[t.sid].status = "ACTIVE"
         /\ {t.sid : t \in FindActiveByUserId(u)} \in SUBSET Sessions
  <1>1. \A s \in Sessions : sess[s].wh \in Wh
    BY DEF SessionInv, TypeOK, SessRow
  <1> QED
    BY <1>1 DEF FindActiveByUserId, ActiveOf, Found

\* A goroutine that answers no session's request moves on.
LEMMA WalkOn ==
  ASSUME SessionInv, NEW p \in Procs, NEW g \in Goroutine,
         g.pc \in {"rfOwners", "rfWrite", "rfClear", "invFind", "invDb", "invClear"},
         g.pc \in {"rfOwners", "rfWrite"} => g.user \in Users,
         \A t \in g.todo : sess[t.sid].status # "NONE"
  PROVE  GoroutineOK(g) /\ g.pc # "loginCreate"
  BY DEF GoroutineOK, HasRow, HasUser

\* InvalidateAllUserSessions begins with the user and with nothing found.
LEMMA InvalidateStarts ==
  ASSUME SessionInv, NEW p \in Procs, Invalidate(p)
  PROVE  \E g \in Goroutine :
            /\ Become(p, g) /\ g.pc = "invFind"
            /\ g.op = proc[p].op /\ g.sid = proc[p].sid /\ g.user = proc[p].user
            /\ g.todo = {} /\ g.clear = {}
  <1> DEFINE h == Start(proc[p].op, "invFind")
             g == [h EXCEPT !.sid = proc[p].sid, !.user = proc[p].user]
  <1>1. /\ proc[p].op \in AllOps /\ proc[p].sid \in Sessions
        /\ proc[p].user \in Users \cup {NoUser}
    BY ProcOK DEF Goroutine
  <1>2. /\ h \in Goroutine /\ h.op = proc[p].op /\ h.pc = "invFind"
        /\ h.todo = {} /\ h.clear = {}
    <2>1. h \in Goroutine
      BY <1>1, StartType DEF PC
    <2> QED
      BY <2>1 DEF Start, Idle
  <1> HIDE DEF h
  <1>3. /\ g \in Goroutine /\ g.pc = "invFind" /\ g.op = proc[p].op
        /\ g.sid = proc[p].sid /\ g.user = proc[p].user
        /\ g.todo = {} /\ g.clear = {}
    BY <1>1, <1>2 DEF Goroutine
  <1>4. Become(p, g)
    BY DEF Invalidate, h
  <1> QED
    BY <1>3, <1>4

LEMMA WalkTo ==
  ASSUME SessionInv, NEW p \in Procs, Invalidate(p) \/ Goto(p, "invClear"),
         UNCHANGED <<sess, cache, userOwners, userRoles, roleStatus, clock>>, faults' \in Nat
  PROVE  SessionInv'
  <1>1. proc[p] \in Goroutine /\ \A t \in proc[p].todo : sess[t.sid].status # "NONE"
    BY ProcOK DEF GoroutineOK
  <1>2. PICK g \in Goroutine :
           /\ Become(p, g) /\ g.pc \in {"invFind", "invClear"}
           /\ g.todo \subseteq proc[p].todo
    <2>1. CASE Goto(p, "invClear")
      <3>1. [proc[p] EXCEPT !.pc = "invClear"] \in Goroutine
        BY <1>1 DEF Goroutine, PC
      <3> QED
        BY <1>1, <2>1, <3>1 DEF Goto, Goroutine
    <2>2. CASE Invalidate(p)
      BY <2>2, InvalidateStarts
    <2> QED
      BY <2>1, <2>2
  <1>3. GoroutineOK(g) /\ g.pc # "loginCreate"
    BY <1>1, <1>2, WalkOn
  <1> QED
    BY <1>2, <1>3, QuietStep

LEMMA RefreshInv ==
  ASSUME SessionInv, NEW p \in Procs,
         RefreshSessions(p) \/ RefreshOwners(p) \/ RefreshWrite(p) \/ RefreshDone(p)
  PROVE  SessionInv'
  <1>1. /\ proc[p] \in Goroutine /\ GoroutineOK(proc[p])
        /\ UNCHANGED <<sess, userOwners, userRoles, roleStatus, clock>>
    BY ProcOK DEF RefreshSessions, RefreshOwners, RefreshWrite, RefreshDone
  <1>2. \A t \in proc[p].todo : t \in Found /\ t.sid \in Sessions /\ sess[t.sid].status # "NONE"
    BY <1>1 DEF Goroutine, Found, GoroutineOK
  <1>3. CASE RefreshSessions(p)
    <2>1. /\ proc[p].pc = "rfSessions" /\ proc[p].user \in Users
          /\ proc[p].todo = {} /\ UNCHANGED cache
      BY <1>1, <1>3 DEF RefreshSessions, At, GoroutineOK
    <2>2. CASE /\ Succeeds
               /\ Become(p, [proc[p] EXCEPT !.todo = FindActiveByUserId(proc[p].user),
                                            !.pc = "rfOwners"])
      <3> DEFINE g == [proc[p] EXCEPT !.todo = FindActiveByUserId(proc[p].user),
                                      !.pc = "rfOwners"]
      <3>1. /\ g \in Goroutine /\ g.pc = "rfOwners" /\ g.user = proc[p].user
            /\ g.todo = FindActiveByUserId(proc[p].user)
        BY <1>1, FoundOK DEF Goroutine, PC, SessionInv, TypeOK
      <3>2. GoroutineOK(g) /\ g.pc # "loginCreate"
        BY <2>1, <3>1, FoundOK, WalkOn
      <3>3. faults' \in Nat /\ Become(p, g)
        BY <2>2, CallOutcome
      <3> QED
        BY <1>1, <2>1, <3>1, <3>2, <3>3, QuietStep
    <2>3. CASE /\ Fails(p)
               /\ Become(p, [proc[p] EXCEPT !.err = TRUE, !.pc = "rfOwners"])
      <3> DEFINE g == [proc[p] EXCEPT !.err = TRUE, !.pc = "rfOwners"]
      <3>1. /\ g \in Goroutine /\ g.pc = "rfOwners" /\ g.user = proc[p].user
            /\ g.todo = {}
        BY <1>1, <2>1 DEF Goroutine, PC
      <3>2. GoroutineOK(g) /\ g.pc # "loginCreate"
        BY <2>1, <3>1, WalkOn
      <3>3. faults' \in Nat /\ Become(p, g)
        BY <2>3, CallOutcome
      <3> QED
        BY <1>1, <2>1, <3>1, <3>2, <3>3, QuietStep
    <2> QED
      BY <1>3, <2>2, <2>3 DEF RefreshSessions
  <1>4. CASE RefreshOwners(p)
    <2>1. /\ proc[p].pc = "rfOwners" /\ proc[p].user \in Users /\ UNCHANGED cache
          /\ userOwners[proc[p].user] \in SUBSET Owners
      BY <1>1, <1>4 DEF RefreshOwners, At, GoroutineOK, SessionInv, TypeOK
    <2>2. CASE /\ Succeeds
               /\ Become(p, [proc[p] EXCEPT !.owners = userOwners[proc[p].user],
                                            !.pc = "rfWrite"])
      <3> DEFINE g == [proc[p] EXCEPT !.owners = userOwners[proc[p].user],
                                      !.pc = "rfWrite"]
      <3>1. g \in Goroutine /\ g.pc = "rfWrite" /\ g.todo = proc[p].todo
            /\ g.user = proc[p].user
        BY <1>1, <2>1 DEF Goroutine, PC
      <3>2. GoroutineOK(g) /\ g.pc # "loginCreate"
        BY <1>2, <2>1, <3>1, WalkOn
      <3>3. faults' \in Nat /\ Become(p, g)
        BY <2>2, CallOutcome
      <3> QED
        BY <1>1, <2>1, <3>1, <3>2, <3>3, QuietStep
    <2>3. CASE Succeeds /\ Invalidate(p)
      BY <1>1, <2>1, <2>3, CallOutcome, WalkTo
    <2>4. CASE /\ Fails(p)
               /\ Become(p, [proc[p] EXCEPT !.clear = {t.sid : t \in proc[p].todo},
                               !.todo = {}, !.err = TRUE, !.pc = "rfClear"])
      <3> DEFINE g == [proc[p] EXCEPT !.clear = {t.sid : t \in proc[p].todo},
                               !.todo = {}, !.err = TRUE, !.pc = "rfClear"]
      <3>1. {t.sid : t \in proc[p].todo} \in SUBSET Sessions
        BY <1>2
      <3>2. g \in Goroutine /\ g.pc = "rfClear" /\ g.todo = {}
        BY <1>1, <3>1 DEF Goroutine, PC
      <3>3. GoroutineOK(g) /\ g.pc # "loginCreate"
        BY <3>2, WalkOn
      <3>4. faults' \in Nat /\ Become(p, g)
        BY <2>4, CallOutcome
      <3> QED
        BY <1>1, <2>1, <3>2, <3>3, <3>4, QuietStep
    <2> QED
      BY <1>4, <2>2, <2>3, <2>4 DEF RefreshOwners
  <1>5. CASE RefreshWrite(p)
    <2>1. proc[p].pc = "rfWrite" /\ proc[p].user \in Users
      BY <1>1, <1>5 DEF RefreshWrite, At, GoroutineOK
    <2>2. PICK t \in proc[p].todo :
            /\ IF sess[t.sid].exp > proc[p].now
               THEN Rewrite(p, t.sid, [user |-> sess[t.sid].user, wh |-> t.wh,
                                       owners |-> proc[p].owners,
                                       roles |-> sess[t.sid].roles, exp |-> 0])
               ELSE Succeeds /\ UNCHANGED cache
            /\ Become(p, [proc[p] EXCEPT !.todo = @ \ {t},
                                         !.err = @ \/ faults' # faults])
      BY <1>5 DEF RefreshWrite
    <2> DEFINE e == [user |-> sess[t.sid].user, wh |-> t.wh,
                     owners |-> proc[p].owners,
                     roles |-> sess[t.sid].roles, exp |-> 0]
    <2>3. e \in Entry /\ e.user = sess[t.sid].user
      BY <1>1, <1>2 DEF Entry, Goroutine, Found, SessionInv, TypeOK, SessRow
    <2>4. PICK er \in BOOLEAN :
             Become(p, [proc[p] EXCEPT !.todo = proc[p].todo \ {t}, !.err = er])
      <3>1. proc[p].err \in BOOLEAN
        BY <1>1 DEF Goroutine
      <3> QED
        BY <2>2, <3>1
    <2> DEFINE g == [proc[p] EXCEPT !.todo = proc[p].todo \ {t}, !.err = er]
    <2>5. /\ g \in Goroutine /\ g.pc = "rfWrite"
          /\ g.todo = proc[p].todo \ {t} /\ g.user = proc[p].user
      BY <1>1, <2>1 DEF Goroutine
    <2>6. GoroutineOK(g) /\ g.pc # "loginCreate"
      BY <1>2, <2>1, <2>5, WalkOn
    <2>7. /\ faults' \in Nat
          /\ \/ UNCHANGED cache
             \/ DeleteCache(t.sid)
             \/ \E f \in Entry : /\ SetCache(t.sid, f)
                                 /\ f.user = sess[t.sid].user
                                 /\ f.exp > clock
      <3>1. CASE sess[t.sid].exp > proc[p].now
        BY <1>2, <2>2, <2>3, <3>1, RewriteStep
      <3>2. CASE ~(sess[t.sid].exp > proc[p].now)
        BY <2>2, <3>2, CallOutcome
      <3> QED
        BY <3>1, <3>2
    <2> QED
      BY <1>1, <1>2, <2>4, <2>5, <2>6, <2>7, QuietStep
  <1>6. CASE RefreshDone(p)
    <2>1. UNCHANGED cache /\ faults' \in Nat /\ (Invalidate(p) \/ Return(p))
      BY <1>6 DEF RefreshDone, SessionInv, TypeOK
    <2> QED
      BY <1>1, <2>1, WalkTo, ReturnStep
  <1> QED
    BY <1>3, <1>4, <1>5, <1>6

LEMMA InvalidateInv ==
  ASSUME SessionInv, NEW p \in Procs,
         \/ InvalidateFind(p) \/ InvalidateOne(p) \/ InvalidateDbDone(p)
         \/ ClearOne(p) \/ ClearDone(p)
  PROVE  SessionInv'
  <1>1. /\ proc[p] \in Goroutine /\ GoroutineOK(proc[p])
        /\ UNCHANGED <<userOwners, userRoles, roleStatus, clock>>
    BY ProcOK DEF InvalidateFind, InvalidateOne, InvalidateDbDone, ClearOne, ClearDone
  <1>2. \A t \in proc[p].todo : t.sid \in Sessions /\ sess[t.sid].status # "NONE"
    BY <1>1 DEF Goroutine, Found, GoroutineOK
  <1>3. CASE InvalidateFind(p)
    <2>1. UNCHANGED <<sess, cache>>
      BY <1>3 DEF InvalidateFind
    <2> DEFINE found == FindActiveByUserId(proc[p].user)
    <2>2. CASE /\ Succeeds
               /\ Become(p, [proc[p] EXCEPT !.todo = found,
                               !.clear = {t.sid : t \in found}, !.pc = "invDb"])
      <3> DEFINE g == [proc[p] EXCEPT !.todo = found,
                               !.clear = {t.sid : t \in found}, !.pc = "invDb"]
      <3>1. g \in Goroutine /\ g.pc = "invDb" /\ g.todo = found
        BY <1>1, FoundOK DEF Goroutine, PC
      <3>2. GoroutineOK(g) /\ g.pc # "loginCreate"
        BY <3>1, FoundOK, WalkOn
      <3>3. faults' \in Nat /\ Become(p, g)
        BY <2>2, CallOutcome
      <3> QED
        BY <1>1, <2>1, <3>1, <3>2, <3>3, QuietStep
    <2>3. CASE (Succeeds \/ Fails(p)) /\ Return(p)
      BY <1>1, <2>1, <2>3, CallOutcome, ReturnStep
    <2> QED
      BY <1>3, <2>2, <2>3 DEF InvalidateFind
  <1>4. CASE InvalidateOne(p)
    <2>1. proc[p].pc = "invDb" /\ UNCHANGED cache
      BY <1>4 DEF InvalidateOne, At
    <2>2. PICK t \in proc[p].todo :
            /\ \/ Succeeds /\ sess' = [sess EXCEPT ![t.sid].status = "INVALIDATED"]
               \/ Fails(p) /\ UNCHANGED sess
            /\ Become(p, [proc[p] EXCEPT !.todo = @ \ {t}])
      BY <1>4 DEF InvalidateOne
    <2>3. sess' \in [Sessions -> SessRow] /\ RowsKept(p)
      BY <1>2, <2>2, RowSame, RowInvalidated
    <2>4. PICK g \in Goroutine : g = [proc[p] EXCEPT !.todo = @ \ {t}]
      BY <1>1 DEF Goroutine
    <2>5. g.pc = "invDb" /\ g.todo = proc[p].todo \ {t}
      BY <1>1, <2>1, <2>4 DEF Goroutine
    <2>6. \A x \in g.todo : sess'[x.sid].status # "NONE"
      BY <1>2, <2>3, <2>5 DEF RowsKept
    <2>7. GoroutineOK(g)'
      BY <2>5, <2>6 DEF GoroutineOK, HasRow, HasUser
    <2>8. /\ cache' \in [Sessions -> Entry]
          /\ CacheBelongsToSession'
          /\ CacheHasTimeToLive'
      BY <1>1, <2>1, <2>3, CacheStep
    <2>9. faults' \in Nat
      BY <2>2, CallOutcome
    <2>10. /\ userOwners' \in [Users -> SUBSET Owners]
           /\ userRoles' \in [Users -> SUBSET Roles]
           /\ roleStatus' \in [Roles -> RoleStatus]
           /\ clock' \in Nat
      BY <1>1 DEF SessionInv, TypeOK
    <2> QED
      BY <2>2, <2>3, <2>4, <2>5, <2>7, <2>8, <2>9, <2>10, StepInv
  <1>5. CASE InvalidateDbDone(p)
    <2>1. /\ UNCHANGED <<sess, cache>> /\ faults' \in Nat
          /\ Return(p) \/ Goto(p, "invClear")
      BY <1>5 DEF InvalidateDbDone, SessionInv, TypeOK
    <2> QED
      BY <1>1, <2>1, WalkTo, ReturnStep
  <1>6. CASE ClearOne(p)
    <2>1. proc[p].pc \in {"rfClear", "invClear"} /\ UNCHANGED sess
      BY <1>6 DEF ClearOne
    <2>2. PICK s \in proc[p].clear :
            DropEntry(p, s) /\ Become(p, [proc[p] EXCEPT !.clear = @ \ {s}])
      BY <1>6 DEF ClearOne
    <2> DEFINE g == [proc[p] EXCEPT !.clear = @ \ {s}]
    <2>3. s \in Sessions /\ g \in Goroutine /\ g.pc = proc[p].pc /\ g.todo = proc[p].todo
      BY <1>1 DEF Goroutine
    <2>4. GoroutineOK(g) /\ g.pc # "loginCreate"
      BY <1>2, <2>1, <2>3, WalkOn
    <2>5. faults' \in Nat /\ (UNCHANGED cache \/ DeleteCache(s)) /\ Become(p, g)
      BY <2>2, <2>3, DropOutcome
    <2> QED
      BY <1>1, <2>1, <2>3, <2>4, <2>5, QuietStep
  <1>7. CASE ClearDone(p)
    <2>1. /\ UNCHANGED <<sess, cache>> /\ faults' \in Nat
          /\ Return(p) \/ Invalidate(p)
      BY <1>7 DEF ClearDone, SessionInv, TypeOK
    <2> QED
      BY <1>1, <2>1, WalkTo, ReturnStep
  <1> QED
    BY <1>3, <1>4, <1>5, <1>6, <1>7

LEMMA RoleRowInv ==
  ASSUME SessionInv, NEW p \in Procs, MutateRoleRow(p)
  PROVE  SessionInv'
  <1>1. /\ proc[p] \in Goroutine /\ GoroutineOK(proc[p])
        /\ UNCHANGED <<sess, cache, userOwners, roleStatus, clock>>
    BY ProcOK DEF MutateRoleRow
  <1>2. PICK r \in proc[p].roles :
           \/ /\ Succeeds \/ Fails(p)
              /\ Become(p, [proc[p] EXCEPT !.roles = @ \ {r},
                    !.pc = IF proc[p].roles = {r} THEN "invFind" ELSE "roleRows"])
           \/ Fails(p) /\ (Invalidate(p) \/ Return(p))
    BY DEF MutateRoleRow
  <1>3. faults' \in Nat
    BY <1>2, CallOutcome
  <1>4. userRoles' \in [Users -> SUBSET Roles]
    <2>1. proc[p].roles \subseteq Roles
      BY <1>1 DEF Goroutine
    <2> QED
      BY <2>1 DEF MutateRoleRow, SessionInv, TypeOK
  <1>5. PICK g \in Goroutine :
           Become(p, g) /\ g.pc \in {"invFind", "roleRows", "idle"}
           /\ (g.todo = proc[p].todo \/ g.todo = {})
    <2>1. CASE Return(p)
      BY <2>1, IdleType DEF Return, Idle
    <2>2. CASE Invalidate(p)
      BY <2>2, InvalidateStarts
    <2>3. ASSUME NEW c \in {"invFind", "roleRows"},
                 Become(p, [proc[p] EXCEPT !.roles = @ \ {r}, !.pc = c])
          PROVE  \E g \in Goroutine :
                    /\ Become(p, g) /\ g.pc \in {"invFind", "roleRows", "idle"}
                    /\ g.todo = proc[p].todo
      <3>1. [proc[p] EXCEPT !.roles = @ \ {r}, !.pc = c] \in Goroutine
        BY <1>1 DEF Goroutine, PC
      <3> QED
        BY <1>1, <2>3, <3>1 DEF Goroutine
    <2> QED
      BY <1>2, <2>1, <2>2, <2>3
  <1>6. GoroutineOK(g)'
    BY <1>1, <1>5 DEF GoroutineOK, HasRow, HasUser
  <1>7. sess' \in [Sessions -> SessRow] /\ RowsKept(p)
    BY <1>1, RowSame
  <1>8. /\ cache' \in [Sessions -> Entry]
        /\ CacheBelongsToSession'
        /\ CacheHasTimeToLive'
    BY <1>1, <1>7, CacheStep
  <1>9. /\ userOwners' \in [Users -> SUBSET Owners]
        /\ roleStatus' \in [Roles -> RoleStatus]
        /\ clock' \in Nat
    BY <1>1 DEF SessionInv, TypeOK
  <1> QED
    BY <1>3, <1>4, <1>5, <1>6, <1>7, <1>8, <1>9, StepInv

\* An update with the list it read itself writes one row of its user, or ends:
\* while the list is still the user's, there is nothing to write.
LEMMA KeepRowGoes ==
  ASSUME SessionInv, NEW p \in Procs, KeepRoleRow(p)
  PROVE  /\ proc[p].pc = "keepRows"
         /\ UNCHANGED <<sess, cache, userOwners, roleStatus, clock, faults>>
         /\ \/ Return(p) /\ UNCHANGED userRoles
            \/ UNCHANGED proc /\ Become(p, proc[p])
         /\ userRoles' \in [Users -> SUBSET Roles]
         /\ \A u \in Users : u # proc[p].user => userRoles'[u] = userRoles[u]
         /\ proc[p].roles = userRoles[proc[p].user] => UNCHANGED userRoles
  <1>1. /\ proc \in [Procs -> Goroutine] /\ userRoles \in [Users -> SUBSET Roles]
        /\ proc[p].pc = "keepRows"
        /\ UNCHANGED <<sess, cache, userOwners, roleStatus, clock, faults>>
    BY DEF KeepRoleRow, At, SessionInv, TypeOK
  <1>2. CASE Return(p) /\ UNCHANGED userRoles
    BY <1>1, <1>2
  <1>3. ASSUME NEW r \in Roles, UNCHANGED proc,
               userRoles' = [userRoles EXCEPT ![proc[p].user] =
                               IF r \in proc[p].roles THEN @ \cup {r} ELSE @ \ {r}]
        PROVE  /\ Become(p, proc[p])
               /\ userRoles' \in [Users -> SUBSET Roles]
               /\ \A u \in Users : u # proc[p].user => userRoles'[u] = userRoles[u]
               /\ proc[p].roles = userRoles[proc[p].user] => UNCHANGED userRoles
    BY <1>1, <1>3 DEF Become
  <1> QED
    BY <1>1, <1>2, <1>3 DEF KeepRoleRow

LEMMA KeepRowInv ==
  ASSUME SessionInv, NEW p \in Procs, KeepRoleRow(p)
  PROVE  SessionInv'
  <1>1. PICK g \in Goroutine : Become(p, g) /\ GoroutineOK(g) /\ g.pc # "loginCreate"
    BY KeepRowGoes, ProcOK, IdleOK DEF Return
  <1>2. /\ UNCHANGED <<sess, cache, userOwners, roleStatus, clock, faults>>
        /\ userRoles' \in [Users -> SUBSET Roles]
    BY KeepRowGoes
  <1>3. GoroutineOK(g)'
    BY <1>1, <1>2 DEF GoroutineOK
  <1>4. sess' \in [Sessions -> SessRow] /\ RowsKept(p)
    BY <1>2, RowSame
  <1>5. /\ cache' \in [Sessions -> Entry]
        /\ CacheBelongsToSession'
        /\ CacheHasTimeToLive'
    BY <1>2, <1>4, CacheStep
  <1>6. /\ userOwners' \in [Users -> SUBSET Owners]
        /\ roleStatus' \in [Roles -> RoleStatus]
        /\ clock' \in Nat /\ faults' \in Nat
    BY <1>2 DEF SessionInv, TypeOK
  <1> QED
    BY <1>1, <1>2, <1>3, <1>4, <1>5, <1>6, StepInv

-----------------------------------------------------------------------------
(* The administrator's operations, expiry and time. *)

LEMMA AdminInv ==
  ASSUME SessionInv, NEW p \in Procs, NEW u \in Users,
         MutateOwners(p, u) \/ MutateRoles(p, u) \/ KeepRoles(p, u) \/ Deactivate(p, u)
  PROVE  SessionInv'
  <1>1. UNCHANGED <<sess, cache, clock>>
    BY DEF MutateOwners, MutateRoles, KeepRoles, Deactivate
  <1>2. PICK g \in Goroutine :
           /\ Become(p, g) /\ g.pc \in {"rfSessions", "invFind", "roleRows", "keepRows"}
           /\ g.pc \in {"rfSessions", "keepRows"} => g.user = u
           /\ g.todo = {}
    <2>1. clock \in Nat
      BY DEF SessionInv, TypeOK
    <2>2. \A op \in AllOps, c \in {"rfSessions", "invFind", "roleRows", "keepRows"} :
            /\ Start(op, c) \in Goroutine
            /\ Start(op, c).pc = c /\ Start(op, c).todo = {}
      BY StartType DEF PC
    <2>3. CASE MutateOwners(p, u)
      <3> DEFINE h == [Start("owner", "rfSessions") EXCEPT !.user = u, !.now = clock]
      <3>0. /\ Start("owner", "rfSessions") \in Goroutine
            /\ Start("owner", "rfSessions").pc = "rfSessions"
            /\ Start("owner", "rfSessions").todo = {}
        BY <2>2 DEF AllOps
      <3>1. h \in Goroutine /\ h.pc = "rfSessions" /\ h.user = u /\ h.todo = {}
        BY <2>1, <3>0 DEF Goroutine
      <3>2. Become(p, h)
        BY <2>3 DEF MutateOwners
      <3> HIDE DEF h
      <3> QED
        BY <3>1, <3>2
    <2>4. CASE Deactivate(p, u)
      <3> DEFINE h == [Start("deactivate", "invFind") EXCEPT !.user = u]
      <3>1. h \in Goroutine /\ h.pc = "invFind" /\ h.todo = {}
        BY <2>2 DEF Goroutine, AllOps
      <3>2. Become(p, h)
        BY <2>4 DEF Deactivate
      <3> HIDE DEF h
      <3> QED
        BY <3>1, <3>2
    <2>5. CASE MutateRoles(p, u)
      <3>1. PICK rs \in SUBSET Roles :
               Become(p, [Start("role", "roleRows") EXCEPT !.user = u, !.roles = rs])
        BY <2>5 DEF MutateRoles
      <3> DEFINE h == [Start("role", "roleRows") EXCEPT !.user = u, !.roles = rs]
      <3>2. /\ Start("role", "roleRows") \in Goroutine
            /\ Start("role", "roleRows").pc = "roleRows"
            /\ Start("role", "roleRows").todo = {}
        BY <2>2 DEF AllOps
      <3>3. h \in Goroutine /\ h.pc = "roleRows" /\ h.todo = {}
        BY <3>2 DEF Goroutine
      <3>4. Become(p, h)
        BY <3>1
      <3> HIDE DEF h
      <3> QED
        BY <3>3, <3>4
    <2>6. CASE KeepRoles(p, u)
      <3> DEFINE h == [Start("keep", "keepRows") EXCEPT !.user = u, !.roles = userRoles[u]]
      <3>1. /\ Start("keep", "keepRows") \in Goroutine
            /\ Start("keep", "keepRows").pc = "keepRows"
            /\ Start("keep", "keepRows").todo = {}
            /\ userRoles[u] \in SUBSET Roles
        BY <2>2 DEF AllOps, SessionInv, TypeOK
      <3>2. h \in Goroutine /\ h.pc = "keepRows" /\ h.user = u /\ h.todo = {}
        BY <3>1 DEF Goroutine
      <3>3. Become(p, h)
        BY <2>6 DEF KeepRoles
      <3> HIDE DEF h
      <3> QED
        BY <3>2, <3>3
    <2> QED
      BY <2>3, <2>4, <2>5, <2>6
  <1>3. g.pc # "loginCreate"
    BY <1>2
  <1>4. GoroutineOK(g)'
    BY <1>2 DEF GoroutineOK, HasRow, HasUser
  <1>5. userOwners' \in [Users -> SUBSET Owners]
    <2>1. CASE MutateOwners(p, u)
      BY <2>1 DEF MutateOwners, SessionInv, TypeOK
    <2>2. CASE MutateRoles(p, u) \/ KeepRoles(p, u) \/ Deactivate(p, u)
      BY <2>2 DEF MutateRoles, KeepRoles, Deactivate, SessionInv, TypeOK
    <2> QED
      BY <2>1, <2>2
  <1>6. userRoles' \in [Users -> SUBSET Roles] /\ roleStatus' \in [Roles -> RoleStatus]
    BY DEF MutateOwners, MutateRoles, KeepRoles, Deactivate, SessionInv, TypeOK
  <1>7. sess' \in [Sessions -> SessRow] /\ RowsKept(p)
    BY <1>1, RowSame
  <1>8. /\ cache' \in [Sessions -> Entry]
        /\ CacheBelongsToSession'
        /\ CacheHasTimeToLive'
    BY <1>1, <1>7, CacheStep
  <1>9. clock' \in Nat /\ faults' \in Nat
    BY <1>1, CallOutcome DEF SessionInv, TypeOK, MutateOwners, MutateRoles, KeepRoles, Deactivate
  <1> QED
    BY <1>2, <1>3, <1>4, <1>5, <1>6, <1>7, <1>8, <1>9, StepInv

LEMMA ExpireInv ==
  ASSUME SessionInv, NEW s \in Sessions, ExpireOnRequest(s)
  PROVE  SessionInv'
  <1>1. /\ sess[s].status = "ACTIVE"
        /\ sess' = [sess EXCEPT ![s].status = "INVALIDATED"]
        /\ UNCHANGED <<cache, userOwners, userRoles, roleStatus, proc, clock, faults>>
    BY DEF ExpireOnRequest
  <1>2. sess' \in [Sessions -> SessRow]
    BY <1>1 DEF SessionInv, TypeOK, SessRow, Status
  <1>3. \A x \in Sessions :
           /\ sess'[x].status = "NONE" <=> sess[x].status = "NONE"
           /\ sess'[x].user = sess[x].user
           /\ sess'[x].exp = sess[x].exp
    BY <1>1 DEF SessionInv, TypeOK
  <1>4. TypeOK'
    BY <1>1, <1>2 DEF SessionInv, TypeOK
  <1>5. ASSUME NEW p \in Procs
        PROVE  GoroutineOK(proc[p])'
    <2>1. /\ proc[p].sid \in Sessions /\ \A t \in proc[p].todo : t.sid \in Sessions
          /\ GoroutineOK(proc[p])
      BY ProcOK DEF Goroutine, Found
    <2> QED
      BY <1>1, <1>3, <2>1 DEF GoroutineOK
  <1>6. LoginsApart' /\ RowsHaveUsers' /\ CacheBelongsToSession' /\ CacheHasTimeToLive'
    BY <1>1, <1>3 DEF SessionInv, LoginsApart, RowsHaveUsers, At,
       CacheBelongsToSession, CacheHasTimeToLive
  <1> QED
    BY <1>4, <1>5, <1>6 DEF SessionInv

LEMMA TickInv ==
  ASSUME SessionInv, Tick
  PROVE  SessionInv'
  <1>1. /\ clock' = clock + 1
        /\ cache' = [s \in Sessions |-> IF cache[s].exp > clock' THEN cache[s] ELSE Gone]
        /\ UNCHANGED <<sess, userOwners, userRoles, roleStatus, proc, faults>>
    BY DEF Tick
  <1>2. TypeOK'
    BY <1>1, GoneType DEF SessionInv, TypeOK
  <1>3. RowsHaveUsers' /\ LoginsApart' /\ (\A p \in Procs : GoroutineOK(proc[p]))'
    BY <1>1 DEF SessionInv, RowsHaveUsers, LoginsApart, At, GoroutineOK
  <1>4. CacheBelongsToSession' /\ CacheHasTimeToLive'
    BY <1>1 DEF SessionInv, TypeOK, CacheBelongsToSession, CacheHasTimeToLive
  <1> QED
    BY <1>2, <1>3, <1>4 DEF SessionInv

-----------------------------------------------------------------------------
LEMMA UpdateRoleInv ==
  ASSUME SessionInv, NEW r \in Roles, UpdateRole(r)
  PROVE  SessionInv'
  <1>1. UNCHANGED <<sess, cache, userOwners, userRoles, proc, clock, faults>>
    BY DEF UpdateRole
  <1>2. roleStatus' \in [Roles -> RoleStatus]
    BY DEF UpdateRole, SessionInv, TypeOK, RoleStatus
  <1> QED
    BY <1>1, <1>2 DEF SessionInv, TypeOK, RowsHaveUsers, GoroutineOK, LoginsApart,
       At, CacheBelongsToSession, CacheHasTimeToLive

LEMMA SessionInvInit == Init => SessionInv
  <1> SUFFICES ASSUME Init PROVE SessionInv
    OBVIOUS
  <1>1. TypeOK
    BY IdleType, GoneType DEF Init, TypeOK, NoRow, SessRow, Status, Wh, RoleStatus
  <1>2. \A p \in Procs : proc[p] = Idle
    BY DEF Init
  <1>3. \A p \in Procs : GoroutineOK(proc[p])
    BY <1>2, IdleOK
  <1>4. LoginsApart
    BY <1>2, IdleOK DEF LoginsApart, At
  <1>5. RowsHaveUsers /\ CacheBelongsToSession /\ CacheHasTimeToLive
    BY DEF Init, NoRow, RowsHaveUsers, CacheBelongsToSession, CacheHasTimeToLive
  <1> QED
    BY <1>1, <1>3, <1>4, <1>5 DEF SessionInv

LEMMA SessionInvNext == SessionInv /\ [Next]_vars => SessionInv'
  <1> SUFFICES ASSUME SessionInv, [Next]_vars PROVE SessionInv'
    OBVIOUS
  <1>1. ASSUME NEW p \in Procs, Step(p)
        PROVE  SessionInv'
    BY <1>1, LoginInv, SwitchInv, CurrentInv, HealInv, RefreshInv, InvalidateInv,
       RoleRowInv, KeepRowInv DEF Step
  <1>2. ASSUME NEW p \in Procs, NEW u \in Users,
               \/ LoginResolveRoles(p, u) \/ MutateOwners(p, u)
               \/ MutateRoles(p, u) \/ KeepRoles(p, u) \/ Deactivate(p, u)
        PROVE  SessionInv'
    BY <1>2, LoginResolveRolesInv, AdminInv
  <1>3. ASSUME NEW p \in Procs, NEW s \in Sessions,
               SwitchContext(p, s) \/ Logout(p, s) \/ GetCurrentSession(p, s)
        PROVE  SessionInv'
    BY <1>3, ArriveInv DEF SwitchContext, Logout, GetCurrentSession, AllOps
  <1>4. CASE Tick
    BY <1>4, TickInv
  <1>5. ASSUME NEW s \in Sessions, ExpireOnRequest(s)
        PROVE  SessionInv'
    BY <1>5, ExpireInv
  <1>6. ASSUME NEW r \in Roles, UpdateRole(r)
        PROVE  SessionInv'
    BY <1>6, UpdateRoleInv
  <1>7. CASE UNCHANGED vars
    BY <1>7 DEF vars, SessionInv, TypeOK, RowsHaveUsers, GoroutineOK, LoginsApart,
       At, CacheBelongsToSession, CacheHasTimeToLive
  <1> QED
    BY <1>1, <1>2, <1>3, <1>4, <1>5, <1>6, <1>7 DEF Next, Request

\* SessionInv holds in every reachable state: the strengthening every theorem
\* below rests on (the calls of Login, SwitchContext, Logout,
\* GetCurrentSession, the owner refresh and the invalidation).
THEOREM SessionInvariant == Spec => []SessionInv
  <1> QED
    BY SessionInvInit, SessionInvNext, PTL DEF Spec

\* The rows, documents and goroutines keep their types: in particular a
\* rewrite never computes a negative time to live (RemainingSessionTTL).
THEOREM TypeCorrect == Spec => []TypeOK
  <1>1. SessionInv => TypeOK
    BY DEF SessionInv
  <1> QED
    BY <1>1, SessionInvariant, PTL

\* No handler writes a document before its row exists, or another user's
\* document under a session's key (PopulateSessionToRedisWithTTL,
\* writeSessionOwnerContext), for any number of concurrent handlers.
THEOREM CacheBelongs == Spec => []CacheBelongsToSession
  <1>1. SessionInv => CacheBelongsToSession
    BY DEF SessionInv
  <1> QED
    BY <1>1, SessionInvariant, PTL

\* No document is stored without time to live: every path to Redis that
\* rewrites has checked RemainingSessionTTL first.
THEOREM CacheTimeToLive == Spec => []CacheHasTimeToLive
  <1>1. SessionInv => CacheHasTimeToLive
    BY DEF SessionInv
  <1> QED
    BY <1>1, SessionInvariant, PTL

-----------------------------------------------------------------------------
(* What a step may never do. *)

LEMMA RowsFixed ==
  ASSUME SessionInv, [Next]_vars, NEW s \in Sessions, sess[s].status # "NONE"
  PROVE  /\ sess'[s].status \in {sess[s].status, "INVALIDATED"}
         /\ sess'[s].user = sess[s].user
         /\ sess'[s].roles = sess[s].roles
         /\ sess'[s].exp = sess[s].exp
  <1>1. sess \in [Sessions -> SessRow]
    BY DEF SessionInv, TypeOK
  <1>2. ASSUME NEW x \in Sessions, sess' = [sess EXCEPT ![x].status = "INVALIDATED"]
        PROVE  /\ sess'[s].status \in {sess[s].status, "INVALIDATED"}
               /\ sess'[s].user = sess[s].user
               /\ sess'[s].roles = sess[s].roles
               /\ sess'[s].exp = sess[s].exp
    BY <1>1, <1>2 DEF SessRow
  <1>3. ASSUME NEW p \in Procs, LoginCreate(p), sess' # sess
        PROVE  sess'[s] = sess[s]
    <2>1. proc[p].sid # s
      BY <1>3, ProcOK DEF LoginCreate, At, GoroutineOK
    <2> QED
      BY <1>1, <1>3, <2>1 DEF LoginCreate
  <1>4. ASSUME NEW p \in Procs, SwitchUpdate(p), sess' # sess
        PROVE  /\ sess'[s].status = sess[s].status
               /\ sess'[s].user = sess[s].user
               /\ sess'[s].roles = sess[s].roles
               /\ sess'[s].exp = sess[s].exp
    <2>1. sess' = [sess EXCEPT ![proc[p].sid].wh = proc[p].wh]
      BY <1>4 DEF SwitchUpdate
    <2> QED
      BY <1>1, <2>1 DEF SessRow
  <1>5. ASSUME NEW p \in Procs, LogoutInvalidate(p) \/ InvalidateOne(p), sess' # sess
        PROVE  \E x \in Sessions : sess' = [sess EXCEPT ![x].status = "INVALIDATED"]
    BY <1>5, ProcOK DEF LogoutInvalidate, InvalidateOne, Goroutine, Found
  <1>6. CASE sess' = sess
    BY <1>6
  <1>7. CASE sess' # sess
    <2>1. \/ \E p \in Procs : \/ LoginCreate(p) \/ SwitchUpdate(p)
                              \/ LogoutInvalidate(p) \/ InvalidateOne(p)
          \/ \E x \in Sessions : ExpireOnRequest(x)
      <3>1. ASSUME NEW p \in Procs, Step(p)
            PROVE  \/ LoginCreate(p) \/ SwitchUpdate(p)
                   \/ LogoutInvalidate(p) \/ InvalidateOne(p)
        BY <1>7, <3>1 DEF Step, ReadOwners, Populate, SwitchValidate, SwitchReadRoles,
           CurrentRedis, CurrentHitDb, CurrentHitOwners, CurrentMissDb,
           CurrentMissOwners, HealRead, HealWrite, RefreshSessions, RefreshOwners,
           RefreshWrite, RefreshDone, InvalidateFind, InvalidateDbDone, ClearOne,
           ClearDone, MutateRoleRow, KeepRoleRow
      <3>2. ASSUME NEW p \in Procs, Request(p)
            PROVE  FALSE
        BY <1>7, <3>2 DEF Request, LoginResolveRoles, MutateOwners, MutateRoles, KeepRoles,
           Deactivate, SwitchContext, Logout, GetCurrentSession, Arrive
      <3> QED
        BY <1>7, <3>1, <3>2 DEF Next, UpdateRole, Tick, vars
    <2> QED
      BY <1>2, <1>3, <1>4, <1>5, <1>7, <2>1 DEF ExpireOnRequest
  <1> QED
    BY <1>6, <1>7

\* No handler rewrites what Create stored of a session's user, roles and
\* expiry, and no status but INVALIDATED ever replaces ACTIVE
\* (UpdateWarehouseContext, Invalidate, the middleware).
THEOREM RowFixed == Spec => RowIsFixedByCreate
  <1>1. SessionInv /\ [Next]_vars =>
          [\A s \in Sessions : sess[s].status # "NONE" =>
              /\ sess'[s].status \in {sess[s].status, "INVALIDATED"}
              /\ sess'[s].user = sess[s].user
              /\ sess'[s].roles = sess[s].roles
              /\ sess'[s].exp = sess[s].exp]_vars
    BY RowsFixed
  <1> QED
    BY <1>1, SessionInvariant, PTL DEF Spec, RowIsFixedByCreate

-----------------------------------------------------------------------------
(* A session that is over stays over. *)

Writing == {"swUpdate", "readOwners", "readRoles", "populate", "healWrite"}

Harmless(g, s) ==
    /\ g.sid = s => /\ g.pc \notin Writing
                    /\ g.pc = "swValidate" => sess[s].status # "ACTIVE"
                    /\ g.pc = "healRead" =>
                         ~(sess[s].status = "ACTIVE" /\ sess[s].exp > g.now)
    /\ g.pc = "rfSessions" /\ g.user = sess[s].user =>
          ~(sess[s].status = "ACTIVE" /\ sess[s].exp > g.now)
    /\ g.pc \in {"rfOwners", "rfWrite"} /\ sess[s].exp > g.now =>
          \A t \in g.todo : t.sid # s

LEMMA BuriedFacts ==
  ASSUME SessionInv, NEW s \in Sessions, Buried(s)
  PROVE  /\ sess[s].status # "NONE"
         /\ sess[s].status = "ACTIVE" => clock > sess[s].exp
         /\ cache[s] = Gone
         /\ \A p \in Procs : Harmless(proc[p], s)
  BY DEF Buried, Dead, MayStillCache, Harmless, Writing, At

LEMMA BuriedStep ==
  ASSUME SessionInv, [Next]_vars, UNCHANGED clock,
         NEW s \in Sessions, Buried(s), cache'[s] = Gone,
         NEW p \in Procs, NEW g, Become(p, g), Harmless(g, s)
  PROVE  Buried(s)'
  <1>1. /\ sess'[s].status \in {sess[s].status, "INVALIDATED"}
        /\ sess'[s].user = sess[s].user
        /\ sess'[s].exp = sess[s].exp
    BY RowsFixed, BuriedFacts
  <1>2. Dead(s)'
    BY <1>1 DEF Buried, Dead
  <1>3. ASSUME NEW q \in Procs
        PROVE  ~MayStillCache(q, s)'
    <2>1. proc'[q] = proc[q] \/ proc'[q] = g
      BY DEF Become, SessionInv, TypeOK
    <2>2. Harmless(proc'[q], s)
      BY <2>1, BuriedFacts
    <2> QED
      BY <1>1, <2>2 DEF Harmless, MayStillCache, Writing, At
  <1> QED
    BY <1>2, <1>3 DEF Buried

\* A step that touches no document, or only deletes one, and leaves its
\* goroutine where it writes none.
LEMMA BuriedCalm ==
  ASSUME SessionInv, [Next]_vars, UNCHANGED clock,
         NEW s \in Sessions, Buried(s), cache'[s] = Gone, NEW p \in Procs,
         NEW g, Become(p, g),
         g.pc \notin Writing \cup
           {"swValidate", "healRead", "rfSessions", "rfOwners", "rfWrite"}
  PROVE  Buried(s)'
  BY BuriedStep DEF Harmless

LEMMA BuriedReturn ==
  ASSUME SessionInv, [Next]_vars, UNCHANGED clock,
         NEW s \in Sessions, Buried(s), cache'[s] = Gone, NEW p \in Procs,
         \/ Return(p)
         \/ Invalidate(p)
         \/ \E c \in {"gcMissDb", "gcHitOwners", "invClear"} : Goto(p, c)
  PROVE  Buried(s)'
  <1>1. Idle.pc = "idle"
    BY DEF Idle
  <1>2. \A c \in PC : [proc[p] EXCEPT !.pc = c].pc = c
    BY ProcOK DEF Goroutine
  <1> QED
    BY <1>1, <1>2, InvalidateStarts, BuriedCalm DEF Return, Goto, Writing, PC

LEMMA DropKeepsGone ==
  ASSUME SessionInv, NEW p \in Procs, NEW x \in Sessions, NEW s \in Sessions,
         cache[s] = Gone, DropEntry(p, x) \/ FailClosed(p, x)
  PROVE  cache'[s] = Gone
  BY DEF DropEntry, FailClosed, DeleteCache, SetCache, SessionInv, TypeOK

LEMMA DeathSession ==
  ASSUME SessionInv, [Next]_vars, NEW p \in Procs, NEW s \in Sessions, Buried(s),
         \/ LoginCreate(p) \/ ReadOwners(p) \/ Populate(p)
         \/ SwitchValidate(p) \/ SwitchUpdate(p) \/ SwitchReadRoles(p)
         \/ LogoutInvalidate(p)
  PROVE  Buried(s)'
  <1>1. /\ proc[p] \in Goroutine /\ GoroutineOK(proc[p])
        /\ UNCHANGED clock /\ Harmless(proc[p], s) /\ cache[s] = Gone
    BY ProcOK, BuriedFacts DEF LoginCreate, ReadOwners, Populate, SwitchValidate,
       SwitchUpdate, SwitchReadRoles, LogoutInvalidate
  <1>3. CASE LoginCreate(p)
    <2>1. cache' = cache /\ proc[p].sid # s
      BY <1>1, <1>3, BuriedFacts DEF LoginCreate, At, GoroutineOK
    <2>2. CASE Goto(p, "readOwners")
      <3> DEFINE g == [proc[p] EXCEPT !.pc = "readOwners"]
      <3>1. g.pc = "readOwners" /\ g.sid # s /\ Become(p, g)
        BY <1>1, <2>1, <2>2 DEF Goroutine, Goto
      <3>2. Harmless(g, s)
        BY <3>1 DEF Harmless
      <3> QED
        BY <1>1, <2>1, <3>1, <3>2, BuriedStep
    <2>3. CASE Return(p)
      BY <1>1, <2>1, <2>3, BuriedReturn
    <2> QED
      BY <1>3, <2>2, <2>3 DEF LoginCreate
  <1>4. CASE ReadOwners(p)
    <2>1. cache' = cache /\ proc[p].sid # s
      BY <1>1, <1>4 DEF ReadOwners, At, Harmless, Writing
    <2>2. PICK os \in {userOwners[proc[p].user], {}}, c \in {"populate", "readRoles"} :
            Become(p, [proc[p] EXCEPT !.owners = os, !.pc = c])
      BY <1>4 DEF ReadOwners
    <2> DEFINE g == [proc[p] EXCEPT !.owners = os, !.pc = c]
    <2>3. g.pc = c /\ g.sid # s
      BY <1>1, <2>1 DEF Goroutine
    <2>4. Harmless(g, s)
      BY <2>3 DEF Harmless
    <2> QED
      BY <1>1, <2>1, <2>2, <2>4, BuriedStep
  <1>5. CASE Populate(p)
    <2>1. /\ proc[p].sid # s /\ proc[p].sid \in Sessions /\ Return(p)
      BY <1>1, <1>5 DEF Populate, At, Harmless, Writing, Goroutine
    <2>2. cache'[s] = Gone
      BY <1>1, <1>5, <2>1, DropKeepsGone DEF Populate, SetCache, SessionInv, TypeOK
    <2> QED
      BY <1>1, <2>1, <2>2, BuriedReturn
  <1>6. CASE SwitchValidate(p)
    <2>1. cache' = cache /\ proc[p].pc = "swValidate"
      BY <1>6 DEF SwitchValidate, At
    <2>2. ASSUME sess[proc[p].sid].status = "ACTIVE", NEW w \in Warehouses,
                 Become(p, [proc[p] EXCEPT !.pc = "swUpdate",
                               !.user = sess[proc[p].sid].user, !.wh = w])
          PROVE  Buried(s)'
      <3> DEFINE g == [proc[p] EXCEPT !.pc = "swUpdate",
                               !.user = sess[proc[p].sid].user, !.wh = w]
      <3>1. g.pc = "swUpdate" /\ g.sid # s
        BY <1>1, <2>1, <2>2 DEF Goroutine, Harmless
      <3>2. Harmless(g, s)
        BY <3>1 DEF Harmless
      <3> QED
        BY <1>1, <2>1, <2>2, <3>2, BuriedStep
    <2>3. CASE Return(p)
      BY <1>1, <2>1, <2>3, BuriedReturn
    <2> QED
      BY <1>6, <2>2, <2>3 DEF SwitchValidate
  <1>7. CASE SwitchUpdate(p)
    <2>1. cache' = cache /\ proc[p].sid # s
      BY <1>1, <1>7 DEF SwitchUpdate, At, Harmless, Writing
    <2>2. CASE Goto(p, "readOwners")
      <3> DEFINE g == [proc[p] EXCEPT !.pc = "readOwners"]
      <3>1. g.pc = "readOwners" /\ g.sid # s /\ Become(p, g)
        BY <1>1, <2>1, <2>2 DEF Goroutine, Goto
      <3>2. Harmless(g, s)
        BY <3>1 DEF Harmless
      <3> QED
        BY <1>1, <2>1, <3>1, <3>2, BuriedStep
    <2>3. CASE Return(p)
      BY <1>1, <2>1, <2>3, BuriedReturn
    <2> QED
      BY <1>7, <2>2, <2>3 DEF SwitchUpdate
  <1>8. CASE SwitchReadRoles(p)
    <2>1. cache' = cache /\ proc[p].sid # s
      BY <1>1, <1>8 DEF SwitchReadRoles, At, Harmless, Writing
    <2>2. PICK rs \in SUBSET ActiveRoles(proc[p].user) :
            Become(p, [proc[p] EXCEPT !.roles = rs, !.pc = "populate"])
      BY <1>8 DEF SwitchReadRoles
    <2> DEFINE g == [proc[p] EXCEPT !.roles = rs, !.pc = "populate"]
    <2>3. g.pc = "populate" /\ g.sid # s
      BY <1>1, <2>1 DEF Goroutine
    <2>4. Harmless(g, s)
      BY <2>3 DEF Harmless
    <2> QED
      BY <1>1, <2>1, <2>2, <2>4, BuriedStep
  <1>9. CASE LogoutInvalidate(p)
    BY <1>1, <1>9, BuriedReturn DEF LogoutInvalidate
  <1> QED
    BY <1>3, <1>4, <1>5, <1>6, <1>7, <1>8, <1>9

LEMMA DeathCurrent ==
  ASSUME SessionInv, [Next]_vars, NEW p \in Procs, NEW s \in Sessions, Buried(s),
         \/ CurrentRedis(p) \/ CurrentHitDb(p) \/ CurrentHitOwners(p)
         \/ CurrentMissDb(p) \/ CurrentMissOwners(p)
         \/ HealRead(p) \/ HealWrite(p)
  PROVE  Buried(s)'
  <1>1. /\ proc[p] \in Goroutine /\ proc[p].sid \in Sessions
        /\ UNCHANGED clock /\ Harmless(proc[p], s) /\ cache[s] = Gone
    BY ProcOK, BuriedFacts DEF CurrentRedis, CurrentHitDb, CurrentHitOwners,
       CurrentMissDb, CurrentMissOwners, HealRead, HealWrite, Goroutine
  <1>2. ASSUME NEW c \in {"gcHitDb", "gcMissOwners"}, cache'[s] = Gone,
               \E g : g.pc = c /\ Become(p, g)
        PROVE  Buried(s)'
    BY <1>1, <1>2, BuriedCalm DEF Writing
  <1>heal. ASSUME cache'[s] = Gone,
               \E g : g.pc = "healRead" /\ g.now = clock /\ Become(p, g)
        PROVE  Buried(s)'
    <2>1. PICK g : g.pc = "healRead" /\ g.now = clock /\ Become(p, g)
      BY <1>heal
    <2>2. sess[s].exp \in Nat /\ clock \in Nat
      BY DEF SessionInv, TypeOK, SessRow
    <2>3. Harmless(g, s)
      BY <2>1, <2>2, BuriedFacts DEF Harmless, Writing
    <2> QED
      BY <1>1, <1>heal, <2>1, <2>3, BuriedStep
  <1>3. CASE CurrentRedis(p)
    <2>1. \/ \E g : g.pc = "gcHitDb" /\ Become(p, g)
          \/ Goto(p, "gcMissDb")
      BY <1>1, <1>3 DEF CurrentRedis, Goroutine
    <2> QED
      BY <1>1, <1>2, <1>3, <2>1, BuriedReturn DEF CurrentRedis
  <1>4. CASE CurrentHitDb(p)
    <2>1. cache'[s] = Gone
      BY <1>1, <1>4, DropKeepsGone DEF CurrentHitDb
    <2> QED
      BY <1>1, <1>4, <2>1, BuriedReturn DEF CurrentHitDb
  <1>5. CASE CurrentHitOwners(p)
    <2>1. cache'[s] = Gone
      BY <1>1, <1>5, DropKeepsGone DEF CurrentHitOwners
    <2>2. \/ \E g : g.pc = "healRead" /\ g.now = clock /\ Become(p, g)
          \/ Return(p)
      BY <1>1, <1>5 DEF CurrentHitOwners, Goroutine
    <2> QED
      BY <1>1, <1>heal, <2>1, <2>2, BuriedReturn
  <1>6. CASE CurrentMissDb(p)
    <2>1. \/ \E g : g.pc = "gcMissOwners" /\ Become(p, g)
          \/ Return(p)
      BY <1>1, <1>6 DEF CurrentMissDb, Goroutine
    <2> QED
      BY <1>1, <1>2, <1>6, <2>1, BuriedReturn DEF CurrentMissDb
  <1>7. CASE CurrentMissOwners(p)
    <2>1. \/ \E g : g.pc = "healRead" /\ g.now = clock /\ Become(p, g)
          \/ Return(p)
      BY <1>1, <1>7 DEF CurrentMissOwners, Goroutine
    <2> QED
      BY <1>1, <1>heal, <1>7, <2>1, BuriedReturn DEF CurrentMissOwners
  <1>8. CASE HealRead(p)
    <2>1. cache'[s] = Gone
      BY <1>1, <1>8, DropKeepsGone DEF HealRead
    <2>2. CASE Return(p)
      BY <1>1, <2>1, <2>2, BuriedReturn
    <2>3. CASE /\ SessionEligibleForOwnerRewrite(proc[p].sid, proc[p].user, proc[p].now)
               /\ Goto(p, "healWrite")
      <3> DEFINE g == [proc[p] EXCEPT !.pc = "healWrite"]
      <3>1. g.sid = proc[p].sid /\ g.pc = "healWrite" /\ Become(p, g)
        BY <1>1, <2>3 DEF Goroutine, Goto
      <3>2. proc[p].sid # s
        BY <1>1, <1>8, <2>3 DEF SessionEligibleForOwnerRewrite, Harmless, HealRead, At
      <3>3. Harmless(g, s)
        BY <3>1, <3>2 DEF Harmless
      <3> QED
        BY <1>1, <2>1, <3>1, <3>3, BuriedStep
    <2> QED
      BY <1>8, <2>2, <2>3 DEF HealRead
  <1>9. CASE HealWrite(p)
    <2>1. proc[p].sid # s /\ Return(p)
      BY <1>1, <1>9 DEF HealWrite, At, Harmless, Writing
    <2>2. cache'[s] = Gone
      BY <1>1, <1>9, <2>1, DropKeepsGone
         DEF HealWrite, Rewrite, SetCache, SessionInv, TypeOK
    <2> QED
      BY <1>1, <2>1, <2>2, BuriedReturn
  <1> QED
    BY <1>3, <1>4, <1>5, <1>6, <1>7, <1>8, <1>9

LEMMA DeathRefresh ==
  ASSUME SessionInv, [Next]_vars, NEW p \in Procs, NEW s \in Sessions, Buried(s),
         RefreshSessions(p) \/ RefreshOwners(p) \/ RefreshWrite(p) \/ RefreshDone(p)
  PROVE  Buried(s)'
  <1>1. /\ proc[p] \in Goroutine /\ GoroutineOK(proc[p])
        /\ UNCHANGED clock /\ Harmless(proc[p], s) /\ cache[s] = Gone
    BY ProcOK, BuriedFacts DEF RefreshSessions, RefreshOwners, RefreshWrite,
       RefreshDone
  <1>2. CASE RefreshSessions(p)
    <2>1. cache' = cache /\ proc[p].todo = {}
      BY <1>1, <1>2 DEF RefreshSessions, At, GoroutineOK
    <2>2. CASE Become(p, [proc[p] EXCEPT !.todo = FindActiveByUserId(proc[p].user),
                                         !.pc = "rfOwners"])
      <3> DEFINE g == [proc[p] EXCEPT !.todo = FindActiveByUserId(proc[p].user),
                                      !.pc = "rfOwners"]
      <3>1. /\ g.pc = "rfOwners" /\ g.now = proc[p].now
            /\ g.todo = FindActiveByUserId(proc[p].user)
        BY <1>1 DEF Goroutine
      <3>2. sess[s].exp > proc[p].now => \A t \in g.todo : t.sid # s
        BY <1>1, <1>2, <3>1
           DEF RefreshSessions, At, Harmless, FindActiveByUserId, ActiveOf
      <3>3. Harmless(g, s)
        BY <3>1, <3>2 DEF Harmless, Writing
      <3> QED
        BY <1>1, <2>1, <2>2, <3>3, BuriedStep
    <2>3. CASE Become(p, [proc[p] EXCEPT !.err = TRUE, !.pc = "rfOwners"])
      <3> DEFINE g == [proc[p] EXCEPT !.err = TRUE, !.pc = "rfOwners"]
      <3>1. g.pc = "rfOwners" /\ g.todo = {}
        BY <1>1, <2>1 DEF Goroutine
      <3>2. Harmless(g, s)
        BY <3>1 DEF Harmless, Writing
      <3> QED
        BY <1>1, <2>1, <2>3, <3>2, BuriedStep
    <2> QED
      BY <1>2, <2>2, <2>3 DEF RefreshSessions
  <1>3. CASE RefreshOwners(p)
    <2>1. cache' = cache /\ proc[p].pc = "rfOwners"
      BY <1>3 DEF RefreshOwners, At
    <2>2. CASE Become(p, [proc[p] EXCEPT !.owners = userOwners[proc[p].user],
                                         !.pc = "rfWrite"])
      <3> DEFINE g == [proc[p] EXCEPT !.owners = userOwners[proc[p].user],
                                      !.pc = "rfWrite"]
      <3>1. g.pc = "rfWrite" /\ g.todo = proc[p].todo /\ g.now = proc[p].now
        BY <1>1 DEF Goroutine
      <3>2. Harmless(g, s)
        BY <1>1, <2>1, <3>1 DEF Harmless, Writing
      <3> QED
        BY <1>1, <2>1, <2>2, <3>2, BuriedStep
    <2>3. CASE Invalidate(p)
      BY <1>1, <2>1, <2>3, BuriedReturn
    <2>4. CASE Become(p, [proc[p] EXCEPT !.clear = {t.sid : t \in proc[p].todo},
                            !.todo = {}, !.err = TRUE, !.pc = "rfClear"])
      <3> DEFINE g == [proc[p] EXCEPT !.clear = {t.sid : t \in proc[p].todo},
                            !.todo = {}, !.err = TRUE, !.pc = "rfClear"]
      <3>1. g.pc = "rfClear"
        BY <1>1 DEF Goroutine
      <3> QED
        BY <1>1, <2>1, <2>4, <3>1, BuriedCalm DEF Writing
    <2> QED
      BY <1>3, <2>2, <2>3, <2>4 DEF RefreshOwners
  <1>4. CASE RefreshWrite(p)
    <2>1. proc[p].pc = "rfWrite"
      BY <1>4 DEF RefreshWrite, At
    <2>2. PICK t \in proc[p].todo :
            /\ IF sess[t.sid].exp > proc[p].now
               THEN Rewrite(p, t.sid, [user |-> sess[t.sid].user, wh |-> t.wh,
                                       owners |-> proc[p].owners,
                                       roles |-> sess[t.sid].roles, exp |-> 0])
               ELSE Succeeds /\ UNCHANGED cache
            /\ Become(p, [proc[p] EXCEPT !.todo = @ \ {t},
                                         !.err = @ \/ faults' # faults])
      BY <1>4 DEF RefreshWrite
    <2>3. t.sid \in Sessions
      BY <1>1 DEF Goroutine, Found
    <2>4. sess[t.sid].exp > proc[p].now => t.sid # s
      BY <1>1, <2>1 DEF Harmless
    <2>5. cache'[s] = Gone
      BY <1>1, <2>2, <2>3, <2>4, DropKeepsGone
         DEF Rewrite, SetCache, SessionInv, TypeOK
    <2>6. PICK er : Become(p, [proc[p] EXCEPT !.todo = proc[p].todo \ {t}, !.err = er])
      BY <2>2
    <2> DEFINE g == [proc[p] EXCEPT !.todo = proc[p].todo \ {t}, !.err = er]
    <2>7. g.pc = "rfWrite" /\ g.todo = proc[p].todo \ {t} /\ g.now = proc[p].now
      BY <1>1, <2>1 DEF Goroutine
    <2>8. Harmless(g, s)
      BY <1>1, <2>1, <2>7 DEF Harmless, Writing
    <2> QED
      BY <1>1, <2>5, <2>6, <2>8, BuriedStep
  <1>5. CASE RefreshDone(p)
    BY <1>1, <1>5, BuriedReturn DEF RefreshDone
  <1> QED
    BY <1>2, <1>3, <1>4, <1>5

LEMMA DeathInvalidate ==
  ASSUME SessionInv, [Next]_vars, NEW p \in Procs, NEW s \in Sessions, Buried(s),
         \/ InvalidateFind(p) \/ InvalidateOne(p) \/ InvalidateDbDone(p)
         \/ ClearOne(p) \/ ClearDone(p) \/ MutateRoleRow(p) \/ KeepRoleRow(p)
  PROVE  Buried(s)'
  <1>1. /\ proc[p] \in Goroutine /\ UNCHANGED clock /\ cache[s] = Gone
    BY ProcOK, BuriedFacts DEF InvalidateFind, InvalidateOne, InvalidateDbDone,
       ClearOne, ClearDone, MutateRoleRow, KeepRoleRow
  <1>2. ASSUME cache'[s] = Gone,
               \E g : /\ g.pc \in {"invDb", "rfClear", "invClear", "invFind",
                                    "roleRows", "keepRows"}
                      /\ Become(p, g)
        PROVE  Buried(s)'
    BY <1>1, <1>2, BuriedCalm DEF Writing
  <1>3. CASE InvalidateFind(p)
    <2>1. Return(p) \/ \E g : g.pc = "invDb" /\ Become(p, g)
      BY <1>1, <1>3 DEF InvalidateFind, Goroutine
    <2> QED
      BY <1>1, <1>2, <1>3, <2>1, BuriedReturn DEF InvalidateFind
  <1>4. CASE InvalidateOne(p)
    <2>1. PICK t \in proc[p].todo : Become(p, [proc[p] EXCEPT !.todo = @ \ {t}])
      BY <1>4 DEF InvalidateOne
    <2>2. [proc[p] EXCEPT !.todo = @ \ {t}].pc = "invDb"
      BY <1>1, <1>4 DEF InvalidateOne, At, Goroutine
    <2> DEFINE g == [proc[p] EXCEPT !.todo = @ \ {t}]
    <2>3. Become(p, g) /\ g.pc = "invDb" /\ cache'[s] = Gone
      BY <1>1, <1>4, <2>1, <2>2 DEF InvalidateOne
    <2> HIDE DEF g
    <2> QED
      BY <1>2, <2>3
  <1>5. CASE InvalidateDbDone(p)
    <2>1. UNCHANGED cache /\ (Return(p) \/ Goto(p, "invClear"))
      BY <1>5 DEF InvalidateDbDone
    <2> QED
      BY <1>1, <2>1, BuriedReturn
  <1>6. CASE ClearOne(p)
    <2>1. PICK x \in proc[p].clear :
            DropEntry(p, x) /\ Become(p, [proc[p] EXCEPT !.clear = @ \ {x}])
      BY <1>6 DEF ClearOne
    <2>2. x \in Sessions /\ [proc[p] EXCEPT !.clear = @ \ {x}].pc \in {"rfClear", "invClear"}
      BY <1>1, <1>6 DEF ClearOne, Goroutine
    <2>3. cache'[s] = Gone
      BY <1>1, <2>1, <2>2, DropKeepsGone
    <2> DEFINE g == [proc[p] EXCEPT !.clear = @ \ {x}]
    <2>4. Become(p, g) /\ g.pc \in {"rfClear", "invClear"}
      BY <2>1, <2>2
    <2> HIDE DEF g
    <2> QED
      BY <1>2, <2>3, <2>4
  <1>7. CASE ClearDone(p)
    <2>1. UNCHANGED cache /\ (Return(p) \/ Invalidate(p))
      BY <1>7 DEF ClearDone
    <2> QED
      BY <1>1, <2>1, BuriedReturn
  <1>8. CASE MutateRoleRow(p)
    <2>1. PICK r \in proc[p].roles :
             \/ Become(p, [proc[p] EXCEPT !.roles = @ \ {r},
                   !.pc = IF proc[p].roles = {r} THEN "invFind" ELSE "roleRows"])
             \/ Invalidate(p) \/ Return(p)
      BY <1>8 DEF MutateRoleRow
    <2>2. cache'[s] = Gone
      BY <1>1, <1>8 DEF MutateRoleRow
    <2>3. ASSUME NEW c \in {"invFind", "roleRows"},
                 Become(p, [proc[p] EXCEPT !.roles = @ \ {r}, !.pc = c])
          PROVE  Buried(s)'
      <3>1. [proc[p] EXCEPT !.roles = @ \ {r}, !.pc = c].pc = c
        BY <1>1 DEF Goroutine
      <3> DEFINE g == [proc[p] EXCEPT !.roles = @ \ {r}, !.pc = c]
      <3>2. Become(p, g) /\ g.pc = c
        BY <2>3, <3>1
      <3> HIDE DEF g
      <3> QED
        BY <1>2, <2>2, <3>2
    <2> QED
      BY <1>1, <2>1, <2>2, <2>3, BuriedReturn
  <1>9. CASE KeepRoleRow(p)
    <2>1. cache'[s] = Gone
      BY <1>1, <1>9 DEF KeepRoleRow
    <2> QED
      BY <1>1, <1>2, <1>9, <2>1, KeepRowGoes, BuriedReturn
  <1> QED
    BY <1>3, <1>4, <1>5, <1>6, <1>7, <1>8, <1>9

LEMMA DeathRequest ==
  ASSUME SessionInv, [Next]_vars, NEW p \in Procs, NEW s \in Sessions, Buried(s),
         Request(p)
  PROVE  Buried(s)'
  <1>1. cache'[s] = Gone /\ UNCHANGED clock
    BY BuriedFacts DEF Request, LoginResolveRoles, MutateOwners, MutateRoles, KeepRoles,
       Deactivate, SwitchContext, Logout, GetCurrentSession, Arrive
  <1>2. ASSUME NEW x \in Sessions, NEW op \in AllOps,
               NEW c \in {"swValidate", "loInvalidate", "gcRedis"}, Arrive(p, x, op, c)
        PROVE  Buried(s)'
    <2> DEFINE g == [Start(op, c) EXCEPT !.sid = x]
    <2>1. g.pc = c /\ g.sid = x
      BY StartType DEF Goroutine, PC
    <2>2. x # s
      <3>1. sess[s].exp \in Nat /\ clock \in Nat
        BY DEF SessionInv, TypeOK, SessRow
      <3> QED
        BY <1>2, <3>1, BuriedFacts DEF Arrive, Admitted
    <2>3. Harmless(g, s) /\ Become(p, g)
      BY <1>2, <2>1, <2>2 DEF Harmless, Arrive
    <2> QED
      BY <1>1, <2>3, BuriedStep
  <1>3. \A op \in AllOps, c \in PC : Start(op, c) \in Goroutine /\ Start(op, c).pc = c
    BY StartType
  <1>4. ASSUME NEW u \in Users, LoginResolveRoles(p, u)
        PROVE  Buried(s)'
    <2>1. PICK x \in Sessions, rs \in SUBSET ActiveRoles(u) :
            Become(p, [Start("login", "loginCreate") EXCEPT
                          !.sid = x, !.user = u, !.roles = rs])
      BY <1>4 DEF LoginResolveRoles
    <2> DEFINE g == [Start("login", "loginCreate") EXCEPT
                        !.sid = x, !.user = u, !.roles = rs]
    <2>2. g.pc = "loginCreate"
      BY <1>3 DEF AllOps, PC, Goroutine
    <2> QED
      BY <1>1, <2>1, <2>2, BuriedCalm DEF Writing
  <1>5. ASSUME NEW u \in Users, MutateOwners(p, u)
        PROVE  Buried(s)'
    <2> DEFINE g == [Start("owner", "rfSessions") EXCEPT !.user = u, !.now = clock]
    <2>1. g.pc = "rfSessions" /\ g.now = clock
      BY <1>3 DEF AllOps, PC, Goroutine
    <2>2. sess[s].exp \in Nat /\ clock \in Nat
      BY DEF SessionInv, TypeOK, SessRow
    <2>3. Harmless(g, s)
      BY <2>1, <2>2, BuriedFacts DEF Harmless, Writing
    <2>4. Become(p, g)
      BY <1>5 DEF MutateOwners
    <2> QED
      BY <1>1, <2>3, <2>4, BuriedStep
  <1>6. ASSUME NEW u \in Users, MutateRoles(p, u)
        PROVE  Buried(s)'
    <2>1. PICK rs \in SUBSET Roles :
             Become(p, [Start("role", "roleRows") EXCEPT !.user = u, !.roles = rs])
      BY <1>6 DEF MutateRoles
    <2> DEFINE g == [Start("role", "roleRows") EXCEPT !.user = u, !.roles = rs]
    <2>2. g.pc = "roleRows"
      BY <1>3 DEF AllOps, PC, Goroutine
    <2> QED
      BY <1>1, <2>1, <2>2, BuriedCalm DEF Writing
  <1>7. ASSUME NEW u \in Users, Deactivate(p, u)
        PROVE  Buried(s)'
    <2> DEFINE g == [Start("deactivate", "invFind") EXCEPT !.user = u]
    <2>1. g.pc = "invFind"
      BY <1>3 DEF AllOps, PC, Goroutine
    <2>2. Become(p, g)
      BY <1>7 DEF Deactivate
    <2> QED
      BY <1>1, <2>1, <2>2, BuriedCalm DEF Writing
  <1>8. ASSUME NEW u \in Users, KeepRoles(p, u)
        PROVE  Buried(s)'
    <2> DEFINE g == [Start("keep", "keepRows") EXCEPT !.user = u, !.roles = userRoles[u]]
    <2>1. g.pc = "keepRows"
      BY <1>3 DEF AllOps, PC, Goroutine
    <2>2. Become(p, g)
      BY <1>8 DEF KeepRoles
    <2> QED
      BY <1>1, <2>1, <2>2, BuriedCalm DEF Writing
  <1> QED
    BY <1>2, <1>4, <1>5, <1>6, <1>7, <1>8
       DEF Request, SwitchContext, Logout, GetCurrentSession, AllOps

LEMMA BuriedNext ==
  ASSUME SessionInv, [Next]_vars, NEW s \in Sessions, Buried(s)
  PROVE  Buried(s)'
  <1>1. /\ sess'[s].status \in {sess[s].status, "INVALIDATED"}
        /\ sess'[s].user = sess[s].user
        /\ sess'[s].exp = sess[s].exp
    BY RowsFixed, BuriedFacts
  <1>2. sess[s].exp \in Nat /\ clock \in Nat
    BY DEF SessionInv, TypeOK, SessRow
  <1>3. ASSUME proc' = proc, clock' \in {clock, clock + 1}, cache'[s] = Gone
        PROVE  Buried(s)'
    <2>1. Dead(s)'
      BY <1>1, <1>2, <1>3 DEF Buried, Dead
    <2>2. \A p \in Procs : ~MayStillCache(p, s)'
      BY <1>1, <1>3 DEF Buried, MayStillCache, At
    <2> QED
      BY <1>3, <2>1, <2>2 DEF Buried
  <1>4. ASSUME NEW p \in Procs, Step(p)
        PROVE  Buried(s)'
    BY <1>4, DeathSession, DeathCurrent, DeathRefresh, DeathInvalidate DEF Step
  <1>5. CASE Tick
    BY <1>3, <1>5, BuriedFacts DEF Tick
  <1>6. ASSUME NEW x \in Sessions, ExpireOnRequest(x)
        PROVE  Buried(s)'
    BY <1>3, <1>6, BuriedFacts DEF ExpireOnRequest
  <1>7. ASSUME NEW r \in Roles, UpdateRole(r)
        PROVE  Buried(s)'
    BY <1>3, <1>7, BuriedFacts DEF UpdateRole
  <1>8. CASE UNCHANGED vars
    BY <1>3, <1>8, BuriedFacts DEF vars
  <1> QED
    BY <1>4, <1>5, <1>6, <1>7, <1>8, DeathRequest DEF Next

\* A session that is invalidated or past its expiry, whose document is gone
\* and for which no goroutine is past its checks never gets a document again:
\* the order of checks and writes in SwitchContext, the heal and the owner
\* refresh lets no later request bring it back.
THEOREM DeathFinal == Spec => DeathIsFinal
  <1>1. SessionInv /\ [Next]_vars =>
          [\A s \in Sessions : Buried(s) => Buried(s)']_vars
    BY BuriedNext
  <1> QED
    BY <1>1, SessionInvariant, PTL DEF Spec, DeathIsFinal

-----------------------------------------------------------------------------
(* Whose rows a goroutine touches.                                             *)

LEMMA Places ==
  ASSUME NEW p \in Procs
  PROVE  /\ LoginCreate(p) => At(p, "loginCreate")
         /\ ReadOwners(p) => At(p, "readOwners")
         /\ Populate(p) => At(p, "populate")
         /\ SwitchValidate(p) => At(p, "swValidate")
         /\ SwitchUpdate(p) => At(p, "swUpdate")
         /\ SwitchReadRoles(p) => At(p, "readRoles")
         /\ LogoutInvalidate(p) => At(p, "loInvalidate")
         /\ CurrentRedis(p) => At(p, "gcRedis")
         /\ CurrentHitDb(p) => At(p, "gcHitDb")
         /\ CurrentHitOwners(p) => At(p, "gcHitOwners")
         /\ CurrentMissDb(p) => At(p, "gcMissDb")
         /\ CurrentMissOwners(p) => At(p, "gcMissOwners")
         /\ HealRead(p) => At(p, "healRead")
         /\ HealWrite(p) => At(p, "healWrite")
         /\ RefreshSessions(p) => At(p, "rfSessions")
         /\ RefreshOwners(p) => At(p, "rfOwners")
         /\ RefreshWrite(p) \/ RefreshDone(p) => At(p, "rfWrite")
         /\ InvalidateFind(p) => At(p, "invFind")
         /\ InvalidateOne(p) \/ InvalidateDbDone(p) => At(p, "invDb")
         /\ ClearOne(p) \/ ClearDone(p) => At(p, "rfClear") \/ At(p, "invClear")
         /\ MutateRoleRow(p) => At(p, "roleRows")
         /\ KeepRoleRow(p) => At(p, "keepRows")
  BY DEF LoginCreate, ReadOwners, Populate, SwitchValidate, SwitchUpdate,
     SwitchReadRoles, LogoutInvalidate, CurrentRedis, CurrentHitDb,
     CurrentHitOwners, CurrentMissDb, CurrentMissOwners, HealRead, HealWrite,
     RefreshSessions, RefreshOwners, RefreshWrite, RefreshDone, InvalidateFind,
     InvalidateOne, InvalidateDbDone, ClearOne, ClearDone, MutateRoleRow, KeepRoleRow, At

LEMMA BecomeIs ==
  ASSUME SessionInv, NEW p \in Procs, NEW g, Become(p, g)
  PROVE  proc'[p] = g
  BY DEF Become, SessionInv, TypeOK

\* A goroutine that goes to another place takes along what it holds.
LEMMA GotoIs ==
  ASSUME SessionInv, NEW p \in Procs, NEW c, Goto(p, c)
  PROVE  /\ proc'[p].pc = c
         /\ proc'[p].op = proc[p].op /\ proc'[p].sid = proc[p].sid
         /\ proc'[p].user = proc[p].user /\ proc'[p].wh = proc[p].wh
         /\ proc'[p].owners = proc[p].owners /\ proc'[p].roles = proc[p].roles
         /\ proc'[p].todo = proc[p].todo /\ proc'[p].clear = proc[p].clear
         /\ proc'[p].now = proc[p].now /\ proc'[p].err = proc[p].err
  BY ProcOK, BecomeIs DEF Goto, Goroutine

LEMMA ReturnIs ==
  ASSUME SessionInv, NEW p \in Procs, Return(p)
  PROVE  proc'[p] = Idle /\ proc'[p].pc = "idle"
  BY BecomeIs DEF Return, Idle

\* One that turns to the invalidation keeps its operation, session and user.
LEMMA InvalidateIs ==
  ASSUME SessionInv, NEW p \in Procs, Invalidate(p)
  PROVE  /\ proc'[p].pc = "invFind"
         /\ proc'[p].op = proc[p].op /\ proc'[p].sid = proc[p].sid
         /\ proc'[p].user = proc[p].user
         /\ proc'[p].todo = {} /\ proc'[p].clear = {}
  BY InvalidateStarts, BecomeIs

\* A role change writes its rows one by one, goes on to the invalidation, and
\* gives up only when a call fails; it leaves other users' assignments alone.
LEMMA RoleRowGoes ==
  ASSUME SessionInv, NEW p \in Procs, MutateRoleRow(p)
  PROVE  /\ proc[p].pc = "roleRows"
         /\ UNCHANGED <<sess, cache, userOwners, roleStatus, clock>>
         /\ \/ /\ proc'[p].pc \in {"invFind", "roleRows"}
               /\ proc'[p].op = proc[p].op /\ proc'[p].sid = proc[p].sid
               /\ proc'[p].user = proc[p].user
            \/ /\ proc'[p] = Idle /\ proc'[p].pc = "idle"
               /\ proc[p].op \in FaultyOps /\ UNCHANGED userRoles
         /\ \A u \in Users : u # proc[p].user => userRoles'[u] = userRoles[u]
  <1>1. PICK r \in proc[p].roles :
           \/ Become(p, [proc[p] EXCEPT !.roles = @ \ {r},
                 !.pc = IF proc[p].roles = {r} THEN "invFind" ELSE "roleRows"])
           \/ /\ Fails(p) /\ UNCHANGED userRoles
              /\ Invalidate(p) \/ Return(p)
    BY DEF MutateRoleRow
  <1>2. ASSUME NEW c \in {"invFind", "roleRows"},
               Become(p, [proc[p] EXCEPT !.roles = @ \ {r}, !.pc = c])
        PROVE  /\ proc'[p].pc = c
               /\ proc'[p].op = proc[p].op /\ proc'[p].sid = proc[p].sid
               /\ proc'[p].user = proc[p].user
    BY <1>2, BecomeIs, ProcOK DEF Goroutine
  <1>3. \A u \in Users : u # proc[p].user => userRoles'[u] = userRoles[u]
    BY DEF MutateRoleRow, SessionInv, TypeOK
  <1>4. \/ /\ proc'[p].pc \in {"invFind", "roleRows"}
           /\ proc'[p].op = proc[p].op /\ proc'[p].sid = proc[p].sid
           /\ proc'[p].user = proc[p].user
        \/ /\ proc'[p] = Idle /\ proc'[p].pc = "idle"
           /\ proc[p].op \in FaultyOps /\ UNCHANGED userRoles
    BY <1>1, <1>2, InvalidateIs, ReturnIs DEF Fails, CallsFail
  <1> QED
    BY <1>3, <1>4 DEF MutateRoleRow, At

\* Where a goroutine goes: to its end, or on with the request it serves.
Serving == HasRow \cup {"loginCreate"}

GoesOn(p) ==
    /\ proc'[p].pc # "loginCreate"
    /\ proc'[p].pc = "idle" \/ (proc'[p].op = proc[p].op /\ proc'[p].sid = proc[p].sid)
    /\ proc[p].pc \in Serving => proc'[p].pc \in HasRow \cup {"idle"}

LEMMA Onwards ==
  ASSUME SessionInv, NEW p \in Procs, Step(p)
  PROVE  GoesOn(p)
  <1>1. /\ proc[p] \in Goroutine
        /\ proc \in [Procs -> Goroutine]
        /\ Idle.pc = "idle"
    BY ProcOK DEF Idle, SessionInv, TypeOK
  <1>2. CASE LoginCreate(p)
    BY <1>1, <1>2 DEF LoginCreate, At, Goto, Return, Become, Goroutine, GoesOn, Serving, HasRow
  <1>3. CASE ReadOwners(p)
    BY <1>1, <1>3 DEF ReadOwners, At, Goto, Return, Become, Goroutine, GoesOn, Serving, HasRow
  <1>4. CASE Populate(p)
    BY <1>1, <1>4 DEF Populate, At, Goto, Return, Become, Goroutine, GoesOn, Serving, HasRow
  <1>5. CASE SwitchValidate(p)
    <2>1. CASE Return(p)
      BY <2>1, ReturnIs DEF GoesOn
    <2>2. ASSUME NEW w \in Warehouses,
                 Become(p, [proc[p] EXCEPT !.pc = "swUpdate",
                              !.user = sess[proc[p].sid].user, !.wh = w])
          PROVE  GoesOn(p)
      BY <1>1, <2>2 DEF Become, Goroutine, GoesOn, HasRow
    <2> QED
      BY <1>5, <2>1, <2>2 DEF SwitchValidate
  <1>6. CASE SwitchUpdate(p)
    BY <1>1, <1>6 DEF SwitchUpdate, At, Goto, Return, Become, Goroutine, GoesOn, Serving, HasRow
  <1>7. CASE SwitchReadRoles(p)
    BY <1>1, <1>7 DEF SwitchReadRoles, At, Goto, Return, Become, Goroutine, GoesOn, Serving, HasRow
  <1>8. CASE LogoutInvalidate(p)
    BY <1>1, <1>8 DEF LogoutInvalidate, At, Goto, Return, Become, Goroutine, GoesOn, Serving, HasRow
  <1>9. CASE CurrentRedis(p)
    <2> DEFINE e == cache[proc[p].sid]
    <2>1. CASE Become(p, [proc[p] EXCEPT !.pc = "gcHitDb", !.user = e.user,
                             !.wh = e.wh, !.owners = e.owners, !.roles = e.roles])
      BY <1>1, <2>1 DEF Become, Goroutine, GoesOn, HasRow
    <2>2. CASE Goto(p, "gcMissDb")
      BY <2>2, GotoIs DEF GoesOn, HasRow
    <2> QED
      BY <1>9, <2>1, <2>2 DEF CurrentRedis
  <1>10. CASE CurrentHitDb(p)
    BY <1>1, <1>10 DEF CurrentHitDb, At, Goto, Return, Become, Goroutine, GoesOn, Serving, HasRow
  <1>11. CASE CurrentHitOwners(p)
    <2>1. CASE Return(p)
      BY <2>1, ReturnIs DEF GoesOn
    <2>2. CASE Become(p, [proc[p] EXCEPT !.owners = userOwners[proc[p].user],
                             !.now = clock, !.pc = "healRead"])
      BY <1>1, <2>2 DEF Become, Goroutine, GoesOn, HasRow
    <2> QED
      BY <1>11, <2>1, <2>2 DEF CurrentHitOwners
  <1>12. CASE CurrentMissDb(p)
    <2> DEFINE row == sess[proc[p].sid]
    <2>1. CASE Return(p)
      BY <2>1, ReturnIs DEF GoesOn
    <2>2. CASE Become(p, [proc[p] EXCEPT !.pc = "gcMissOwners", !.user = row.user,
                             !.wh = row.wh, !.roles = row.roles])
      BY <1>1, <2>2 DEF Become, Goroutine, GoesOn, HasRow
    <2> QED
      BY <1>12, <2>1, <2>2 DEF CurrentMissDb
  <1>13. CASE CurrentMissOwners(p)
    <2>1. CASE Return(p)
      BY <2>1, ReturnIs DEF GoesOn
    <2>2. CASE Become(p, [proc[p] EXCEPT !.owners = userOwners[proc[p].user],
                             !.now = clock, !.pc = "healRead"])
      BY <1>1, <2>2 DEF Become, Goroutine, GoesOn, HasRow
    <2> QED
      BY <1>13, <2>1, <2>2 DEF CurrentMissOwners
  <1>14. CASE HealRead(p)
    BY <1>1, <1>14 DEF HealRead, At, Goto, Return, Become, Goroutine, GoesOn, Serving, HasRow
  <1>15. CASE HealWrite(p)
    BY <1>1, <1>15 DEF HealWrite, At, Goto, Return, Become, Goroutine, GoesOn, Serving, HasRow
  <1>16. CASE RefreshSessions(p)
    <2>0. proc[p].pc \notin Serving
      BY <1>16, Places DEF At, Serving, HasRow
    <2>1. CASE Become(p, [proc[p] EXCEPT !.todo = FindActiveByUserId(proc[p].user),
                             !.pc = "rfOwners"])
      BY <1>1, <2>0, <2>1 DEF Become, Goroutine, GoesOn
    <2>2. CASE Become(p, [proc[p] EXCEPT !.err = TRUE, !.pc = "rfOwners"])
      BY <1>1, <2>0, <2>2 DEF Become, Goroutine, GoesOn
    <2> QED
      BY <1>16, <2>1, <2>2 DEF RefreshSessions
  <1>17. CASE RefreshOwners(p)
    <2>0. proc[p].pc \notin Serving
      BY <1>17, Places DEF At, Serving, HasRow
    <2>1. CASE Become(p, [proc[p] EXCEPT !.owners = userOwners[proc[p].user],
                             !.pc = "rfWrite"])
      BY <1>1, <2>0, <2>1 DEF Become, Goroutine, GoesOn
    <2>2. CASE Invalidate(p)
      BY <2>0, <2>2, InvalidateIs DEF GoesOn
    <2>3. CASE Become(p, [proc[p] EXCEPT !.clear = {t.sid : t \in proc[p].todo},
                             !.todo = {}, !.err = TRUE, !.pc = "rfClear"])
      BY <1>1, <2>0, <2>3 DEF Become, Goroutine, GoesOn
    <2> QED
      BY <1>17, <2>1, <2>2, <2>3 DEF RefreshOwners
  <1>18. CASE RefreshWrite(p)
    BY <1>1, <1>18 DEF RefreshWrite, At, Goto, Return, Become, Goroutine, GoesOn, Serving, HasRow
  <1>19. CASE RefreshDone(p)
    BY <1>19, InvalidateIs, ReturnIs DEF RefreshDone, At, GoesOn, Serving, HasRow
  <1>20. CASE InvalidateFind(p)
    BY <1>1, <1>20 DEF InvalidateFind, At, Goto, Return, Become, Goroutine, GoesOn, Serving, HasRow
  <1>21. CASE InvalidateOne(p)
    BY <1>1, <1>21 DEF InvalidateOne, At, Goto, Return, Become, Goroutine, GoesOn, Serving, HasRow
  <1>22. CASE InvalidateDbDone(p)
    BY <1>1, <1>22 DEF InvalidateDbDone, At, Goto, Return, Become, Goroutine, GoesOn, Serving, HasRow
  <1>23. CASE ClearOne(p)
    BY <1>1, <1>23 DEF ClearOne, At, Goto, Return, Become, Goroutine, GoesOn, Serving, HasRow
  <1>24. CASE ClearDone(p)
    BY <1>24, InvalidateIs, ReturnIs DEF ClearDone, At, GoesOn, Serving, HasRow
  <1>25. CASE MutateRoleRow(p)
    BY <1>25, RoleRowGoes DEF GoesOn, Serving, HasRow
  <1>26. CASE KeepRoleRow(p)
    BY <1>26, KeepRowGoes, ReturnIs DEF GoesOn, Serving, HasRow
  <1> QED
    BY <1>2, <1>3, <1>4, <1>5, <1>6, <1>7, <1>8, <1>9, <1>10, <1>11, <1>12, <1>13,
       <1>14, <1>15, <1>16, <1>17, <1>18, <1>19, <1>20, <1>21, <1>22, <1>23, <1>24,
       <1>25, <1>26 DEF Step

LEMMA StepKeeps ==
  ASSUME NEW p \in Procs, Step(p)
  PROVE  /\ UNCHANGED <<userOwners, roleStatus, clock>>
         /\ UNCHANGED userRoles \/ MutateRoleRow(p) \/ KeepRoleRow(p)
  BY DEF Step, LoginCreate, ReadOwners, Populate, SwitchValidate, SwitchUpdate,
     SwitchReadRoles, LogoutInvalidate, CurrentRedis, CurrentHitDb,
     CurrentHitOwners, CurrentMissDb, CurrentMissOwners, HealRead, HealWrite,
     RefreshSessions, RefreshOwners, RefreshWrite, RefreshDone, InvalidateFind,
     InvalidateOne, InvalidateDbDone, ClearOne, ClearDone, MutateRoleRow, KeepRoleRow

LEMMA ProcType ==
  ASSUME SessionInv
  PROVE  proc \in [Procs -> Goroutine]
  BY DEF SessionInv, TypeOK

\* Where a request begins, and with what.
LEMMA Begins ==
  ASSUME SessionInv, NEW p \in Procs
  PROVE  /\ \A u \in Users :
              /\ LoginResolveRoles(p, u) =>
                   /\ proc'[p].pc = "loginCreate" /\ proc'[p].op = "login"
                   /\ proc'[p].user = u /\ proc'[p].wh = NoWarehouse
                   /\ \/ proc'[p].roles = ActiveRoles(u)
                      \/ "login" \in FaultyOps
              /\ MutateOwners(p, u) =>
                   /\ proc'[p].pc = "rfSessions" /\ proc'[p].op = "owner"
                   /\ proc'[p].user = u /\ proc'[p].now = clock
                   /\ proc'[p].err = FALSE
              /\ MutateRoles(p, u) => proc'[p].pc = "roleRows" /\ proc'[p].op = "role"
              /\ KeepRoles(p, u) =>
                   /\ proc'[p].pc = "keepRows" /\ proc'[p].op = "keep"
                   /\ proc'[p].user = u /\ proc'[p].roles = userRoles[u]
              /\ Deactivate(p, u) => proc'[p].pc = "invFind" /\ proc'[p].op = "deactivate"
         /\ \A s \in Sessions :
              /\ SwitchContext(p, s) =>
                   proc'[p].pc = "swValidate" /\ proc'[p].op = "switch"
              /\ Logout(p, s) => proc'[p].pc = "loInvalidate" /\ proc'[p].op = "logout"
              /\ GetCurrentSession(p, s) => proc'[p].pc = "gcRedis" /\ proc'[p].op = "current"
  <1>1. proc \in [Procs -> Goroutine] /\ Idle \in Goroutine
    BY ProcType, IdleType
  <1>2. ASSUME NEW u \in Users, LoginResolveRoles(p, u)
        PROVE  /\ proc'[p].pc = "loginCreate" /\ proc'[p].op = "login"
               /\ proc'[p].user = u /\ proc'[p].wh = NoWarehouse
               /\ \/ proc'[p].roles = ActiveRoles(u)
                  \/ "login" \in FaultyOps
    <2>1. PICK s \in Sessions, rs \in SUBSET ActiveRoles(u) :
           /\ IF rs = ActiveRoles(u) THEN Succeeds ELSE CallsFail("login", 1)
           /\ Become(p, [Start("login", "loginCreate") EXCEPT
                            !.sid = s, !.user = u, !.roles = rs])
      BY <1>2 DEF LoginResolveRoles
    <2>2. proc'[p] = [Start("login", "loginCreate") EXCEPT
                            !.sid = s, !.user = u, !.roles = rs]
      BY <2>1, BecomeIs
    <2> QED
      BY <2>1, <2>2 DEF CallsFail, Start, Idle
  <1>3. ASSUME NEW u \in Users, MutateOwners(p, u)
        PROVE  /\ proc'[p].pc = "rfSessions" /\ proc'[p].op = "owner"
               /\ proc'[p].user = u /\ proc'[p].now = clock
               /\ proc'[p].err = FALSE
    <2>1. proc'[p] = [Start("owner", "rfSessions") EXCEPT !.user = u, !.now = clock]
      BY <1>3, BecomeIs DEF MutateOwners
    <2> QED
      BY <2>1 DEF Start, Idle
  <1>4. ASSUME NEW u \in Users, MutateRoles(p, u)
        PROVE  proc'[p].pc = "roleRows" /\ proc'[p].op = "role"
    <2>1. PICK rs \in SUBSET Roles :
             proc'[p] = [Start("role", "roleRows") EXCEPT !.user = u, !.roles = rs]
      BY <1>4, BecomeIs DEF MutateRoles
    <2> QED
      BY <2>1 DEF Start, Idle
  <1>5. ASSUME NEW u \in Users, Deactivate(p, u)
        PROVE  proc'[p].pc = "invFind" /\ proc'[p].op = "deactivate"
    <2>1. proc'[p] = [Start("deactivate", "invFind") EXCEPT !.user = u]
      BY <1>5, BecomeIs DEF Deactivate
    <2> QED
      BY <2>1 DEF Start, Idle
  <1>6. ASSUME NEW s \in Sessions, NEW op, NEW c, Arrive(p, s, op, c)
        PROVE  proc'[p].pc = c /\ proc'[p].op = op
    <2>1. proc'[p] = [Start(op, c) EXCEPT !.sid = s]
      BY <1>6, BecomeIs DEF Arrive
    <2> QED
      BY <2>1 DEF Start, Idle
  <1>7. ASSUME NEW u \in Users, KeepRoles(p, u)
        PROVE  /\ proc'[p].pc = "keepRows" /\ proc'[p].op = "keep"
               /\ proc'[p].user = u /\ proc'[p].roles = userRoles[u]
    <2>1. proc'[p] = [Start("keep", "keepRows") EXCEPT !.user = u, !.roles = userRoles[u]]
      BY <1>7, BecomeIs DEF KeepRoles
    <2> QED
      BY <2>1 DEF Start, Idle
  <1> QED
    BY <1>2, <1>3, <1>4, <1>5, <1>6, <1>7 DEF SwitchContext, Logout, GetCurrentSession

LEMMA BecomeOne ==
  ASSUME SessionInv, NEW p \in Procs, Step(p) \/ Request(p)
  PROVE  \A q \in Procs \ {p} : proc'[q] = proc[q]
  <1>1. \A g : Become(p, g) => \A q \in Procs \ {p} : proc'[q] = proc[q]
    BY ProcType DEF Become
  <1>2. \A c : Goto(p, c) => \A q \in Procs \ {p} : proc'[q] = proc[q]
    BY <1>1 DEF Goto
  <1>3. Return(p) => \A q \in Procs \ {p} : proc'[q] = proc[q]
    BY <1>1 DEF Return
  <1>4. CASE Request(p)
    BY <1>1, <1>3, <1>4 DEF Request, LoginResolveRoles, MutateOwners, MutateRoles, KeepRoles,
       Deactivate, SwitchContext, Logout, GetCurrentSession, Arrive
  <1>5. CASE Step(p)
    <2>1. CASE LoginCreate(p) \/ ReadOwners(p) \/ Populate(p)
               \/ SwitchValidate(p) \/ SwitchUpdate(p) \/ SwitchReadRoles(p)
               \/ LogoutInvalidate(p)
      BY <1>1, <1>2, <1>3, <2>1 DEF LoginCreate, ReadOwners, Populate, SwitchValidate,
         SwitchUpdate, SwitchReadRoles, LogoutInvalidate
    <2>2. CASE CurrentRedis(p) \/ CurrentHitDb(p) \/ CurrentHitOwners(p)
               \/ CurrentMissDb(p) \/ CurrentMissOwners(p)
               \/ HealRead(p) \/ HealWrite(p)
      BY <1>1, <1>2, <1>3, <2>2 DEF CurrentRedis, CurrentHitDb, CurrentHitOwners,
         CurrentMissDb, CurrentMissOwners, HealRead, HealWrite
    <2>3. CASE RefreshSessions(p) \/ RefreshOwners(p) \/ RefreshWrite(p) \/ RefreshDone(p)
      BY <1>1, <1>2, <1>3, <2>3 DEF RefreshSessions, RefreshOwners, RefreshWrite,
         RefreshDone, Invalidate
    <2>4. CASE InvalidateFind(p) \/ InvalidateOne(p) \/ InvalidateDbDone(p)
               \/ ClearOne(p) \/ ClearDone(p) \/ MutateRoleRow(p) \/ KeepRoleRow(p)
      <3>1. KeepRoleRow(p) => \A q \in Procs \ {p} : proc'[q] = proc[q]
        BY <1>3 DEF KeepRoleRow
      <3> QED
        BY <1>1, <1>2, <1>3, <2>4, <3>1 DEF InvalidateFind, InvalidateOne,
           InvalidateDbDone, ClearOne, ClearDone, MutateRoleRow, Invalidate
    <2> QED
      BY <1>5, <2>1, <2>2, <2>3, <2>4 DEF Step
  <1> QED
    BY <1>4, <1>5

Among(todo, s) == \E t \in todo : t.sid = s

LEMMA FoundAll ==
  ASSUME NEW u, NEW s \in Sessions, sess[s].status = "ACTIVE", sess[s].user = u
  PROVE  Among(FindActiveByUserId(u), s)
  <1>1. [sid |-> s, wh |-> sess[s].wh] \in FindActiveByUserId(u)
    BY DEF FindActiveByUserId, ActiveOf
  <1> QED
    BY <1>1 DEF Among

\* The sessions a goroutine has found, to refresh or to invalidate, are rows
\* of the user it works for.
Theirs(g) ==
    /\ g.pc \in {"rfOwners", "rfWrite", "invDb"} =>
          \A t \in g.todo : sess[t.sid].user = g.user
    /\ g.pc \in {"rfClear", "invDb", "invClear"} =>
          \A s \in g.clear : sess[s].status # "NONE" /\ sess[s].user = g.user

FoundInv == \A p \in Procs : Theirs(proc[p])

LEMMA FoundStep ==
  ASSUME SessionInv, FoundInv, [Next]_vars, NEW p \in Procs, Step(p)
  PROVE  Theirs(proc[p])'
  <1>1. /\ proc[p] \in Goroutine /\ GoroutineOK(proc[p]) /\ Theirs(proc[p])
        /\ proc \in [Procs -> Goroutine]
        /\ sess \in [Sessions -> SessRow]
    BY ProcOK, ProcType DEF FoundInv, SessionInv, TypeOK
  <1>2. CASE proc[p].pc \in Serving
    BY <1>2, Onwards DEF GoesOn, Theirs, HasRow
  <1>3. \A t \in proc[p].todo : t.sid \in Sessions /\ sess[t.sid].status # "NONE"
    BY <1>1 DEF GoroutineOK, Goroutine, Found
  <1>4. \A s \in Sessions : sess[s].status # "NONE" =>
           sess'[s].status # "NONE" /\ sess'[s].user = sess[s].user
    BY RowsFixed
  <1>5. \A u : \A t \in FindActiveByUserId(u) :
           sess[t.sid].user = u /\ sess[t.sid].status # "NONE"
    BY DEF FindActiveByUserId, ActiveOf
  <1>6. CASE RefreshSessions(p)
    <2>1. UNCHANGED sess /\ proc[p].todo = {}
      BY <1>1, <1>6 DEF RefreshSessions, At, GoroutineOK
    <2>2. CASE Become(p, [proc[p] EXCEPT !.todo = FindActiveByUserId(proc[p].user),
                             !.pc = "rfOwners"])
      <3>1. /\ proc'[p].pc = "rfOwners" /\ proc'[p].user = proc[p].user
            /\ proc'[p].todo = FindActiveByUserId(proc[p].user)
        BY <1>1, <2>2 DEF Become, Goroutine
      <3> QED
        BY <1>5, <2>1, <3>1 DEF Theirs
    <2>3. CASE Become(p, [proc[p] EXCEPT !.err = TRUE, !.pc = "rfOwners"])
      <3>1. proc'[p].pc = "rfOwners" /\ proc'[p].todo = {}
        BY <1>1, <2>1, <2>3 DEF Become, Goroutine
      <3> QED
        BY <3>1 DEF Theirs
    <2> QED
      BY <1>6, <2>2, <2>3 DEF RefreshSessions
  <1>7. CASE RefreshOwners(p)
    <2>1. UNCHANGED sess /\ \A t \in proc[p].todo : sess[t.sid].user = proc[p].user
      BY <1>1, <1>7 DEF RefreshOwners, At, Theirs
    <2>2. CASE Become(p, [proc[p] EXCEPT !.owners = userOwners[proc[p].user],
                             !.pc = "rfWrite"])
      <3>1. /\ proc'[p].pc = "rfWrite" /\ proc'[p].user = proc[p].user
            /\ proc'[p].todo = proc[p].todo
        BY <1>1, <2>2 DEF Become, Goroutine
      <3> QED
        BY <2>1, <3>1 DEF Theirs
    <2>3. CASE Invalidate(p)
      BY <2>3, InvalidateIs DEF Theirs
    <2>4. CASE Become(p, [proc[p] EXCEPT !.clear = {t.sid : t \in proc[p].todo},
                             !.todo = {}, !.err = TRUE, !.pc = "rfClear"])
      <3>1. /\ proc'[p].pc = "rfClear" /\ proc'[p].user = proc[p].user
            /\ proc'[p].clear = {t.sid : t \in proc[p].todo}
        BY <1>1, <2>4 DEF Become, Goroutine
      <3> QED
        BY <1>3, <2>1, <3>1 DEF Theirs
    <2> QED
      BY <1>7, <2>2, <2>3, <2>4 DEF RefreshOwners
  <1>8. CASE RefreshWrite(p)
    <2>1. PICK t \in proc[p].todo :
             Become(p, [proc[p] EXCEPT !.todo = @ \ {t}, !.err = @ \/ faults' # faults])
      BY <1>8 DEF RefreshWrite
    <2>2. proc[p].pc = "rfWrite" /\ UNCHANGED sess
      BY <1>8 DEF RefreshWrite, At
    <2>3. /\ proc'[p].pc = "rfWrite" /\ proc'[p].user = proc[p].user
          /\ proc'[p].todo \subseteq proc[p].todo
      BY <1>1, <2>1, <2>2 DEF Become, Goroutine
    <2> QED
      BY <1>1, <2>2, <2>3 DEF Theirs
  <1>9. CASE RefreshDone(p)
    BY <1>9, InvalidateIs, ReturnIs DEF RefreshDone, Theirs
  <1>10. CASE InvalidateFind(p)
    <2>1. UNCHANGED sess
      BY <1>10 DEF InvalidateFind
    <2>2. CASE Become(p, [proc[p] EXCEPT !.todo = FindActiveByUserId(proc[p].user),
                   !.clear = {t.sid : t \in FindActiveByUserId(proc[p].user)}, !.pc = "invDb"])
      <3>1. /\ proc'[p].pc = "invDb" /\ proc'[p].user = proc[p].user
            /\ proc'[p].todo = FindActiveByUserId(proc[p].user)
            /\ proc'[p].clear = {t.sid : t \in FindActiveByUserId(proc[p].user)}
        BY <1>1, <2>2 DEF Become, Goroutine
      <3> QED
        BY <1>5, <2>1, <3>1 DEF Theirs
    <2>3. CASE Return(p)
      BY <2>3, ReturnIs DEF Theirs
    <2> QED
      BY <1>10, <2>2, <2>3 DEF InvalidateFind
  <1>11. CASE InvalidateOne(p) \/ ClearOne(p)
    <2>1. /\ proc'[p].pc = proc[p].pc /\ proc'[p].user = proc[p].user
          /\ proc'[p].todo \subseteq proc[p].todo /\ proc'[p].clear \subseteq proc[p].clear
      <3>1. CASE InvalidateOne(p)
        <4>1. PICK t \in proc[p].todo : Become(p, [proc[p] EXCEPT !.todo = @ \ {t}])
          BY <3>1 DEF InvalidateOne
        <4> QED
          BY <1>1, <4>1 DEF Become, Goroutine
      <3>2. CASE ClearOne(p)
        <4>1. PICK s \in proc[p].clear : Become(p, [proc[p] EXCEPT !.clear = @ \ {s}])
          BY <3>2 DEF ClearOne
        <4> QED
          BY <1>1, <4>1 DEF Become, Goroutine
      <3> QED
        BY <1>11, <3>1, <3>2
    <2>2. proc[p].clear \subseteq Sessions
      BY <1>1 DEF Goroutine
    <2> QED
      BY <1>1, <1>3, <1>4, <2>1, <2>2 DEF Theirs
  <1>12. CASE InvalidateDbDone(p) \/ ClearDone(p)
    <2>1. UNCHANGED sess /\ proc[p].pc \in {"invDb", "rfClear", "invClear"}
      BY <1>12, Places DEF InvalidateDbDone, ClearDone, At
    <2>2. \/ proc'[p].pc \in {"idle", "invFind"}
          \/ /\ proc'[p].pc = "invClear" /\ proc'[p].user = proc[p].user
             /\ proc'[p].clear = proc[p].clear
      BY <1>12, GotoIs, InvalidateIs, ReturnIs DEF InvalidateDbDone, ClearDone
    <2> QED
      BY <1>1, <2>1, <2>2 DEF Theirs
  <1>13. CASE MutateRoleRow(p)
    BY <1>13, RoleRowGoes DEF Theirs
  <1>14. CASE KeepRoleRow(p)
    BY <1>14, KeepRowGoes, ReturnIs DEF Theirs
  <1> QED
    BY <1>2, <1>6, <1>7, <1>8, <1>9, <1>10, <1>11, <1>12, <1>13, <1>14, Places
       DEF Step, At, Serving, HasRow

LEMMA FoundNext ==
  ASSUME SessionInv, FoundInv, [Next]_vars
  PROVE  FoundInv'
  <1>1. ASSUME NEW q \in Procs, proc'[q] = proc[q]
        PROVE  Theirs(proc[q])'
    <2>1. /\ \A t \in proc[q].todo : t.sid \in Sessions /\ sess[t.sid].status # "NONE"
          /\ proc[q].clear \subseteq Sessions
      BY ProcOK DEF GoroutineOK, Goroutine, Found
    <2>2. \A s \in Sessions : sess[s].status # "NONE" =>
             sess'[s].status # "NONE" /\ sess'[s].user = sess[s].user
      BY RowsFixed
    <2> QED
      BY <1>1, <2>1, <2>2 DEF FoundInv, Theirs
  <1>2. ASSUME NEW p \in Procs, Step(p)
        PROVE  FoundInv'
    BY <1>1, <1>2, FoundStep, BecomeOne DEF FoundInv
  <1>3. ASSUME NEW p \in Procs, Request(p)
        PROVE  FoundInv'
    <2>1. Theirs(proc[p])'
      BY <1>3, Begins DEF Request, Theirs
    <2> QED
      BY <1>1, <1>3, <2>1, BecomeOne DEF FoundInv
  <1>4. CASE \/ \E s \in Sessions : ExpireOnRequest(s)
             \/ \E r \in Roles : UpdateRole(r)
             \/ Tick \/ UNCHANGED vars
    <2>1. UNCHANGED proc
      BY <1>4 DEF ExpireOnRequest, UpdateRole, Tick, vars
    <2> QED
      BY <1>1, <2>1 DEF FoundInv
  <1> QED
    BY <1>2, <1>3, <1>4 DEF Next

LEMMA FoundInvInit == Init => FoundInv
  <1> SUFFICES ASSUME Init PROVE FoundInv
    OBVIOUS
  <1>1. \A p \in Procs : proc[p].pc = "idle"
    BY DEF Init, Idle
  <1> QED
    BY <1>1 DEF FoundInv, Theirs

LEMMA FoundInvariant == Spec => []FoundInv
  <1>1. SessionInv /\ FoundInv /\ [Next]_vars => FoundInv'
    BY FoundNext
  <1> QED
    BY <1>1, FoundInvInit, SessionInvariant, PTL DEF Spec

\* The user a goroutine works for: the session's, or the one it was given.
WorksFor(g) == IF g.pc \in HasRow THEN sess[g.sid].user ELSE g.user

\* A goroutine's step writes the rows and documents of that user and no other.
LEMMA Local ==
  ASSUME SessionInv, FoundInv, [Next]_vars, NEW p \in Procs, Step(p),
         NEW s \in Sessions, sess'[s].user # WorksFor(proc[p])
  PROVE  sess'[s] = sess[s] /\ cache'[s] = cache[s]
  <1>1. /\ proc[p] \in Goroutine /\ GoroutineOK(proc[p]) /\ Theirs(proc[p])
        /\ sess \in [Sessions -> SessRow] /\ cache \in [Sessions -> Entry]
        /\ proc[p].sid \in Sessions
        /\ \A t \in proc[p].todo : t.sid \in Sessions /\ sess[t.sid].status # "NONE"
        /\ proc[p].clear \subseteq Sessions
    BY ProcOK DEF FoundInv, SessionInv, TypeOK, Goroutine, GoroutineOK, Found
  <1>2. \A x \in Sessions : sess[x].status # "NONE" /\ sess[x].user = WorksFor(proc[p]) => x # s
    BY RowsFixed
  <1>3. proc[p].pc \in HasRow => proc[p].sid # s
    BY <1>1, <1>2 DEF WorksFor, GoroutineOK
  <1>4. proc[p].pc \in {"rfOwners", "rfWrite", "invDb"} => \A t \in proc[p].todo : t.sid # s
    BY <1>1, <1>2 DEF WorksFor, Theirs, HasRow
  <1>5. proc[p].pc \in {"rfClear", "invDb", "invClear"} => s \notin proc[p].clear
    BY <1>1, <1>2 DEF WorksFor, Theirs, HasRow
  <1>6. CASE LoginCreate(p)
    <2>1. UNCHANGED cache /\ proc[p].pc = "loginCreate"
      BY <1>6 DEF LoginCreate, At
    <2>2. WorksFor(proc[p]) = proc[p].user
      BY <2>1 DEF WorksFor, HasRow
    <2> QED
      BY <1>1, <1>6, <2>1, <2>2 DEF LoginCreate
  <1>7. CASE ReadOwners(p) \/ SwitchValidate(p) \/ SwitchReadRoles(p)
             \/ CurrentRedis(p) \/ CurrentMissDb(p) \/ CurrentMissOwners(p)
             \/ RefreshSessions(p) \/ RefreshOwners(p) \/ RefreshDone(p)
             \/ InvalidateFind(p) \/ InvalidateDbDone(p) \/ ClearDone(p)
             \/ MutateRoleRow(p) \/ KeepRoleRow(p)
    BY <1>7 DEF ReadOwners, SwitchValidate, SwitchReadRoles, CurrentRedis, CurrentMissDb,
       CurrentMissOwners, RefreshSessions, RefreshOwners, RefreshDone, InvalidateFind,
       InvalidateDbDone, ClearDone, MutateRoleRow, KeepRoleRow
  <1>8. CASE Populate(p) \/ CurrentHitDb(p) \/ CurrentHitOwners(p) \/ HealRead(p) \/ HealWrite(p)
    <2>1. proc[p].sid # s /\ UNCHANGED sess
      BY <1>3, <1>8, Places DEF At, HasRow, Populate, CurrentHitDb, CurrentHitOwners,
         HealRead, HealWrite
    <2>2. \A e : SetCache(proc[p].sid, e) => cache'[s] = cache[s]
      BY <1>1, <2>1 DEF SetCache
    <2>3. DropEntry(p, proc[p].sid) \/ FailClosed(p, proc[p].sid) => cache'[s] = cache[s]
      BY <2>2 DEF DropEntry, FailClosed, DeleteCache
    <2> QED
      BY <1>8, <2>1, <2>2, <2>3 DEF Populate, CurrentHitDb, CurrentHitOwners, HealRead,
         HealWrite, Rewrite
  <1>9. CASE SwitchUpdate(p) \/ LogoutInvalidate(p)
    <2>1. proc[p].sid # s /\ UNCHANGED cache
      BY <1>3, <1>9, Places DEF At, HasRow, SwitchUpdate, LogoutInvalidate
    <2> QED
      BY <1>1, <1>9, <2>1 DEF SwitchUpdate, LogoutInvalidate
  <1>10. CASE RefreshWrite(p)
    <2>1. PICK t \in proc[p].todo :
             (\E e : Rewrite(p, t.sid, e)) \/ UNCHANGED cache
      BY <1>10 DEF RefreshWrite
    <2>2. t.sid # s /\ UNCHANGED sess
      BY <1>4, <1>10 DEF RefreshWrite, At
    <2>3. \A f : SetCache(t.sid, f) => cache'[s] = cache[s]
      BY <1>1, <2>2 DEF SetCache
    <2> QED
      BY <2>1, <2>2, <2>3 DEF Rewrite, FailClosed, DeleteCache
  <1>11. CASE InvalidateOne(p)
    <2>1. PICK t \in proc[p].todo :
             sess' = [sess EXCEPT ![t.sid].status = "INVALIDATED"] \/ UNCHANGED sess
      BY <1>11 DEF InvalidateOne
    <2>2. t.sid # s /\ UNCHANGED cache
      BY <1>4, <1>11 DEF InvalidateOne, At
    <2> QED
      BY <1>1, <2>1, <2>2
  <1>12. CASE ClearOne(p)
    <2>1. PICK x \in proc[p].clear : DropEntry(p, x)
      BY <1>12 DEF ClearOne
    <2>2. x # s /\ UNCHANGED sess
      BY <1>5, <1>12 DEF ClearOne
    <2> QED
      BY <1>1, <2>1, <2>2 DEF DropEntry, DeleteCache, SetCache
  <1> QED
    BY <1>6, <1>7, <1>8, <1>9, <1>10, <1>11, <1>12 DEF Step

\* What a call of goroutine p leaves as it is.
LeavesOthers(p) ==
    \A s \in Sessions : sess'[s].user # WorksFor(proc[p]) =>
        sess'[s] = sess[s] /\ cache'[s] = cache[s]

\* Every database and Redis call of a handler, in any interleaving and however
\* its calls fail, writes rows and documents of the user the handler works for
\* and of no other: logins, switches, heals, owner refreshes and invalidations
\* of different users never meet.
THEOREM CallsAreLocal == Spec => [][\A p \in Procs : Step(p) => LeavesOthers(p)]_vars
  <1>1. SessionInv /\ FoundInv /\ [Next]_vars =>
          [\A p \in Procs : Step(p) => LeavesOthers(p)]_vars
    BY Local DEF LeavesOthers
  <1> QED
    BY <1>1, SessionInvariant, FoundInvariant, PTL DEF Spec

-----------------------------------------------------------------------------
(* When rows and documents agree.  The three agreements below do not hold in  *)
(* every interleaving: a role change that commits between a login's           *)
(* resolveRoleSet and its Create misses the new session.  Each holds unless   *)
(* a value that a goroutine has read and not written yet is changed under it; *)
(* which one, and by whom, is the hypothesis of its theorem.                  *)

\* No handler of the user runs, whatever those of others do.
AtRest(u) == \A p \in Procs : ~At(p, "idle") => WorksFor(proc[p]) # u

-----------------------------------------------------------------------------
(* Role changes and the sessions of the user whose roles they are.             *)

\* A change of the user's assignments has session s still to mark.
Revoking(g, s) ==
    /\ g.op = "role" /\ g.user = sess[s].user
    /\ \/ g.pc \in {"roleRows", "invFind"}
       \/ g.pc = "invDb" /\ Among(g.todo, s)

\* A role set that a session carries, or is going to carry: it is its user's, or
\* the session is over or about to be.
Told(rs, s) ==
    sess[s].status = "ACTIVE" =>
        \/ RolesOf(rs, sess[s].user)
        \/ \E p \in Procs : Revoking(proc[p], s)

\* The places where a goroutine holds roles for the document of its session.
HoldsRoles == {"populate", "gcHitDb", "gcHitOwners", "gcMissOwners",
               "healRead", "healWrite"}

RolesHeld(g) ==
    /\ g.pc = "loginCreate" => g.op = "login" /\ RolesOf(g.roles, g.user)
    /\ g.pc \in {"readOwners", "readRoles"} => g.op \in {"login", "switch"}
    /\ g.pc \in {"swValidate", "swUpdate"} => g.op = "switch"
    /\ g.pc = "roleRows" => g.op = "role"
    /\ g.pc = "keepRows" => g.roles = userRoles[g.user]
    /\ g.pc \in HoldsRoles \/ (g.pc = "readOwners" /\ g.op = "login") =>
          Told(g.roles, g.sid)

\* The inductive invariant: rows, documents, and what goroutines make of them.
RolesInv ==
    /\ \A s \in Sessions : Told(sess[s].roles, s)
    /\ \A s \in Sessions : cache[s] # Gone => Told(cache[s].roles, s)
    /\ \A p \in Procs : RolesHeld(proc[p])

\* What a login has read of its user's assignments stays so until it calls Create,
\* and what an update with an unchanged list has read until it has compared the
\* rows: no change of that user's, but the update's own, commits in between.
RolesSteady ==
    \A p \in Procs :
        At(p, "loginCreate") \/ (At(p, "keepRows") /\ ~KeepRoleRow(p)) =>
            userRoles'[proc[p].user] = userRoles[proc[p].user]

\* No call of a login, a switch or a role change fails.
RolesCallsWork == FaultyOps \cap {"login", "switch", "role"} = {}

\* The roles resolveRoleSet returns are the user's, whatever the status of each.
LEMMA ActiveRolesOf ==
  ASSUME NEW u PROVE RolesOf(ActiveRoles(u), u)
  BY DEF RolesOf, ActiveRoles

\* Assignments change when a role change, or an update, writes one of its rows.
LEMMA WhoChangesRoles ==
  ASSUME SessionInv, [Next]_vars, NEW u \in Users, userRoles'[u] # userRoles[u]
  PROVE  \E p \in Procs : /\ MutateRoleRow(p) \/ KeepRoleRow(p)
                          /\ Step(p) /\ proc[p].user = u
  <1>1. PICK p \in Procs : MutateRoleRow(p) \/ KeepRoleRow(p)
    BY StepKeeps DEF Next, Request, LoginResolveRoles, MutateOwners, MutateRoles, KeepRoles,
       Deactivate, SwitchContext, Logout, GetCurrentSession, Arrive, ExpireOnRequest,
       UpdateRole, Tick, vars
  <1> QED
    BY <1>1, RoleRowGoes, KeepRowGoes DEF Step

\* No role is FRESH again.
LEMMA StatusLeavesFresh ==
  ASSUME SessionInv, [Next]_vars, NEW r \in Roles, roleStatus[r] # "FRESH"
  PROVE  roleStatus'[r] # "FRESH"
  <1>1. CASE UNCHANGED roleStatus
    BY <1>1
  <1>2. ASSUME NEW x \in Roles, UpdateRole(x)
        PROVE  roleStatus'[r] # "FRESH"
    BY <1>2 DEF UpdateRole, SessionInv, TypeOK
  <1> QED
    BY <1>1, <1>2, StepKeeps DEF Next, Request, LoginResolveRoles, MutateOwners,
       MutateRoles, KeepRoles, Deactivate, SwitchContext, Logout, GetCurrentSession, Arrive,
       ExpireOnRequest, Tick, vars

LEMMA RolesOfStays ==
  ASSUME SessionInv, [Next]_vars, NEW u \in Users, NEW rs, RolesOf(rs, u),
         userRoles'[u] = userRoles[u]
  PROVE  RolesOf(rs, u)'
  <1>1. userRoles[u] \subseteq Roles
    BY DEF SessionInv, TypeOK
  <1> QED
    BY <1>1, StatusLeavesFresh DEF RolesOf

\* A goroutine moves by its own steps, and by a request when it is idle.
LEMMA WhoMovesOn ==
  ASSUME SessionInv, [Next]_vars, NEW q \in Procs, ~At(q, "idle"), ~Step(q)
  PROVE  proc'[q] = proc[q]
  <1>1. ASSUME NEW p \in Procs, Step(p) \/ Request(p)
        PROVE  proc'[q] = proc[q]
    <2>1. ~Request(q)
      BY DEF Request, LoginResolveRoles, MutateOwners, MutateRoles, KeepRoles, Deactivate,
         SwitchContext, Logout, GetCurrentSession, Arrive
    <2> QED
      BY <1>1, <2>1, BecomeOne
  <1> QED
    BY <1>1 DEF Next, ExpireOnRequest, UpdateRole, Tick, vars

\* A role change that has a session to mark keeps at it until it has.
LEMMA RevokingStays ==
  ASSUME RolesCallsWork, SessionInv, [Next]_vars, NEW s \in Sessions,
         sess[s].status = "ACTIVE", sess'[s].status = "ACTIVE",
         NEW q \in Procs, Revoking(proc[q], s)
  PROVE  Revoking(proc[q], s)'
  <1>1. /\ proc[q] \in Goroutine /\ proc \in [Procs -> Goroutine]
        /\ sess \in [Sessions -> SessRow]
        /\ sess'[s].user = sess[s].user
        /\ proc[q].op = "role" /\ proc[q].user = sess[s].user
    BY ProcOK, ProcType, RowsFixed DEF SessionInv, TypeOK, Revoking
  <1>2. CASE ~Step(q)
    BY <1>1, <1>2, WhoMovesOn DEF Revoking, At
  <1>3. CASE Step(q) /\ proc[q].pc = "roleRows"
    <2>1. MutateRoleRow(q)
      BY <1>3, Places DEF Step, At
    <2> QED
      BY <1>1, <2>1, RoleRowGoes DEF Revoking, RolesCallsWork
  <1>4. CASE Step(q) /\ proc[q].pc = "invFind"
    <2>1. InvalidateFind(q)
      BY <1>4, Places DEF Step, At
    <2>2. Among(FindActiveByUserId(proc[q].user), s)
      BY <1>1, FoundAll
    <2>3. Become(q, [proc[q] EXCEPT !.todo = FindActiveByUserId(proc[q].user),
               !.clear = {t.sid : t \in FindActiveByUserId(proc[q].user)}, !.pc = "invDb"])
      BY <1>1, <2>1, <2>2 DEF InvalidateFind, Fails, CallsFail, Among, RolesCallsWork
    <2>4. /\ proc'[q].pc = "invDb" /\ proc'[q].op = "role"
          /\ proc'[q].user = proc[q].user
          /\ proc'[q].todo = FindActiveByUserId(proc[q].user)
      BY <1>1, <2>3 DEF Become, Goroutine
    <2> QED
      BY <1>1, <2>2, <2>4 DEF Revoking
  <1>5. CASE Step(q) /\ proc[q].pc = "invDb"
    <2>1. Among(proc[q].todo, s)
      BY <1>5 DEF Revoking
    <2>2. InvalidateOne(q)
      BY <1>5, <2>1, Places DEF Step, At, InvalidateDbDone, Among
    <2>3. PICK t \in proc[q].todo :
             /\ sess' = [sess EXCEPT ![t.sid].status = "INVALIDATED"]
             /\ Become(q, [proc[q] EXCEPT !.todo = @ \ {t}])
      BY <1>1, <2>2 DEF InvalidateOne, Fails, CallsFail, RolesCallsWork
    <2>4. /\ proc'[q].pc = "invDb" /\ proc'[q].op = "role"
          /\ proc'[q].user = proc[q].user
          /\ proc'[q].todo = proc[q].todo \ {t}
      BY <1>1, <1>5, <2>3 DEF Become, Goroutine
    <2>5. t.sid \in Sessions
      BY <1>1 DEF Goroutine, Found
    <2>6. t.sid # s
      BY <1>1, <2>3, <2>5 DEF SessRow
    <2> QED
      BY <1>1, <2>1, <2>4, <2>6 DEF Revoking, Among
  <1> QED
    BY <1>2, <1>3, <1>4, <1>5 DEF Revoking

\* A role set of an existing session is told of every step: the assignments stay,
\* or the role change that alters them has the session to mark.
LEMMA ToldStays ==
  ASSUME RolesCallsWork, SessionInv, RolesInv, [Next]_vars, NEW s \in Sessions,
         sess[s].status # "NONE", NEW rs, Told(rs, s)
  PROVE  Told(rs, s)'
  <1> DEFINE u == sess[s].user
  <1> SUFFICES ASSUME sess'[s].status = "ACTIVE"
               PROVE  RolesOf(rs, u)' \/ \E p \in Procs : Revoking(proc[p], s)'
    BY RowsFixed DEF Told
  <1>1. /\ sess[s].status = "ACTIVE" /\ sess'[s].user = u /\ u \in Users
    BY RowsFixed DEF SessionInv, RowsHaveUsers
  <1>2. CASE \E q \in Procs : Revoking(proc[q], s)
    BY <1>1, <1>2, RevokingStays
  <1>3. CASE RolesOf(rs, u) /\ userRoles'[u] = userRoles[u]
    <2>1. RolesOf(rs, sess[s].user)'
      BY <1>1, <1>3, RolesOfStays DEF RolesOf
    <2> QED
      BY <2>1
  <1>4. CASE userRoles'[u] # userRoles[u]
    <2>1. PICK p \in Procs : (MutateRoleRow(p) \/ KeepRoleRow(p)) /\ proc[p].user = u
      BY <1>1, <1>4, WhoChangesRoles
    <2>2. MutateRoleRow(p)
      BY <1>4, <2>1, KeepRowGoes DEF RolesInv, RolesHeld
    <2>3. Revoking(proc[p], s)
      BY <2>1, <2>2, Places DEF Revoking, RolesInv, RolesHeld, At
    <2> QED
      BY <1>1, <2>3, RevokingStays
  <1> QED
    BY <1>1, <1>2, <1>3, <1>4 DEF Told

\* An ACTIVE row was one before, with the same user and the same roles.
RowsWane ==
    \A s \in Sessions : sess'[s].status = "ACTIVE" =>
        /\ sess[s].status = "ACTIVE"
        /\ sess'[s].user = sess[s].user
        /\ sess'[s].roles = sess[s].roles

\* Only Create adds an ACTIVE row.
LEMMA RowsDoWane ==
  ASSUME SessionInv, [Next]_vars, NEW p \in Procs, Step(p), ~LoginCreate(p)
  PROVE  RowsWane
  <1> SUFFICES ASSUME NEW s \in Sessions, sess'[s].status = "ACTIVE"
               PROVE  /\ sess[s].status = "ACTIVE"
                      /\ sess'[s].user = sess[s].user
                      /\ sess'[s].roles = sess[s].roles
    BY DEF RowsWane
  <1>1. CASE sess[s].status # "NONE"
    <2>1. sess[s].status \in Status
      BY DEF SessionInv, TypeOK, SessRow
    <2> QED
      BY <1>1, <2>1, RowsFixed DEF Status
  <1>2. CASE sess[s].status = "NONE"
    <2>1. sess \in [Sessions -> SessRow] /\ proc[p].sid \in Sessions
          /\ \A t \in proc[p].todo : t.sid \in Sessions
      BY ProcOK DEF SessionInv, TypeOK, Goroutine, Found
    <2>2. ASSUME NEW x \in Sessions, sess' = [sess EXCEPT ![x].status = "INVALIDATED"]
          PROVE  sess'[s].status # "ACTIVE"
      BY <1>2, <2>1, <2>2 DEF SessRow
    <2>3. CASE sess' = sess
      BY <1>2, <2>3
    <2>4. CASE sess' # sess
      <3>1. SwitchUpdate(p) \/ LogoutInvalidate(p) \/ InvalidateOne(p)
        BY <2>4 DEF Step, ReadOwners, Populate, SwitchValidate, SwitchReadRoles, CurrentRedis,
           CurrentHitDb, CurrentHitOwners, CurrentMissDb, CurrentMissOwners,
           HealRead, HealWrite, RefreshSessions, RefreshOwners, RefreshWrite,
           RefreshDone, InvalidateFind, InvalidateDbDone, ClearOne, ClearDone,
           MutateRoleRow, KeepRoleRow
      <3>2. CASE SwitchUpdate(p)
        <4>1. sess' = [sess EXCEPT ![proc[p].sid].wh = proc[p].wh]
          BY <2>4, <3>2 DEF SwitchUpdate
        <4> QED
          BY <1>2, <2>1, <4>1 DEF SessRow
      <3>3. CASE LogoutInvalidate(p) \/ InvalidateOne(p)
        BY <2>1, <2>2, <2>4, <3>3 DEF LogoutInvalidate, InvalidateOne
      <3> QED
        BY <3>1, <3>2, <3>3
    <2> QED
      BY <2>3, <2>4
  <1> QED
    BY <1>1, <1>2

\* Where a refresh and an invalidation go.
LEMMA WalkPlaces ==
  ASSUME SessionInv, NEW p \in Procs,
         \/ RefreshSessions(p) \/ RefreshOwners(p) \/ RefreshWrite(p) \/ RefreshDone(p)
         \/ InvalidateFind(p) \/ InvalidateOne(p) \/ InvalidateDbDone(p)
         \/ ClearOne(p) \/ ClearDone(p)
  PROVE  proc'[p].pc \in {"idle", "rfOwners", "rfWrite", "rfClear", "invFind", "invDb", "invClear"}
  <1>1. proc[p] \in Goroutine /\ proc \in [Procs -> Goroutine]
    BY ProcOK, ProcType
  <1>2. CASE RefreshSessions(p)
    <2>1. CASE Become(p, [proc[p] EXCEPT !.todo = FindActiveByUserId(proc[p].user),
                             !.pc = "rfOwners"])
      BY <1>1, <2>1 DEF Become, Goroutine
    <2>2. CASE Become(p, [proc[p] EXCEPT !.err = TRUE, !.pc = "rfOwners"])
      BY <1>1, <2>2 DEF Become, Goroutine
    <2> QED
      BY <1>2, <2>1, <2>2 DEF RefreshSessions
  <1>3. CASE RefreshOwners(p)
    <2>1. CASE Become(p, [proc[p] EXCEPT !.owners = userOwners[proc[p].user],
                             !.pc = "rfWrite"])
      BY <1>1, <2>1 DEF Become, Goroutine
    <2>2. CASE Become(p, [proc[p] EXCEPT !.clear = {t.sid : t \in proc[p].todo},
                             !.todo = {}, !.err = TRUE, !.pc = "rfClear"])
      BY <1>1, <2>2 DEF Become, Goroutine
    <2> QED
      BY <1>3, <2>1, <2>2, InvalidateIs DEF RefreshOwners
  <1>4. CASE RefreshWrite(p)
    <2>1. PICK t \in proc[p].todo :
             Become(p, [proc[p] EXCEPT !.todo = @ \ {t}, !.err = @ \/ faults' # faults])
      BY <1>4 DEF RefreshWrite
    <2> QED
      BY <1>1, <1>4, <2>1 DEF RefreshWrite, At, Become, Goroutine
  <1>5. CASE RefreshDone(p) \/ InvalidateDbDone(p) \/ ClearDone(p)
    BY <1>5, GotoIs, InvalidateIs, ReturnIs DEF RefreshDone, InvalidateDbDone, ClearDone
  <1>6. CASE InvalidateFind(p)
    <2>1. CASE Become(p, [proc[p] EXCEPT !.todo = FindActiveByUserId(proc[p].user),
                 !.clear = {t.sid : t \in FindActiveByUserId(proc[p].user)}, !.pc = "invDb"])
      BY <1>1, <2>1 DEF Become, Goroutine
    <2> QED
      BY <1>6, <2>1, ReturnIs DEF InvalidateFind
  <1>7. CASE InvalidateOne(p)
    <2>1. PICK t \in proc[p].todo : Become(p, [proc[p] EXCEPT !.todo = @ \ {t}])
      BY <1>7 DEF InvalidateOne
    <2> QED
      BY <1>1, <1>7, <2>1 DEF InvalidateOne, At, Become, Goroutine
  <1>8. CASE ClearOne(p)
    <2>1. PICK s \in proc[p].clear : Become(p, [proc[p] EXCEPT !.clear = @ \ {s}])
      BY <1>8 DEF ClearOne
    <2> QED
      BY <1>1, <1>8, <2>1 DEF ClearOne, Become, Goroutine
  <1> QED
    BY <1>2, <1>3, <1>4, <1>5, <1>6, <1>7, <1>8

\* What a step leaves for a session that existed, when it keeps the role set or
\* takes it from one that was told.
LEMMA ToldAfter ==
  ASSUME RolesCallsWork, SessionInv, RolesInv, [Next]_vars, NEW s \in Sessions,
         sess[s].status # "NONE", NEW rs, NEW xs, Told(rs, s), xs = rs
  PROVE  /\ sess'[s].status = "ACTIVE" =>
               \/ /\ xs \subseteq userRoles'[sess'[s].user]
                  /\ \A r \in userRoles'[sess'[s].user] \ xs : roleStatus'[r] # "FRESH"
               \/ \E p \in Procs : Revoking(proc[p], s)'
  BY ToldStays DEF Told, RolesOf

\* Rows: Create writes the roles the login has read, nothing else writes them.
LEMMA RolesRows ==
  ASSUME RolesCallsWork, SessionInv, RolesInv, [Next]_vars, NEW s \in Sessions
  PROVE  Told(sess[s].roles, s)'
  <1>1. CASE sess[s].status # "NONE"
    <2>1. sess'[s].roles = sess[s].roles
      BY <1>1, RowsFixed
    <2>2. Told(sess[s].roles, s)
      BY DEF RolesInv
    <2> QED
      BY <1>1, <2>1, <2>2, ToldAfter DEF Told, RolesOf
  <1>2. CASE sess[s].status = "NONE" /\ sess'[s].status = "ACTIVE"
    <2>1. PICK p \in Procs : LoginCreate(p)
      <3>1. ASSUME NEW p \in Procs, Step(p)
            PROVE  LoginCreate(p)
        BY <1>2, <3>1, RowsDoWane DEF RowsWane
      <3>2. \E p \in Procs : Step(p)
        BY <1>2 DEF Next, Request, LoginResolveRoles, MutateOwners, MutateRoles, KeepRoles,
           Deactivate, SwitchContext, Logout, GetCurrentSession, Arrive,
           ExpireOnRequest, UpdateRole, Tick, vars, SessionInv, TypeOK
      <3> QED
        BY <3>1, <3>2
    <2>2. /\ proc[p].pc = "loginCreate" /\ UNCHANGED <<userRoles, roleStatus>>
          /\ RolesOf(proc[p].roles, proc[p].user)
      BY <2>1 DEF LoginCreate, At, RolesInv, RolesHeld
    <2>3. sess' = [sess EXCEPT ![proc[p].sid] =
                [status |-> "ACTIVE", user |-> proc[p].user,
                 wh |-> NoWarehouse, roles |-> proc[p].roles,
                 exp |-> clock + Timeout]]
      BY <1>2, <2>1 DEF LoginCreate
    <2>4. sess'[s].roles = proc[p].roles /\ sess'[s].user = proc[p].user
      BY <1>2, <2>3 DEF SessionInv, TypeOK
    <2> QED
      BY <2>2, <2>4 DEF Told, RolesOf
  <1> QED
    BY <1>1, <1>2 DEF Told

\* Documents: what a step writes is what its goroutine holds, or the row's.
LEMMA DocumentRoles ==
  ASSUME SessionInv, NEW p \in Procs, Step(p), NEW s \in Sessions, cache'[s] # Gone
  PROVE  \/ cache'[s] = cache[s]
         \/ /\ sess[s].status # "NONE" /\ cache'[s].roles = sess[s].roles
         \/ /\ sess[s].status # "NONE" /\ cache'[s].roles = proc[p].roles
            /\ s = proc[p].sid /\ proc[p].pc \in {"populate", "healWrite"}
  <1>1. /\ cache \in [Sessions -> Entry] /\ proc[p].sid \in Sessions
        /\ GoroutineOK(proc[p])
        /\ \A t \in proc[p].todo : t.sid \in Sessions /\ sess[t.sid].status # "NONE"
        /\ proc[p].clear \subseteq Sessions
    BY ProcOK DEF SessionInv, TypeOK, Goroutine, GoroutineOK, Found
  <1>2. ASSUME NEW x \in Sessions, DropEntry(p, x) \/ FailClosed(p, x)
        PROVE  cache'[s] = cache[s]
    BY <1>1, <1>2 DEF DropEntry, FailClosed, DeleteCache, SetCache
  <1>3. ASSUME NEW x \in Sessions, NEW e \in Entry, Rewrite(p, x, e)
        PROVE  cache'[s] = cache[s] \/ (s = x /\ cache'[s].roles = e.roles)
    <2> DEFINE left == clock + (sess[x].exp - proc[p].now)
               f == [e EXCEPT !.exp = left]
    <2>1. CASE SetCache(x, f)
      <3>1. f.roles = e.roles
        BY DEF Entry
      <3>2. cache'[x] = f /\ (s # x => cache'[s] = cache[s])
        BY <1>1, <2>1 DEF SetCache
      <3> HIDE DEF f
      <3> QED
        BY <3>1, <3>2
    <2> QED
      BY <1>2, <1>3, <2>1 DEF Rewrite
  <1>4. CASE Populate(p)
    <2>1. proc[p].pc = "populate" /\ sess[proc[p].sid].status # "NONE"
      BY <1>1, <1>4 DEF Populate, At, GoroutineOK, HasRow
    <2>2. CASE SetCache(proc[p].sid, [user |-> proc[p].user, wh |-> proc[p].wh,
                          owners |-> proc[p].owners, roles |-> proc[p].roles,
                          exp |-> clock + Timeout])
      BY <1>1, <2>1, <2>2 DEF SetCache
    <2> QED
      BY <1>1, <1>2, <1>4, <2>2 DEF Populate
  <1>5. CASE HealWrite(p)
    <2>1. proc[p].pc = "healWrite" /\ sess[proc[p].sid].status # "NONE"
      BY <1>1, <1>5 DEF HealWrite, At, GoroutineOK, HasRow
    <2> DEFINE e == [user |-> proc[p].user, wh |-> proc[p].wh,
                     owners |-> proc[p].owners, roles |-> proc[p].roles, exp |-> 0]
    <2>2. e \in Entry /\ e.roles = proc[p].roles
      BY ProcOK DEF Entry, Goroutine
    <2>3. Rewrite(p, proc[p].sid, e)
      BY <1>5 DEF HealWrite
    <2> HIDE DEF e
    <2> QED
      BY <1>1, <1>3, <2>1, <2>2, <2>3
  <1>6. CASE RefreshWrite(p)
    <2>1. PICK t \in proc[p].todo :
             \/ Rewrite(p, t.sid, [user |-> sess[t.sid].user, wh |-> t.wh,
                                   owners |-> proc[p].owners,
                                   roles |-> sess[t.sid].roles, exp |-> 0])
             \/ UNCHANGED cache
      BY <1>6 DEF RefreshWrite
    <2> DEFINE e == [user |-> sess[t.sid].user, wh |-> t.wh, owners |-> proc[p].owners,
                     roles |-> sess[t.sid].roles, exp |-> 0]
    <2>2. e \in Entry /\ e.roles = sess[t.sid].roles
      BY <1>1, ProcOK DEF Entry, Goroutine, Found, SessionInv, TypeOK, SessRow
    <2>3. Rewrite(p, t.sid, e) \/ UNCHANGED cache
      BY <2>1
    <2> HIDE DEF e
    <2> QED
      BY <1>1, <1>3, <2>2, <2>3
  <1>7. CASE CurrentHitDb(p) \/ CurrentHitOwners(p) \/ CurrentMissDb(p)
             \/ CurrentMissOwners(p) \/ HealRead(p) \/ ClearOne(p)
    BY <1>1, <1>2, <1>7 DEF CurrentHitDb, CurrentHitOwners, CurrentMissDb,
       CurrentMissOwners, HealRead, ClearOne
  <1> QED
    BY <1>4, <1>5, <1>6, <1>7 DEF Step, LoginCreate, ReadOwners, SwitchValidate,
       SwitchUpdate, SwitchReadRoles, LogoutInvalidate, CurrentRedis, RefreshSessions,
       RefreshOwners, RefreshDone, InvalidateFind, InvalidateOne, InvalidateDbDone,
       ClearDone, MutateRoleRow, KeepRoleRow

LEMMA RolesDocuments ==
  ASSUME RolesCallsWork, SessionInv, RolesInv, [Next]_vars, NEW s \in Sessions,
         cache'[s] # Gone
  PROVE  Told(cache[s].roles, s)'
  <1>1. ASSUME cache'[s] = cache[s]
        PROVE  Told(cache[s].roles, s)'
    <2>1. sess[s].status # "NONE" /\ Told(cache[s].roles, s)
      BY <1>1 DEF SessionInv, CacheBelongsToSession, RolesInv
    <2> QED
      BY <1>1, <2>1, ToldAfter DEF Told, RolesOf
  <1>2. ASSUME NEW p \in Procs, Step(p)
        PROVE  Told(cache[s].roles, s)'
    <2>1. CASE sess[s].status # "NONE" /\ cache'[s].roles = sess[s].roles
      <3>1. Told(sess[s].roles, s)
        BY DEF RolesInv
      <3> QED
        BY <2>1, <3>1, ToldAfter DEF Told, RolesOf
    <2>2. CASE /\ sess[s].status # "NONE" /\ cache'[s].roles = proc[p].roles
               /\ s = proc[p].sid /\ proc[p].pc \in {"populate", "healWrite"}
      <3>1. Told(proc[p].roles, s)
        BY <2>2 DEF RolesInv, RolesHeld, HoldsRoles
      <3> QED
        BY <2>2, <3>1, ToldAfter DEF Told, RolesOf
    <2> QED
      BY <1>1, <1>2, <2>1, <2>2, DocumentRoles
  <1>3. CASE ~\E p \in Procs : Step(p)
    <2>1. cache'[s] = cache[s]
      BY <1>3 DEF Next, Request, LoginResolveRoles, MutateOwners, MutateRoles, KeepRoles,
         Deactivate, SwitchContext, Logout, GetCurrentSession, Arrive,
         ExpireOnRequest, UpdateRole, Tick, vars, SessionInv, TypeOK
    <2> QED
      BY <1>1, <2>1
  <1> QED
    BY <1>2, <1>3

\* Goroutines: what the one that steps holds after is what it held, what it has
\* read from the row or the document, or the assignments of now.
LEMMA RolesHolder ==
  ASSUME RolesCallsWork, SessionInv, RolesInv, NEW p \in Procs, Step(p)
  PROVE  /\ proc'[p].pc \in {"readOwners", "readRoles"} => proc'[p].op \in {"login", "switch"}
         /\ proc'[p].pc \in {"swValidate", "swUpdate"} => proc'[p].op = "switch"
         /\ proc'[p].pc = "roleRows" => proc'[p].op = "role"
         /\ proc'[p].pc = "keepRows" => proc'[p].roles = userRoles'[proc'[p].user]
         /\ proc'[p].pc \in HoldsRoles \/ (proc'[p].pc = "readOwners" /\ proc'[p].op = "login") =>
              \/ LoginCreate(p)
              \/ /\ proc[p].pc \in HasRow /\ proc'[p].sid = proc[p].sid
                 /\ Told(proc'[p].roles, proc[p].sid)
  <1>1. /\ proc[p] \in Goroutine /\ GoroutineOK(proc[p]) /\ RolesHeld(proc[p])
        /\ proc \in [Procs -> Goroutine] /\ proc[p].sid \in Sessions
        /\ proc'[p].pc = "idle" \/ (proc'[p].op = proc[p].op /\ proc'[p].sid = proc[p].sid)
    BY ProcOK, ProcType, Onwards DEF RolesInv, GoesOn, Goroutine
  <1>2. CASE LoginCreate(p)
    <2>1. proc[p].pc = "loginCreate" /\ proc'[p].pc \in {"idle", "readOwners"}
      BY <1>2, GotoIs, ReturnIs DEF LoginCreate, At
    <2> QED
      BY <1>1, <1>2, <2>1 DEF HoldsRoles, RolesHeld
  <1>3. CASE ReadOwners(p)
    <2>1. /\ proc[p].pc = "readOwners"
          /\ proc'[p].pc = IF proc[p].op = "login" THEN "populate" ELSE "readRoles"
          /\ proc'[p].roles = proc[p].roles
      BY <1>1, <1>3 DEF ReadOwners, At, Become, Goroutine
    <2> QED
      BY <1>1, <2>1 DEF HoldsRoles, RolesHeld, HasRow
  <1>4. CASE SwitchReadRoles(p)
    <2>1. PICK rs \in SUBSET ActiveRoles(proc[p].user) :
             /\ IF rs = ActiveRoles(proc[p].user) THEN Succeeds ELSE Fails(p)
             /\ Become(p, [proc[p] EXCEPT !.roles = rs, !.pc = "populate"])
      BY <1>4 DEF SwitchReadRoles
    <2>2. proc[p].pc = "readRoles" /\ proc[p].user = sess[proc[p].sid].user
      BY <1>1, <1>4 DEF SwitchReadRoles, At, GoroutineOK, HasUser, HasRow
    <2>3. rs = ActiveRoles(proc[p].user)
      BY <1>1, <2>1, <2>2 DEF RolesHeld, Fails, CallsFail, RolesCallsWork
    <2>4. proc'[p].pc = "populate" /\ proc'[p].roles = rs
      BY <1>1, <2>1 DEF Become, Goroutine
    <2>5. Told(rs, proc[p].sid)
      BY <2>2, <2>3, ActiveRolesOf DEF Told
    <2> QED
      BY <1>1, <2>2, <2>4, <2>5 DEF HasRow
  <1>5. CASE SwitchValidate(p)
    <2>1. proc[p].pc = "swValidate" /\ proc'[p].pc \in {"idle", "swUpdate"}
      <3>1. ASSUME NEW w \in Warehouses,
                   Become(p, [proc[p] EXCEPT !.pc = "swUpdate",
                                !.user = sess[proc[p].sid].user, !.wh = w])
            PROVE  proc'[p].pc = "swUpdate"
        BY <1>1, <3>1 DEF Become, Goroutine
      <3> QED
        BY <1>5, <3>1, ReturnIs DEF SwitchValidate, At
    <2> QED
      BY <1>1, <2>1 DEF HoldsRoles, RolesHeld
  <1>6. CASE SwitchUpdate(p)
    <2>1. proc[p].pc = "swUpdate" /\ proc'[p].pc \in {"idle", "readOwners"}
      BY <1>6, GotoIs, ReturnIs DEF SwitchUpdate, At
    <2> QED
      BY <1>1, <2>1 DEF HoldsRoles, RolesHeld
  <1>7. CASE Populate(p) \/ LogoutInvalidate(p) \/ HealWrite(p)
    BY <1>7, ReturnIs DEF Populate, LogoutInvalidate, HealWrite, HoldsRoles
  <1>8. CASE CurrentRedis(p)
    <2> DEFINE e == cache[proc[p].sid]
    <2>1. proc[p].pc = "gcRedis"
      BY <1>8 DEF CurrentRedis, At
    <2>2. CASE e # Gone /\ Become(p, [proc[p] EXCEPT !.pc = "gcHitDb", !.user = e.user,
                             !.wh = e.wh, !.owners = e.owners, !.roles = e.roles])
      <3>1. proc'[p].pc = "gcHitDb" /\ proc'[p].roles = e.roles
        BY <1>1, <2>2 DEF Become, Goroutine
      <3>2. Told(e.roles, proc[p].sid)
        BY <1>1, <2>2 DEF RolesInv
      <3> QED
        BY <1>1, <2>1, <3>1, <3>2 DEF HasRow
    <2>3. CASE Goto(p, "gcMissDb")
      BY <2>3, GotoIs DEF HoldsRoles
    <2> QED
      BY <1>8, <2>2, <2>3 DEF CurrentRedis
  <1>9. CASE CurrentMissDb(p)
    <2> DEFINE row == sess[proc[p].sid]
    <2>1. proc[p].pc = "gcMissDb"
      BY <1>9 DEF CurrentMissDb, At
    <2>2. CASE Become(p, [proc[p] EXCEPT !.pc = "gcMissOwners", !.user = row.user,
                             !.wh = row.wh, !.roles = row.roles])
      <3>1. proc'[p].pc = "gcMissOwners" /\ proc'[p].roles = row.roles
        BY <1>1, <2>2 DEF Become, Goroutine
      <3>2. Told(row.roles, proc[p].sid)
        BY <1>1 DEF RolesInv
      <3> QED
        BY <1>1, <2>1, <3>1, <3>2 DEF HasRow
    <2>3. CASE Return(p)
      BY <2>3, ReturnIs DEF HoldsRoles
    <2> QED
      BY <1>9, <2>2, <2>3 DEF CurrentMissDb
  <1>10. CASE CurrentHitDb(p) \/ CurrentHitOwners(p) \/ CurrentMissOwners(p) \/ HealRead(p)
    <2>1. proc[p].pc \in HoldsRoles /\ proc[p].pc \in HasRow
      BY <1>10, Places DEF At, HoldsRoles, HasRow
    <2>2. \/ proc'[p].pc = "idle"
          \/ /\ proc'[p].pc \in HoldsRoles \ {"populate"}
             /\ proc'[p].roles = proc[p].roles
      <3>1. CASE Become(p, [proc[p] EXCEPT !.owners = userOwners[proc[p].user],
                               !.now = clock, !.pc = "healRead"])
        BY <1>1, <3>1 DEF Become, Goroutine, HoldsRoles
      <3> QED
        BY <1>10, <3>1, GotoIs, ReturnIs DEF CurrentHitDb, CurrentHitOwners,
           CurrentMissOwners, HealRead, HoldsRoles
    <2> QED
      BY <1>1, <2>1, <2>2 DEF HoldsRoles, RolesHeld
  <1>11. CASE MutateRoleRow(p)
    BY <1>1, <1>11, RoleRowGoes DEF HoldsRoles, RolesHeld
  <1>12. CASE \/ RefreshSessions(p) \/ RefreshOwners(p) \/ RefreshWrite(p) \/ RefreshDone(p)
              \/ InvalidateFind(p) \/ InvalidateOne(p) \/ InvalidateDbDone(p)
              \/ ClearOne(p) \/ ClearDone(p)
    <2>1. proc'[p].pc \in {"idle", "rfOwners", "rfWrite", "rfClear", "invFind", "invDb", "invClear"}
      BY <1>12, WalkPlaces
    <2> QED
      BY <2>1 DEF HoldsRoles
  <1>13. CASE KeepRoleRow(p)
    <2>1. proc[p].pc = "keepRows" /\ UNCHANGED userRoles
      BY <1>1, <1>13, KeepRowGoes DEF RolesHeld
    <2>2. proc'[p].pc = "idle" \/ proc' = proc
      BY <1>13, KeepRowGoes, ReturnIs
    <2> QED
      BY <1>1, <2>1, <2>2 DEF HoldsRoles, RolesHeld
  <1> QED
    BY <1>2, <1>3, <1>4, <1>5, <1>6, <1>7, <1>8, <1>9, <1>10, <1>11, <1>12, <1>13
       DEF Step

LEMMA RolesHeldNext ==
  ASSUME RolesCallsWork, SessionInv, RolesInv, [Next]_vars, [RolesSteady]_vars,
         NEW q \in Procs
  PROVE  RolesHeld(proc[q])'
  <1>1. proc[q] \in Goroutine /\ GoroutineOK(proc[q]) /\ RolesHeld(proc[q])
    BY ProcOK DEF RolesInv
  <1>2. proc[q].pc \in HasRow => proc[q].sid \in Sessions /\ sess[proc[q].sid].status # "NONE"
    BY <1>1 DEF GoroutineOK, Goroutine
  <1>3. CASE proc'[q] = proc[q]
    <2>1. proc[q].pc = "loginCreate" => RolesOf(proc[q].roles, proc[q].user)'
      <3> SUFFICES ASSUME proc[q].pc = "loginCreate"
                   PROVE  RolesOf(proc[q].roles, proc[q].user)'
        OBVIOUS
      <3>1. proc[q].user \in Users /\ RolesOf(proc[q].roles, proc[q].user)
        BY <1>1 DEF GoroutineOK, RolesHeld
      <3>2. userRoles'[proc[q].user] = userRoles[proc[q].user]
        BY DEF RolesSteady, At, vars
      <3> QED
        BY <1>3, <3>1, <3>2, RolesOfStays DEF RolesOf
    <2>2. proc[q].pc \in HoldsRoles \/ (proc[q].pc = "readOwners" /\ proc[q].op = "login") =>
             Told(proc[q].roles, proc[q].sid)'
      <3> SUFFICES ASSUME proc[q].pc \in HoldsRoles \/ (proc[q].pc = "readOwners" /\ proc[q].op = "login")
                   PROVE  Told(proc[q].roles, proc[q].sid)'
        OBVIOUS
      <3>1. /\ proc[q].sid \in Sessions /\ sess[proc[q].sid].status # "NONE"
            /\ Told(proc[q].roles, proc[q].sid)
        BY <1>1, <1>2 DEF HoldsRoles, HasRow, RolesHeld
      <3> QED
        BY <1>3, <3>1, ToldAfter DEF Told, RolesOf, Revoking
    <2>3. proc[q].pc = "keepRows" => proc[q].roles = userRoles'[proc[q].user]
      <3>1. proc[q].pc = "keepRows" =>
               \/ userRoles'[proc[q].user] = userRoles[proc[q].user]
               \/ KeepRoleRow(q)
        BY DEF RolesSteady, At, vars
      <3> QED
        BY <1>1, <3>1, KeepRowGoes DEF RolesHeld
    <2> QED
      BY <1>1, <1>3, <2>1, <2>2, <2>3 DEF RolesHeld
  <1>4. CASE Step(q)
    <2>1. proc'[q].pc # "loginCreate"
      BY <1>4, Onwards DEF GoesOn
    <2>2. ASSUME proc'[q].pc \in HoldsRoles \/ (proc'[q].pc = "readOwners" /\ proc'[q].op = "login")
          PROVE  Told(proc[q].roles, proc[q].sid)'
      <3>1. CASE LoginCreate(q)
        <4>1. /\ proc[q].pc = "loginCreate" /\ proc[q].sid \in Sessions
              /\ UNCHANGED <<userRoles, roleStatus>>
              /\ RolesOf(proc[q].roles, proc[q].user)
          BY <1>1, <3>1 DEF LoginCreate, At, RolesHeld, Goroutine
        <4>2. CASE Return(q)
          BY <2>2, <4>2, ReturnIs DEF HoldsRoles
        <4>3. CASE /\ Goto(q, "readOwners")
                   /\ sess' = [sess EXCEPT ![proc[q].sid] =
                         [status |-> "ACTIVE", user |-> proc[q].user,
                          wh |-> NoWarehouse, roles |-> proc[q].roles,
                          exp |-> clock + Timeout]]
          <5>1. /\ proc'[q].roles = proc[q].roles /\ proc'[q].sid = proc[q].sid
                /\ sess'[proc[q].sid].user = proc[q].user
            BY <4>1, <4>3, GotoIs DEF SessionInv, TypeOK
          <5> QED
            BY <4>1, <5>1 DEF Told, RolesOf
        <4> QED
          BY <3>1, <4>2, <4>3 DEF LoginCreate
      <3>2. CASE ~LoginCreate(q)
        <4>1. /\ proc[q].pc \in HasRow /\ proc'[q].sid = proc[q].sid
              /\ Told(proc'[q].roles, proc[q].sid)
          BY <1>4, <2>2, <3>2, RolesHolder
        <4> QED
          BY <1>2, <4>1, ToldAfter DEF Told, RolesOf, Revoking
      <3> QED
        BY <3>1, <3>2
    <2> QED
      BY <1>4, <2>1, <2>2, RolesHolder DEF RolesHeld
  <1>5. ASSUME Request(q)
        PROVE  RolesHeld(proc[q])'
    <2>1. ASSUME NEW u \in Users, LoginResolveRoles(q, u)
          PROVE  RolesHeld(proc[q])'
      <3>1. /\ proc'[q].pc = "loginCreate" /\ proc'[q].op = "login" /\ proc'[q].user = u
            /\ proc'[q].roles = ActiveRoles(u) /\ UNCHANGED <<userRoles, roleStatus>>
        BY <2>1, Begins DEF LoginResolveRoles, RolesCallsWork
      <3>2. RolesOf(ActiveRoles(u), u)
        BY ActiveRolesOf
      <3>3. RolesOf(proc[q].roles, proc[q].user)'
        BY <3>1, <3>2 DEF RolesOf
      <3> QED
        BY <3>1, <3>3 DEF RolesHeld, HoldsRoles
    <2>2. CASE ~\E u \in Users : LoginResolveRoles(q, u)
      <3>1. \/ proc'[q].pc \in {"rfSessions", "invFind", "loInvalidate", "gcRedis"}
            \/ proc'[q].pc = "roleRows" /\ proc'[q].op = "role"
            \/ proc'[q].pc = "swValidate" /\ proc'[q].op = "switch"
            \/ /\ proc'[q].pc = "keepRows"
               /\ proc'[q].roles = userRoles'[proc'[q].user]
        BY <1>5, <2>2, Begins DEF Request, KeepRoles
      <3> QED
        BY <3>1 DEF RolesHeld, HoldsRoles
    <2> QED
      BY <2>1, <2>2
  <1>6. CASE ~Step(q) /\ ~Request(q)
    <2>1. proc'[q] = proc[q]
      BY <1>6, BecomeOne DEF Next, ExpireOnRequest, UpdateRole, Tick, vars
    <2> QED
      BY <1>3, <2>1
  <1> QED
    BY <1>4, <1>5, <1>6

LEMMA RolesNext ==
  ASSUME RolesCallsWork, SessionInv, RolesInv, [Next]_vars, [RolesSteady]_vars
  PROVE  RolesInv'
  BY RolesRows, RolesDocuments, RolesHeldNext DEF RolesInv

LEMMA RolesInvInit == Init => RolesInv
  <1> SUFFICES ASSUME Init PROVE RolesInv
    OBVIOUS
  <1>1. \A p \in Procs : proc[p].pc = "idle"
    BY DEF Init, Idle
  <1> QED
    BY <1>1 DEF Init, RolesInv, Told, RolesHeld, HoldsRoles, NoRow

\* The ACTIVE rows of a user, and the documents of these sessions, carry the roles
\* assigned to the user, those aside whose status was changed.
RolesAgreeFor(u) ==
    \A s \in Sessions : sess[s].user = u /\ sess[s].status = "ACTIVE" =>
        /\ RolesOf(sess[s].roles, u)
        /\ cache[s] # Gone => RolesOf(cache[s].roles, u)

\* When no handler of a user runs, a session of theirs that is ACTIVE carries, in
\* its row and in the document the gate reads, no role that was taken from the user
\* and every role the user was given (UserRole.Save, Delete and Update,
\* InvalidateAllUserSessions), whatever else overlaps, as long as no change of the
\* user's assignments commits between the two calls of a login, or between what
\* UserProvisioning.Update reads and what UserRole.Update writes for it when the
\* list it was given is the one it read.  Roles whose status Role.Update or
\* Role.Delete changed are excepted: a session that has such a role keeps it, one
\* that lacks it stays without, and nothing tells either.  Calls of logins, switches
\* and role changes succeed; those of any other handler may fail.
THEOREM RolesAgreeAtRest ==
  ASSUME RolesCallsWork
  PROVE  Spec /\ [][RolesSteady]_vars => [](\A u \in Users : AtRest(u) => RolesAgreeFor(u))
  <1>1. Init => RolesInv
    BY RolesInvInit
  <1>2. SessionInv /\ RolesInv /\ [Next]_vars /\ [RolesSteady]_vars => RolesInv'
    BY RolesNext
  <1>3. RolesInv => \A u \in Users : AtRest(u) => RolesAgreeFor(u)
    <2> SUFFICES ASSUME RolesInv, NEW u \in Users, AtRest(u) PROVE RolesAgreeFor(u)
      OBVIOUS
    <2>1. ASSUME NEW s \in Sessions, sess[s].user = u, NEW p \in Procs
          PROVE  ~Revoking(proc[p], s)
      BY <2>1 DEF AtRest, At, WorksFor, Revoking, HasRow
    <2> QED
      BY <2>1 DEF RolesInv, Told, RolesAgreeFor
  <1> QED
    BY <1>1, <1>2, <1>3, SessionInvariant, PTL DEF Spec

\* At rest as a whole, so are all users, those of the rows among them.
THEOREM RolesAgree ==
  ASSUME RolesCallsWork
  PROVE  Spec /\ [][RolesSteady]_vars => []RolesAgreeWhenQuiet
  <1>1. SessionInv /\ (\A u \in Users : AtRest(u) => RolesAgreeFor(u)) => RolesAgreeWhenQuiet
    BY DEF RolesAgreeWhenQuiet, Quiet, AtRest, RolesAgreeFor, SessionInv,
       RowsHaveUsers, CacheBelongsToSession
  <1> QED
    BY <1>1, RolesAgreeAtRest, SessionInvariant, PTL

-----------------------------------------------------------------------------
(* The warehouse a user switches to.                                         *)

\* A switch has written the row and is about to write the document.
Moving(g, s) ==
    /\ g.op = "switch" /\ g.sid = s
    /\ g.pc \in {"readOwners", "readRoles", "populate"}

\* A document names its row's warehouse, or is about to be written by a switch.
WarehouseKept(s) ==
    cache[s] # Gone =>
        \/ cache[s].wh = sess[s].wh
        \/ \E p \in Procs : Moving(proc[p], s)

\* The places where a goroutine holds the warehouse of its row.
HoldsWarehouse == {"readOwners", "readRoles", "populate", "gcHitDb", "gcHitOwners",
                   "gcMissOwners", "healRead", "healWrite"}

\* What a goroutine is going to write is the warehouse of the row it works for.
WarehouseHeld(g) ==
    /\ g.pc \in {"swValidate", "swUpdate"} => g.op = "switch"
    /\ g.pc = "loginCreate" => g.wh = NoWarehouse
    /\ g.pc \in HoldsWarehouse => g.wh = sess[g.sid].wh
    /\ g.pc \in {"rfOwners", "rfWrite"} => \A t \in g.todo : t.wh = sess[t.sid].wh

\* The inductive invariant: documents, and what goroutines will write to them.
WarehouseInv ==
    /\ \A s \in Sessions : WarehouseKept(s)
    /\ \A p \in Procs : WarehouseHeld(proc[p])

\* Two calls of a switch that fail in a row would leave the old document.
SwitchDrops == "switch" \notin FaultyOps \/ MaxFaults <= 1

\* A switch is alone with its session while the document is behind the row: no
\* other goroutine has read the row's warehouse, or the document's, that it may
\* still write.
Carries(g, s) ==
    \/ g.pc \in HoldsWarehouse /\ g.sid = s
    \/ g.pc \in {"rfOwners", "rfWrite"} /\ Among(g.todo, s)

SwitchesApart ==
    \A p, q \in Procs, s \in Sessions :
        p # q /\ Moving(proc[p], s) => ~Carries(proc[q], s)

\* A goroutine other than p is about to write the document of s.
MovedByOther(p, s) == \E q \in Procs \ {p} : Moving(proc[q], s)

LEMMA WarehouseBefore ==
  ASSUME WarehouseInv, NEW p \in Procs, NEW s \in Sessions, cache[s] # Gone,
         ~MovedByOther(p, s)
  PROVE  cache[s].wh = sess[s].wh \/ Moving(proc[p], s)
  BY DEF WarehouseInv, WarehouseKept, MovedByOther

\* After a step of p the documents no other goroutine is about to write name
\* their rows' warehouses, or p is about to write them.
WarehouseMine(p) ==
    /\ \A s \in Sessions : cache'[s] # Gone /\ ~MovedByOther(p, s) =>
          cache'[s].wh = sess'[s].wh \/ Moving(proc[p], s)'
    /\ WarehouseHeld(proc[p])'

\* The rows keep their users and warehouses, and the goroutine goes where it
\* holds one, or none, with the documents as they are, deleted, or written with it.
LEMMA WarehouseCalm ==
  ASSUME SessionInv, WarehouseInv, NEW p \in Procs, Step(p),
         \A s \in Sessions : sess'[s].wh = sess[s].wh,
         ~(proc[p].op = "switch" /\ proc[p].pc \in {"readOwners", "readRoles", "populate"}),
         \/ UNCHANGED cache
         \/ \E s \in Sessions : DeleteCache(s)
         \/ \E s \in Sessions : \E e : SetCache(s, e) /\ e.wh = sess[s].wh,
         WarehouseHeld(proc[p])'
  PROVE  WarehouseMine(p)
  <1>1. \A s \in Sessions : cache[s] # Gone /\ ~MovedByOther(p, s) =>
           cache[s].wh = sess[s].wh
    BY WarehouseBefore DEF Moving
  <1>2. \A s \in Sessions : cache'[s] # Gone /\ ~MovedByOther(p, s) =>
           cache'[s].wh = sess[s].wh
    BY <1>1 DEF SessionInv, TypeOK, DeleteCache, SetCache
  <1> QED
    BY <1>2 DEF WarehouseMine

\* The calls that keep the rows and the documents.
LEMMA WarehouseReads ==
  ASSUME SessionInv, WarehouseInv, NEW p \in Procs, Step(p),
         UNCHANGED <<sess, cache>>,
         ~(proc[p].op = "switch" /\ proc[p].pc \in {"readOwners", "readRoles", "populate"}),
         WarehouseHeld(proc[p])'
  PROVE  WarehouseMine(p)
  BY WarehouseCalm

LEMMA WarehouseSession ==
  ASSUME SwitchDrops, SessionInv, WarehouseInv, NEW p \in Procs,
         Step(p),
         \/ LoginCreate(p) \/ ReadOwners(p) \/ Populate(p)
         \/ SwitchValidate(p) \/ SwitchUpdate(p) \/ SwitchReadRoles(p)
         \/ LogoutInvalidate(p)
  PROVE  WarehouseMine(p)
  <1>1. /\ \A x \in Sessions : cache[x] # Gone /\ ~MovedByOther(p, x) =>
              cache[x].wh = sess[x].wh \/ Moving(proc[p], x)
        /\ proc[p] \in Goroutine /\ GoroutineOK(proc[p]) /\ WarehouseHeld(proc[p])
        /\ proc \in [Procs -> Goroutine]
        /\ sess \in [Sessions -> SessRow]
        /\ proc[p].sid \in Sessions
    BY WarehouseBefore, ProcOK, ProcType DEF SessionInv, TypeOK, WarehouseInv, Goroutine
  <1>2. CASE LoginCreate(p)
    <2>1. proc[p].pc = "loginCreate" /\ UNCHANGED cache
      BY <1>2 DEF LoginCreate, At
    <2>2. CASE Return(p) /\ UNCHANGED sess
      BY <2>1, <2>2, ReturnIs, WarehouseReads DEF WarehouseHeld, HoldsWarehouse
    <2>3. CASE /\ Goto(p, "readOwners")
               /\ sess' = [sess EXCEPT ![proc[p].sid] =
                        [status |-> "ACTIVE", user |-> proc[p].user,
                         wh |-> NoWarehouse, roles |-> proc[p].roles,
                         exp |-> clock + Timeout]]
      <3>1. cache[proc[p].sid] = Gone
        BY <1>1, <2>1 DEF GoroutineOK, SessionInv, CacheBelongsToSession
      <3>2. sess'[proc[p].sid].wh = NoWarehouse
        BY <1>1, <2>3
      <3>3. \A s \in Sessions : s # proc[p].sid => sess'[s] = sess[s]
        BY <1>1, <2>3
      <3>4. \A s \in Sessions : cache'[s] # Gone /\ ~MovedByOther(p, s) =>
               cache'[s].wh = sess'[s].wh
        BY <1>1, <2>1, <3>1, <3>3 DEF Moving
      <3>5. WarehouseHeld(proc[p])'
        BY <1>1, <2>1, <2>3, <3>2, GotoIs DEF WarehouseHeld, HoldsWarehouse
      <3> QED
        BY <3>4, <3>5 DEF WarehouseMine
    <2> QED
      BY <1>2, <2>2, <2>3 DEF LoginCreate
  <1>3. CASE ReadOwners(p) \/ SwitchReadRoles(p)
    <2>1. /\ proc[p].pc \in {"readOwners", "readRoles"}
          /\ UNCHANGED <<sess, cache>>
      BY <1>3 DEF ReadOwners, SwitchReadRoles, At
    <2>2. /\ proc'[p].pc \in {"readRoles", "populate"}
          /\ proc'[p].op = proc[p].op /\ proc'[p].sid = proc[p].sid
          /\ proc'[p].wh = proc[p].wh
      <3>1. CASE ReadOwners(p)
        BY <1>1, <3>1 DEF ReadOwners, Become, Goroutine
      <3>2. CASE SwitchReadRoles(p)
        BY <1>1, <3>2 DEF SwitchReadRoles, Become, Goroutine
      <3> QED
        BY <1>3, <3>1, <3>2
    <2>3. WarehouseHeld(proc[p])'
      BY <1>1, <2>1, <2>2 DEF WarehouseHeld, HoldsWarehouse
    <2> QED
      BY <1>1, <2>1, <2>2, <2>3 DEF WarehouseMine, Moving
  <1>4. CASE Populate(p)
    <2>1. /\ proc[p].pc = "populate" /\ UNCHANGED sess /\ proc'[p].pc = "idle"
      BY <1>4, ReturnIs DEF Populate, At
    <2>2. WarehouseHeld(proc[p])'
      BY <2>1 DEF WarehouseHeld, HoldsWarehouse
    <2>3. proc[p].wh = sess[proc[p].sid].wh
      BY <1>1, <2>1 DEF WarehouseHeld, HoldsWarehouse
    <2>4. \A s \in Sessions :
             s # proc[p].sid /\ cache[s] # Gone /\ ~MovedByOther(p, s) =>
                cache[s].wh = sess[s].wh
      BY <1>1 DEF Moving
    <2>5. \/ DeleteCache(proc[p].sid)
          \/ \E e : SetCache(proc[p].sid, e) /\ e.wh = proc[p].wh
          \/ UNCHANGED cache /\ proc[p].op # "switch"
      BY <1>4, SessionAssumption DEF Populate, FailClosed, CallsFail, SwitchDrops, SessionInv, TypeOK
    <2>6. \A s \in Sessions : cache'[s] # Gone /\ ~MovedByOther(p, s) =>
             cache'[s].wh = sess[s].wh
      <3>1. CASE UNCHANGED cache /\ proc[p].op # "switch"
        BY <1>1, <3>1 DEF Moving
      <3>2. CASE DeleteCache(proc[p].sid)
        BY <1>1, <2>4, <3>2 DEF DeleteCache, SetCache, SessionInv, TypeOK
      <3>3. ASSUME NEW e, SetCache(proc[p].sid, e), e.wh = proc[p].wh
            PROVE  \A s \in Sessions : cache'[s] # Gone /\ ~MovedByOther(p, s) =>
                     cache'[s].wh = sess[s].wh
        BY <1>1, <2>3, <2>4, <3>3 DEF SetCache, SessionInv, TypeOK
      <3> QED
        BY <2>5, <3>1, <3>2, <3>3
    <2> QED
      BY <2>1, <2>2, <2>6 DEF WarehouseMine
  <1>5. CASE SwitchValidate(p)
    <2>1. /\ proc[p].pc = "swValidate" /\ proc[p].op = "switch" /\ UNCHANGED <<sess, cache>>
      BY <1>1, <1>5 DEF SwitchValidate, At, WarehouseHeld
    <2>2. proc'[p].pc = "idle" \/ (proc'[p].pc = "swUpdate" /\ proc'[p].op = "switch")
      <3>1. CASE Return(p)
        BY <3>1, ReturnIs
      <3>2. ASSUME NEW w \in Warehouses,
                   Become(p, [proc[p] EXCEPT !.pc = "swUpdate",
                                !.user = sess[proc[p].sid].user, !.wh = w])
            PROVE  proc'[p].pc = "swUpdate" /\ proc'[p].op = "switch"
        BY <1>1, <2>1, <3>2 DEF Become, Goroutine
      <3> QED
        BY <1>5, <3>1, <3>2 DEF SwitchValidate
    <2>3. WarehouseHeld(proc[p])'
      BY <2>2 DEF WarehouseHeld, HoldsWarehouse
    <2> QED
      BY <2>1, <2>3, WarehouseReads
  <1>6. CASE SwitchUpdate(p)
    <2>1. /\ proc[p].pc = "swUpdate" /\ proc[p].op = "switch" /\ UNCHANGED cache
      BY <1>1, <1>6 DEF SwitchUpdate, At, WarehouseHeld
    <2>2. CASE Return(p) /\ UNCHANGED sess
      BY <2>1, <2>2, ReturnIs, WarehouseReads DEF WarehouseHeld, HoldsWarehouse
    <2>3. CASE Goto(p, "readOwners") /\ sess' = [sess EXCEPT ![proc[p].sid].wh = proc[p].wh]
      <3>1. sess'[proc[p].sid].wh = proc[p].wh
        BY <1>1, <2>3 DEF SessRow
      <3>2. \A s \in Sessions : s # proc[p].sid => sess'[s] = sess[s]
        BY <1>1, <2>3
      <3>3. \A s \in Sessions : cache[s] # Gone /\ ~MovedByOther(p, s) =>
               cache[s].wh = sess[s].wh
        BY <1>1, <2>1 DEF Moving
      <3>4. WarehouseHeld(proc[p])'
        BY <1>1, <2>1, <2>3, <3>1, GotoIs DEF WarehouseHeld, HoldsWarehouse
      <3>5. \A s \in Sessions : s = proc[p].sid => Moving(proc[p], s)'
        BY <2>1, <2>3, GotoIs DEF Moving
      <3> QED
        BY <2>1, <3>1, <3>2, <3>3, <3>4, <3>5 DEF WarehouseMine
    <2> QED
      BY <1>6, <2>2, <2>3 DEF SwitchUpdate
  <1>7. CASE LogoutInvalidate(p)
    <2>1. proc[p].pc = "loInvalidate" /\ UNCHANGED cache /\ proc'[p].pc = "idle"
      BY <1>7, ReturnIs DEF LogoutInvalidate, At
    <2>2. \A s \in Sessions : sess'[s].wh = sess[s].wh
      BY <1>1, <1>7 DEF LogoutInvalidate, SessRow
    <2>3. WarehouseHeld(proc[p])'
      BY <2>1 DEF WarehouseHeld, HoldsWarehouse
    <2> QED
      BY <2>1, <2>2, <2>3, WarehouseCalm
  <1> QED
    BY <1>2, <1>3, <1>4, <1>5, <1>6, <1>7

LEMMA WarehouseCurrent ==
  ASSUME SessionInv, SwitchesApart', WarehouseInv, NEW p \in Procs, Step(p),
         \/ CurrentRedis(p) \/ CurrentHitDb(p) \/ CurrentHitOwners(p)
         \/ CurrentMissDb(p) \/ CurrentMissOwners(p)
         \/ HealRead(p) \/ HealWrite(p)
  PROVE  WarehouseMine(p)
  <1>1. /\ \A x \in Sessions : cache[x] # Gone /\ ~MovedByOther(p, x) =>
              cache[x].wh = sess[x].wh \/ Moving(proc[p], x)
        /\ proc[p] \in Goroutine /\ WarehouseHeld(proc[p])
        /\ proc \in [Procs -> Goroutine]
        /\ proc[p].sid \in Sessions
        /\ UNCHANGED sess
        /\ proc[p].pc \in {"gcRedis", "gcHitDb", "gcHitOwners", "gcMissDb",
                           "gcMissOwners", "healRead", "healWrite"}
    BY WarehouseBefore, ProcOK, ProcType DEF SessionInv, TypeOK, WarehouseInv, Goroutine, At,
       CurrentRedis, CurrentHitDb, CurrentHitOwners, CurrentMissDb, CurrentMissOwners,
       HealRead, HealWrite
  <1> DEFINE s == proc[p].sid
  <1>2. cache[s] # Gone /\ ~MovedByOther(p, s) => cache[s].wh = sess[s].wh
    BY <1>1 DEF Moving
  <1>3. ASSUME \/ proc'[p].pc \in {"idle", "gcMissDb"}
               \/ /\ proc'[p].pc \in HoldsWarehouse
                  /\ proc'[p].sid = s /\ proc'[p].wh = sess[s].wh,
               \/ UNCHANGED cache
               \/ DeleteCache(s)
               \/ \E e : SetCache(s, e) /\ e.wh = sess[s].wh
        PROVE  WarehouseMine(p)
    <2>1. WarehouseHeld(proc[p])'
      BY <1>1, <1>3 DEF WarehouseHeld, HoldsWarehouse
    <2>2. \A x \in Sessions : sess'[x].wh = sess[x].wh
      BY <1>1
    <2> QED
      BY <1>1, <1>3, <2>1, <2>2, WarehouseCalm
  <1>4. ASSUME FailClosed(p, s) \/ DropEntry(p, s)
        PROVE  UNCHANGED cache \/ DeleteCache(s)
    BY <1>4 DEF FailClosed, DropEntry
  <1>5. CASE CurrentRedis(p)
    <2>1. UNCHANGED cache
      BY <1>5 DEF CurrentRedis
    <2>2. CASE /\ cache[s] # Gone
               /\ Become(p, [proc[p] EXCEPT !.pc = "gcHitDb", !.user = cache[s].user,
                    !.wh = cache[s].wh, !.owners = cache[s].owners, !.roles = cache[s].roles])
      <3>1. proc'[p].pc = "gcHitDb" /\ proc'[p].sid = s /\ proc'[p].wh = cache[s].wh
        BY <1>1, <2>2 DEF Become, Goroutine
      <3>2. ~MovedByOther(p, s)
        <4>1. \A x \in Sessions : x = s => Carries(proc[p], x)'
          BY <3>1 DEF Carries, HoldsWarehouse
        <4>2. \A q \in Procs \ {p}, x \in Sessions : Moving(proc[q], x) => Moving(proc[q], x)'
          BY BecomeOne DEF Moving
        <4> QED
          BY <1>1, <4>1, <4>2 DEF SwitchesApart, MovedByOther
      <3> QED
        BY <1>1, <1>2, <1>3, <2>1, <2>2, <3>1, <3>2 DEF HoldsWarehouse
    <2>3. CASE Goto(p, "gcMissDb")
      BY <1>3, <2>1, <2>3, GotoIs
    <2> QED
      BY <1>5, <2>2, <2>3 DEF CurrentRedis
  <1>6. CASE CurrentHitDb(p)
    <2>1. UNCHANGED cache \/ DeleteCache(s)
      BY <1>4, <1>6 DEF CurrentHitDb
    <2>2. CASE Goto(p, "gcHitOwners")
      <3>1. proc[p].wh = sess[s].wh
        BY <1>1, <1>6 DEF CurrentHitDb, At, WarehouseHeld, HoldsWarehouse
      <3> QED
        BY <1>3, <2>1, <2>2, <3>1, GotoIs DEF HoldsWarehouse
    <2>3. CASE Return(p)
      BY <1>3, <2>1, <2>3, ReturnIs
    <2> QED
      BY <1>6, <2>2, <2>3 DEF CurrentHitDb
  <1>7. CASE CurrentHitOwners(p) \/ CurrentMissOwners(p)
    <2>1. UNCHANGED cache \/ DeleteCache(s)
      BY <1>4, <1>7 DEF CurrentHitOwners, CurrentMissOwners
    <2>2. CASE Become(p, [proc[p] EXCEPT !.owners = userOwners[proc[p].user],
                             !.now = clock, !.pc = "healRead"])
      <3>1. proc[p].wh = sess[s].wh
        BY <1>1, <1>7 DEF CurrentHitOwners, CurrentMissOwners, At, WarehouseHeld, HoldsWarehouse
      <3>2. proc'[p].pc = "healRead" /\ proc'[p].sid = s /\ proc'[p].wh = proc[p].wh
        BY <1>1, <2>2 DEF Become, Goroutine
      <3> QED
        BY <1>3, <2>1, <3>1, <3>2 DEF HoldsWarehouse
    <2>3. CASE Return(p)
      BY <1>3, <2>1, <2>3, ReturnIs
    <2> QED
      BY <1>7, <2>2, <2>3 DEF CurrentHitOwners, CurrentMissOwners
  <1>8. CASE CurrentMissDb(p)
    <2>1. UNCHANGED cache
      BY <1>8 DEF CurrentMissDb
    <2>2. CASE Become(p, [proc[p] EXCEPT !.pc = "gcMissOwners", !.user = sess[s].user,
                             !.wh = sess[s].wh, !.roles = sess[s].roles])
      <3>1. proc'[p].pc = "gcMissOwners" /\ proc'[p].sid = s /\ proc'[p].wh = sess[s].wh
        BY <1>1, <2>2 DEF Become, Goroutine
      <3> QED
        BY <1>3, <2>1, <3>1 DEF HoldsWarehouse
    <2>3. CASE Return(p)
      BY <1>3, <2>1, <2>3, ReturnIs
    <2> QED
      BY <1>8, <2>2, <2>3 DEF CurrentMissDb
  <1>9. CASE HealRead(p)
    <2>1. UNCHANGED cache \/ DeleteCache(s)
      BY <1>4, <1>9 DEF HealRead
    <2>2. CASE Goto(p, "healWrite")
      <3>1. proc[p].wh = sess[s].wh
        BY <1>1, <1>9 DEF HealRead, At, WarehouseHeld, HoldsWarehouse
      <3> QED
        BY <1>3, <2>1, <2>2, <3>1, GotoIs DEF HoldsWarehouse
    <2>3. CASE Return(p)
      BY <1>3, <2>1, <2>3, ReturnIs
    <2> QED
      BY <1>9, <2>2, <2>3 DEF HealRead
  <1>10. CASE HealWrite(p)
    <2> DEFINE e == [user |-> proc[p].user, wh |-> proc[p].wh, owners |-> proc[p].owners,
                     roles |-> proc[p].roles, exp |-> 0]
    <2>1. proc[p].wh = sess[s].wh
      BY <1>1, <1>10 DEF HealWrite, At, WarehouseHeld, HoldsWarehouse
    <2>2. \A x : [e EXCEPT !.exp = x].wh = proc[p].wh
      OBVIOUS
    <2>3. UNCHANGED cache \/ DeleteCache(s) \/ \E f : SetCache(s, f) /\ f.wh = sess[s].wh
      BY <1>4, <1>10, <2>1, <2>2 DEF HealWrite, Rewrite
    <2>4. proc'[p].pc = "idle"
      BY <1>10, ReturnIs DEF HealWrite
    <2> HIDE DEF e
    <2> QED
      BY <1>3, <2>3, <2>4
  <1> QED
    BY <1>5, <1>6, <1>7, <1>8, <1>9, <1>10

LEMMA WarehouseRefresh ==
  ASSUME SessionInv, WarehouseInv, NEW p \in Procs, Step(p),
         RefreshSessions(p) \/ RefreshOwners(p) \/ RefreshWrite(p) \/ RefreshDone(p)
  PROVE  WarehouseMine(p)
  <1>1. /\ proc[p] \in Goroutine /\ GoroutineOK(proc[p]) /\ WarehouseHeld(proc[p])
        /\ proc \in [Procs -> Goroutine]
        /\ UNCHANGED sess
        /\ proc[p].pc \in {"rfSessions", "rfOwners", "rfWrite"}
    BY ProcOK, ProcType DEF WarehouseInv, At,
       RefreshSessions, RefreshOwners, RefreshWrite, RefreshDone
  <1>2. ASSUME \/ proc'[p].pc \in {"idle", "invFind", "rfClear"}
               \/ /\ proc'[p].pc \in {"rfOwners", "rfWrite"}
                  /\ \A t \in proc'[p].todo : t.wh = sess[t.sid].wh,
               \/ UNCHANGED cache
               \/ \E s \in Sessions : DeleteCache(s)
               \/ \E s \in Sessions : \E e : SetCache(s, e) /\ e.wh = sess[s].wh
        PROVE  WarehouseMine(p)
    <2>1. WarehouseHeld(proc[p])'
      BY <1>1, <1>2 DEF WarehouseHeld, HoldsWarehouse
    <2>2. \A x \in Sessions : sess'[x].wh = sess[x].wh
      BY <1>1
    <2> QED
      BY <1>1, <1>2, <2>1, <2>2, WarehouseCalm
  <1>3. CASE RefreshSessions(p)
    <2>1. UNCHANGED cache /\ proc[p].todo = {}
      BY <1>1, <1>3 DEF RefreshSessions, At, GoroutineOK
    <2>2. \A t \in FindActiveByUserId(proc[p].user) : t.wh = sess[t.sid].wh
      BY DEF FindActiveByUserId
    <2>3. CASE Become(p, [proc[p] EXCEPT !.todo = FindActiveByUserId(proc[p].user),
                             !.pc = "rfOwners"])
      <3>1. proc'[p].pc = "rfOwners" /\ proc'[p].todo = FindActiveByUserId(proc[p].user)
        BY <1>1, <2>3 DEF Become, Goroutine
      <3> QED
        BY <1>2, <2>1, <2>2, <3>1
    <2>4. CASE Become(p, [proc[p] EXCEPT !.err = TRUE, !.pc = "rfOwners"])
      <3>1. proc'[p].pc = "rfOwners" /\ proc'[p].todo = {}
        BY <1>1, <2>1, <2>4 DEF Become, Goroutine
      <3> QED
        BY <1>2, <2>1, <3>1
    <2> QED
      BY <1>3, <2>3, <2>4 DEF RefreshSessions
  <1>4. CASE RefreshOwners(p)
    <2>1. UNCHANGED cache /\ \A t \in proc[p].todo : t.wh = sess[t.sid].wh
      BY <1>1, <1>4 DEF RefreshOwners, At, WarehouseHeld
    <2>2. CASE Become(p, [proc[p] EXCEPT !.owners = userOwners[proc[p].user],
                             !.pc = "rfWrite"])
      <3>1. proc'[p].pc = "rfWrite" /\ proc'[p].todo = proc[p].todo
        BY <1>1, <2>2 DEF Become, Goroutine
      <3> QED
        BY <1>2, <2>1, <3>1
    <2>3. CASE Invalidate(p)
      BY <1>2, <2>1, <2>3, InvalidateIs
    <2>4. CASE Become(p, [proc[p] EXCEPT !.clear = {t.sid : t \in proc[p].todo},
                             !.todo = {}, !.err = TRUE, !.pc = "rfClear"])
      <3>1. proc'[p].pc = "rfClear"
        BY <1>1, <2>4 DEF Become, Goroutine
      <3> QED
        BY <1>2, <2>1, <3>1
    <2> QED
      BY <1>4, <2>2, <2>3, <2>4 DEF RefreshOwners
  <1>5. CASE RefreshWrite(p)
    <2>1. PICK t \in proc[p].todo :
             /\ IF sess[t.sid].exp > proc[p].now
                THEN Rewrite(p, t.sid, [user |-> sess[t.sid].user, wh |-> t.wh,
                                        owners |-> proc[p].owners,
                                        roles |-> sess[t.sid].roles, exp |-> 0])
                ELSE Succeeds /\ UNCHANGED cache
             /\ Become(p, [proc[p] EXCEPT !.todo = @ \ {t},
                                          !.err = @ \/ faults' # faults])
      BY <1>5 DEF RefreshWrite
    <2>2. t.sid \in Sessions /\ \A x \in proc[p].todo : x.wh = sess[x.sid].wh
      BY <1>1, <1>5 DEF RefreshWrite, At, WarehouseHeld, Goroutine, Found
    <2>3. proc'[p].pc = "rfWrite" /\ proc'[p].todo = proc[p].todo \ {t}
      BY <1>1, <1>5, <2>1 DEF RefreshWrite, At, Become, Goroutine
    <2>4. UNCHANGED cache \/ DeleteCache(t.sid)
          \/ \E e : SetCache(t.sid, e) /\ e.wh = t.wh
      BY <2>1 DEF Rewrite, FailClosed
    <2> QED
      BY <1>2, <2>2, <2>3, <2>4
  <1>6. CASE RefreshDone(p)
    <2>1. UNCHANGED cache /\ proc'[p].pc \in {"idle", "invFind"}
      BY <1>6, InvalidateIs, ReturnIs DEF RefreshDone
    <2> QED
      BY <1>2, <2>1
  <1> QED
    BY <1>3, <1>4, <1>5, <1>6

LEMMA WarehouseInvalidate ==
  ASSUME SessionInv, WarehouseInv, NEW p \in Procs, Step(p),
         InvalidateFind(p) \/ InvalidateOne(p) \/ InvalidateDbDone(p)
         \/ ClearOne(p) \/ ClearDone(p)
  PROVE  WarehouseMine(p)
  <1>1. /\ proc[p] \in Goroutine /\ proc \in [Procs -> Goroutine]
        /\ proc[p].pc \in {"invFind", "invDb", "invClear", "rfClear"}
        /\ sess \in [Sessions -> SessRow]
    BY ProcOK, ProcType DEF SessionInv, TypeOK, At, InvalidateFind, InvalidateOne,
       InvalidateDbDone, ClearOne, ClearDone
  <1>2. /\ proc'[p].pc \in {"idle", "invFind", "invDb", "invClear", "rfClear"}
        /\ UNCHANGED cache \/ \E s \in Sessions : DeleteCache(s)
        /\ \A s \in Sessions : sess'[s].wh = sess[s].wh
    <2>1. CASE InvalidateFind(p)
      <3>1. CASE Become(p, [proc[p] EXCEPT !.todo = FindActiveByUserId(proc[p].user),
                   !.clear = {t.sid : t \in FindActiveByUserId(proc[p].user)}, !.pc = "invDb"])
        <4>1. proc'[p].pc = "invDb"
          BY <1>1, <3>1 DEF Become, Goroutine
        <4> QED
          BY <2>1, <4>1 DEF InvalidateFind
      <3>2. CASE Return(p)
        BY <2>1, <3>2, ReturnIs DEF InvalidateFind
      <3> QED
        BY <2>1, <3>1, <3>2 DEF InvalidateFind
    <2>2. CASE InvalidateOne(p)
      <3>1. PICK t \in proc[p].todo :
               /\ sess' = [sess EXCEPT ![t.sid].status = "INVALIDATED"] \/ UNCHANGED sess
               /\ Become(p, [proc[p] EXCEPT !.todo = @ \ {t}])
        BY <2>2 DEF InvalidateOne
      <3>2. proc'[p].pc = "invDb"
        BY <1>1, <2>2, <3>1 DEF InvalidateOne, At, Become, Goroutine
      <3>3. \A s \in Sessions : sess'[s].wh = sess[s].wh
        BY <1>1, <3>1 DEF SessRow
      <3> QED
        BY <2>2, <3>2, <3>3 DEF InvalidateOne
    <2>3. CASE InvalidateDbDone(p)
      BY <2>3, GotoIs, ReturnIs DEF InvalidateDbDone
    <2>4. CASE ClearOne(p)
      <3>1. PICK s \in proc[p].clear :
               DropEntry(p, s) /\ Become(p, [proc[p] EXCEPT !.clear = @ \ {s}])
        BY <2>4 DEF ClearOne
      <3>2. s \in Sessions /\ proc'[p].pc = proc[p].pc
        BY <1>1, <3>1 DEF Become, Goroutine
      <3> QED
        BY <1>1, <2>4, <3>1, <3>2 DEF ClearOne, DropEntry
    <2>5. CASE ClearDone(p)
      BY <2>5, InvalidateIs, ReturnIs DEF ClearDone
    <2> QED
      BY <2>1, <2>2, <2>3, <2>4, <2>5
  <1>3. WarehouseHeld(proc[p])'
    BY <1>2 DEF WarehouseHeld, HoldsWarehouse
  <1> QED
    BY <1>1, <1>2, <1>3, WarehouseCalm

\* A row changes its warehouse when a switch updates it and when it is created.
LEMMA WhoMoves ==
  ASSUME SessionInv, WarehouseInv, NEW p \in Procs, Step(p), NEW s \in Sessions,
         sess'[s].wh # sess[s].wh
  PROVE  sess[s].status = "NONE" \/ Moving(proc[p], s)'
  <1>1. /\ proc[p] \in Goroutine /\ GoroutineOK(proc[p]) /\ WarehouseHeld(proc[p])
        /\ proc \in [Procs -> Goroutine]
        /\ sess \in [Sessions -> SessRow]
        /\ proc[p].sid \in Sessions /\ \A t \in proc[p].todo : t.sid \in Sessions
    BY ProcOK, ProcType DEF SessionInv, TypeOK, WarehouseInv, Goroutine, Found
  <1>2. CASE LoginCreate(p)
    BY <1>1, <1>2 DEF LoginCreate, At, GoroutineOK
  <1>3. CASE SwitchUpdate(p)
    <2>1. proc[p].pc = "swUpdate" /\ proc[p].op = "switch"
      BY <1>1, <1>3 DEF SwitchUpdate, At, WarehouseHeld
    <2>2. Goto(p, "readOwners") /\ sess' = [sess EXCEPT ![proc[p].sid].wh = proc[p].wh]
      BY <1>3 DEF SwitchUpdate
    <2>3. s = proc[p].sid
      BY <1>1, <2>2
    <2> QED
      BY <2>1, <2>2, <2>3, GotoIs DEF Moving
  <1>4. ASSUME NEW x \in Sessions, sess' = [sess EXCEPT ![x].status = "INVALIDATED"]
        PROVE  FALSE
    BY <1>1, <1>4 DEF SessRow
  <1>5. CASE LogoutInvalidate(p) \/ InvalidateOne(p)
    BY <1>1, <1>4, <1>5 DEF LogoutInvalidate, InvalidateOne
  <1>6. UNCHANGED sess \/ LoginCreate(p) \/ SwitchUpdate(p) \/ LogoutInvalidate(p)
        \/ InvalidateOne(p)
    BY DEF Step, ReadOwners, Populate, SwitchValidate, SwitchReadRoles, CurrentRedis,
       CurrentHitDb, CurrentHitOwners, CurrentMissDb, CurrentMissOwners,
       HealRead, HealWrite, RefreshSessions, RefreshOwners, RefreshWrite,
       RefreshDone, InvalidateFind, InvalidateDbDone, ClearOne, ClearDone,
           MutateRoleRow, KeepRoleRow
  <1> QED
    BY <1>2, <1>3, <1>5, <1>6

LEMMA WarehouseNext ==
  ASSUME SwitchDrops, SessionInv, SwitchesApart', WarehouseInv, [Next]_vars
  PROVE  WarehouseInv'
  <1>1. ASSUME NEW p \in Procs, Step(p)
        PROVE  WarehouseInv'
    <2>1. WarehouseMine(p)
      <3>1. CASE MutateRoleRow(p)
        BY <1>1, <3>1, RoleRowGoes, WarehouseReads DEF WarehouseHeld, HoldsWarehouse
      <3>2. CASE KeepRoleRow(p)
        BY <1>1, <3>2, KeepRowGoes, ReturnIs, WarehouseReads
           DEF WarehouseHeld, HoldsWarehouse
      <3> QED
        BY <1>1, <3>1, <3>2, WarehouseSession, WarehouseCurrent, WarehouseRefresh,
           WarehouseInvalidate DEF Step
    <2>2. \A s \in Sessions : WarehouseKept(s)'
      <3>1. \A q \in Procs \ {p}, s \in Sessions : Moving(proc[q], s) => Moving(proc[q], s)'
        BY <1>1, BecomeOne DEF Moving
      <3> QED
        BY <2>1, <3>1 DEF WarehouseMine, WarehouseKept, MovedByOther
    <2>3. ASSUME NEW q \in Procs, q # p
          PROVE  WarehouseHeld(proc[q])'
      <3>1. /\ proc'[q] = proc[q] /\ proc[q] \in Goroutine
            /\ GoroutineOK(proc[q]) /\ WarehouseHeld(proc[q])
        BY <1>1, <2>3, BecomeOne, ProcOK DEF WarehouseInv
      <3>2. ASSUME NEW s \in Sessions, Carries(proc[q], s), sess[s].status # "NONE"
            PROVE  sess'[s].wh = sess[s].wh
        <4>1. ~Moving(proc[p], s)'
          BY <2>3, <3>1, <3>2 DEF SwitchesApart, Carries
        <4> QED
          BY <1>1, <3>2, <4>1, WhoMoves
      <3>3. proc[q].pc \in HoldsWarehouse => sess'[proc[q].sid].wh = sess[proc[q].sid].wh
        BY <3>1, <3>2 DEF GoroutineOK, Goroutine, Carries, HoldsWarehouse, HasRow
      <3>4. proc[q].pc \in {"rfOwners", "rfWrite"} =>
               \A t \in proc[q].todo : sess'[t.sid].wh = sess[t.sid].wh
        BY <3>1, <3>2 DEF GoroutineOK, Goroutine, Found, Carries, Among
      <3> QED
        BY <3>1, <3>3, <3>4 DEF WarehouseHeld
    <2> QED
      BY <2>1, <2>2, <2>3 DEF WarehouseInv, WarehouseMine
  <1>2. ASSUME NEW p \in Procs, Request(p)
        PROVE  WarehouseInv'
    <2>1. /\ UNCHANGED <<sess, cache>> /\ proc[p].pc = "idle"
          /\ \A q \in Procs \ {p} : proc'[q] = proc[q]
      BY <1>2, BecomeOne DEF Request, LoginResolveRoles, MutateOwners, MutateRoles, KeepRoles, Deactivate,
         SwitchContext, Logout, GetCurrentSession, Arrive, At
    <2>2. \/ proc'[p].pc \in {"rfSessions", "roleRows", "keepRows", "invFind",
                             "loInvalidate", "gcRedis"}
          \/ proc'[p].pc = "loginCreate" /\ proc'[p].wh = NoWarehouse
          \/ proc'[p].pc = "swValidate" /\ proc'[p].op = "switch"
      BY <1>2, Begins DEF Request
    <2>3. WarehouseHeld(proc[p])'
      BY <2>2 DEF WarehouseHeld, HoldsWarehouse
    <2>4. \A q \in Procs, s \in Sessions : Moving(proc[q], s) => Moving(proc[q], s)'
      BY <2>1 DEF Moving
    <2> QED
      BY <2>1, <2>3, <2>4 DEF WarehouseInv, WarehouseKept, WarehouseHeld
  <1>3. CASE \/ \E s \in Sessions : ExpireOnRequest(s)
             \/ \E r \in Roles : UpdateRole(r)
             \/ Tick \/ UNCHANGED vars
    <2>1. UNCHANGED proc
      BY <1>3 DEF ExpireOnRequest, UpdateRole, Tick, vars
    <2>2. \A s \in Sessions : sess'[s].wh = sess[s].wh
      BY <1>3 DEF ExpireOnRequest, UpdateRole, Tick, vars, SessionInv, TypeOK, SessRow
    <2>3. \A s \in Sessions : cache'[s] # Gone => cache'[s] = cache[s]
      BY <1>3 DEF ExpireOnRequest, UpdateRole, Tick, vars, SessionInv, TypeOK
    <2>4. \A s \in Sessions : WarehouseKept(s)'
      BY <2>1, <2>2, <2>3 DEF WarehouseInv, WarehouseKept, Moving
    <2>5. ASSUME NEW p \in Procs
          PROVE  WarehouseHeld(proc[p])'
      <3>1. proc[p].sid \in Sessions /\ \A t \in proc[p].todo : t.sid \in Sessions
        BY ProcOK DEF Goroutine, Found
      <3> QED
        BY <2>1, <2>2, <3>1 DEF WarehouseInv, WarehouseHeld, HoldsWarehouse
    <2> QED
      BY <2>4, <2>5 DEF WarehouseInv
  <1> QED
    BY <1>1, <1>2, <1>3 DEF Next

LEMMA WarehouseInvInit == Init => WarehouseInv
  <1> SUFFICES ASSUME Init PROVE WarehouseInv
    OBVIOUS
  <1>1. \A p \in Procs : proc[p].pc = "idle"
    BY DEF Init, Idle
  <1> QED
    BY <1>1 DEF Init, WarehouseInv, WarehouseKept, WarehouseHeld, HoldsWarehouse

\* The documents of a user's sessions name their rows' warehouses.
WarehouseAgreesFor(u) ==
    \A s \in Sessions : sess[s].user = u /\ cache[s] # Gone =>
        cache[s].wh = sess[s].wh

\* When no handler of a user runs, their documents name their rows' warehouses: a
\* heal or a refresh writes the warehouse it read, and SwitchContext, alone with
\* the session from its update on, writes the document after the row.  Any call
\* may fail, unless two of a switch do: a failed Set and then a failed Delete leave
\* the document of before the switch.
THEOREM WarehouseAgreesAtRest ==
  ASSUME SwitchDrops
  PROVE  Spec /\ []SwitchesApart => [](\A u \in Users : AtRest(u) => WarehouseAgreesFor(u))
  <1>1. Init => WarehouseInv
    BY WarehouseInvInit
  <1>2. SessionInv /\ SwitchesApart' /\ WarehouseInv /\ [Next]_vars => WarehouseInv'
    BY WarehouseNext
  <1>3. WarehouseInv => \A u \in Users : AtRest(u) => WarehouseAgreesFor(u)
    <2> SUFFICES ASSUME WarehouseInv, NEW u \in Users, AtRest(u) PROVE WarehouseAgreesFor(u)
      OBVIOUS
    <2>1. ASSUME NEW s \in Sessions, sess[s].user = u, NEW p \in Procs
          PROVE  ~Moving(proc[p], s)
      BY <2>1 DEF AtRest, At, WorksFor, Moving, HasRow
    <2> QED
      BY <2>1 DEF WarehouseInv, WarehouseKept, WarehouseAgreesFor
  <1> QED
    BY <1>1, <1>2, <1>3, SessionInvariant, PTL DEF Spec

\* At rest as a whole, so are all users, those of the rows among them.
THEOREM WarehouseAgrees ==
  ASSUME SwitchDrops
  PROVE  Spec /\ []SwitchesApart => []WarehouseAgreesWhenQuiet
  <1>1. SessionInv /\ (\A u \in Users : AtRest(u) => WarehouseAgreesFor(u)) => WarehouseAgreesWhenQuiet
    BY DEF WarehouseAgreesWhenQuiet, Quiet, AtRest, WarehouseAgreesFor, SessionInv,
       RowsHaveUsers, CacheBelongsToSession
  <1> QED
    BY <1>1, WarehouseAgreesAtRest, SessionInvariant, PTL

-----------------------------------------------------------------------------
(* The owners a user is granted.                                             *)

\* A document the gate would go by: its session is ACTIVE and not past its expiry.
InForce(s) == cache[s] # Gone /\ sess[s].status = "ACTIVE" /\ sess[s].exp > clock

\* The owner refresh has session s still to write, to delete or to invalidate.
Repairing(g, s) ==
    /\ g.op = "owner" /\ g.user = sess[s].user
    /\ \/ g.pc \in {"rfSessions", "rfClear", "invFind"}
       \/ g.pc \in {"rfOwners", "rfWrite"} /\ (g.err \/ Among(g.todo, s))
       \/ g.pc = "invDb" /\ Among(g.todo, s)

\* A document in force names the owners of now, or is about to be repaired.
OwnersKept(s) ==
    InForce(s) =>
        \/ cache[s].owners = userOwners[sess[s].user]
        \/ \E p \in Procs : Repairing(proc[p], s)

\* The places where a goroutine holds the owners its user has.
HoldsOwners == {"readRoles", "populate", "healRead", "healWrite", "rfWrite"}

\* The places of an owner mutation.
OwnerPlaces == {"rfSessions", "rfOwners", "rfWrite", "rfClear",
                "invFind", "invDb", "invClear"}

OwnersHeld(g) ==
    /\ g.op = "owner" => g.pc \in OwnerPlaces
    /\ g.pc \in {"loginCreate", "readOwners", "readRoles", "populate"} =>
          g.op \in {"login", "switch"}
    /\ g.pc \in {"swValidate", "swUpdate"} => g.op = "switch"
    /\ g.pc \in HoldsOwners => g.owners = userOwners[g.user]
    /\ g.pc \in {"rfSessions", "rfOwners", "rfWrite"} =>
          g.op = "owner" /\ g.user \in Users /\ g.now <= clock
    /\ g.op = "owner" /\ (g.err \/ g.pc \in {"rfClear", "invFind", "invDb"}) => faults > 0

\* The inductive invariant: documents, and what goroutines will write to them.
OwnersInv ==
    /\ \A s \in Sessions : OwnersKept(s)
    /\ \A p \in Procs : OwnersHeld(proc[p])

\* A refresh meets one failure at most: a second one may leave the document.
RefreshRecovers == "owner" \notin FaultyOps \/ MaxFaults <= 1

\* Documents in force after a step that leaves owners and clock alone were in
\* force before it, or were written with the owners of now.
LEMMA InForceBefore ==
  ASSUME SessionInv, [Next]_vars, UNCHANGED <<userOwners, clock>>,
         \/ UNCHANGED cache
         \/ \E s \in Sessions : DeleteCache(s)
         \/ \E s \in Sessions : \E e :
               SetCache(s, e) /\ sess'[s] = sess[s] /\ e.owners = userOwners[sess[s].user],
         NEW s \in Sessions, InForce(s)'
  PROVE  \/ cache'[s].owners = userOwners'[sess'[s].user]
         \/ /\ InForce(s) /\ cache'[s] = cache[s] /\ sess'[s].user = sess[s].user
  <1>1. cache \in [Sessions -> Entry] /\ sess \in [Sessions -> SessRow]
    BY DEF SessionInv, TypeOK
  <1>2. \/ cache'[s] = cache[s]
        \/ cache'[s] = Gone
        \/ sess'[s] = sess[s] /\ cache'[s].owners = userOwners[sess[s].user]
    BY <1>1 DEF DeleteCache, SetCache
  <1>3. ASSUME cache'[s] = cache[s]
        PROVE  InForce(s) /\ sess'[s].user = sess[s].user
    <2>1. sess[s].status # "NONE" /\ sess[s].status \in Status
      BY <1>1, <1>3 DEF InForce, SessionInv, CacheBelongsToSession, SessRow
    <2> QED
      BY <1>3, <2>1, RowsFixed DEF InForce, Status
  <1> QED
    BY <1>2, <1>3 DEF InForce

\* The owners a goroutine has read and is about to write stay so: no owner
\* mutation of that user commits in between.
OwnersSteady ==
    \A p \in Procs : proc[p].pc \in HoldsOwners =>
        userOwners'[proc[p].user] = userOwners[proc[p].user]

\* A goroutine other than p is about to repair the document of s.
RepairedByOther(p, s) == \E q \in Procs \ {p} : Repairing(proc[q], s)

LEMMA OwnersBefore ==
  ASSUME OwnersInv, NEW p \in Procs, NEW s \in Sessions, InForce(s),
         ~RepairedByOther(p, s)
  PROVE  cache[s].owners = userOwners[sess[s].user] \/ Repairing(proc[p], s)
  BY DEF OwnersInv, OwnersKept, RepairedByOther

\* After a step of p the documents in force no other goroutine is about to repair
\* name the owners of now, or p is about to repair them.
OwnersMine(p) ==
    /\ \A s \in Sessions : InForce(s)' /\ ~RepairedByOther(p, s) =>
          cache'[s].owners = userOwners'[sess'[s].user] \/ Repairing(proc[p], s)'
    /\ OwnersHeld(proc[p])'

\* A step of a goroutine that repairs nothing.
LEMMA OwnersCalm ==
  ASSUME SessionInv, FoundInv, OwnersInv, [Next]_vars,
         NEW p \in Procs, Step(p),
         proc[p].op # "owner" \/ proc[p].pc = "invClear",
         \/ UNCHANGED cache
         \/ \E s \in Sessions : DeleteCache(s)
         \/ \E s \in Sessions : \E e :
               SetCache(s, e) /\ sess'[s] = sess[s] /\ e.owners = userOwners[sess[s].user],
         OwnersHeld(proc[p])'
  PROVE  OwnersMine(p)
  <1>1. UNCHANGED <<userOwners, clock>>
    BY StepKeeps
  <1>2. \A s \in Sessions : InForce(s) /\ ~RepairedByOther(p, s) =>
           cache[s].owners = userOwners[sess[s].user]
    BY OwnersBefore DEF Repairing
  <1>3. \A s \in Sessions : InForce(s)' /\ ~RepairedByOther(p, s) =>
           cache'[s].owners = userOwners'[sess'[s].user]
    BY <1>1, <1>2, InForceBefore
  <1> QED
    BY <1>3 DEF OwnersMine

\* A step of the refresh that writes no document and has as much to repair
\* after as before.
LEMMA OwnersOnwards ==
  ASSUME SessionInv, FoundInv, OwnersInv, [Next]_vars,
         NEW p \in Procs, Step(p),
         UNCHANGED cache \/ \E s \in Sessions : DeleteCache(s),
         \A s \in Sessions : InForce(s)' /\ sess'[s].user = sess[s].user /\ Repairing(proc[p], s) =>
            \/ Repairing(proc[p], s)'
            \/ cache'[s].owners = userOwners'[sess'[s].user],
         OwnersHeld(proc[p])'
  PROVE  OwnersMine(p)
  <1>1. UNCHANGED <<userOwners, clock>>
    BY StepKeeps
  <1>2. ASSUME NEW s \in Sessions, InForce(s)', ~RepairedByOther(p, s)
        PROVE  cache'[s].owners = userOwners'[sess'[s].user] \/ Repairing(proc[p], s)'
    <2>1. CASE InForce(s) /\ cache'[s] = cache[s] /\ sess'[s].user = sess[s].user
      <3>1. cache[s].owners = userOwners[sess[s].user] \/ Repairing(proc[p], s)
        BY <1>2, <2>1, OwnersBefore
      <3> QED
        BY <1>1, <1>2, <2>1, <3>1
    <2> QED
      BY <1>1, <1>2, <2>1, InForceBefore
  <1> QED
    BY <1>2 DEF OwnersMine

LEMMA OwnersSession ==
  ASSUME FaultyOps \cap {"login", "switch"} = {},
         SessionInv, FoundInv, OwnersInv, [Next]_vars,
         NEW p \in Procs, Step(p),
         \/ LoginCreate(p) \/ ReadOwners(p) \/ Populate(p)
         \/ SwitchValidate(p) \/ SwitchUpdate(p) \/ SwitchReadRoles(p)
         \/ LogoutInvalidate(p)
  PROVE  OwnersMine(p)
  <1>1. /\ proc[p] \in Goroutine /\ GoroutineOK(proc[p]) /\ OwnersHeld(proc[p])
        /\ proc \in [Procs -> Goroutine]
        /\ sess \in [Sessions -> SessRow]
        /\ proc[p].sid \in Sessions
        /\ UNCHANGED <<userOwners, clock>>
    BY ProcOK, ProcType, StepKeeps DEF SessionInv, TypeOK, OwnersInv, Goroutine, Step
  <1>2. CASE LoginCreate(p) \/ SwitchUpdate(p)
    <2>1. /\ proc[p].pc \in {"loginCreate", "swUpdate"} /\ UNCHANGED cache
          /\ proc[p].op \in {"login", "switch"}
      BY <1>1, <1>2 DEF LoginCreate, SwitchUpdate, At, OwnersHeld
    <2>2. Goto(p, "readOwners")
      BY <1>2, <2>1 DEF LoginCreate, SwitchUpdate, Fails, CallsFail
    <2>3. OwnersHeld(proc[p])'
      BY <2>1, <2>2, GotoIs DEF OwnersHeld, HoldsOwners
    <2> QED
      BY <1>1, <2>1, <2>3, OwnersCalm
  <1>3. CASE ReadOwners(p)
    <2>1. /\ proc[p].op \in {"login", "switch"} /\ UNCHANGED cache
      BY <1>1, <1>3 DEF ReadOwners, At, OwnersHeld
    <2>2. Become(p, [proc[p] EXCEPT
                !.owners = userOwners[proc[p].user],
                !.pc = IF proc[p].op = "login" THEN "populate" ELSE "readRoles"])
      BY <1>3, <2>1 DEF ReadOwners, Fails, CallsFail
    <2>3. /\ proc'[p].pc \in {"populate", "readRoles"}
          /\ proc'[p].op = proc[p].op /\ proc'[p].user = proc[p].user
          /\ proc'[p].owners = userOwners[proc[p].user]
      BY <1>1, <2>2 DEF Become, Goroutine
    <2>4. OwnersHeld(proc[p])'
      BY <1>1, <2>1, <2>3 DEF OwnersHeld, HoldsOwners
    <2> QED
      BY <1>1, <2>1, <2>4, OwnersCalm
  <1>4. CASE SwitchReadRoles(p)
    <2>1. /\ proc[p].op \in {"login", "switch"} /\ UNCHANGED cache
          /\ proc[p].owners = userOwners[proc[p].user]
      BY <1>1, <1>4 DEF SwitchReadRoles, At, OwnersHeld, HoldsOwners
    <2>2. /\ proc'[p].pc = "populate"
          /\ proc'[p].op = proc[p].op /\ proc'[p].user = proc[p].user
          /\ proc'[p].owners = proc[p].owners
      BY <1>1, <1>4 DEF SwitchReadRoles, Become, Goroutine
    <2>3. OwnersHeld(proc[p])'
      BY <1>1, <2>1, <2>2 DEF OwnersHeld, HoldsOwners
    <2> QED
      BY <1>1, <2>1, <2>3, OwnersCalm
  <1>5. CASE Populate(p)
    <2>1. /\ proc[p].pc = "populate" /\ UNCHANGED sess /\ proc'[p] = Idle
      BY <1>5, ReturnIs DEF Populate, At
    <2>2. /\ proc[p].op \in {"login", "switch"}
          /\ proc[p].owners = userOwners[sess[proc[p].sid].user]
      BY <1>1, <2>1 DEF OwnersHeld, HoldsOwners, GoroutineOK, HasUser, HasRow
    <2>3. \E e : SetCache(proc[p].sid, e) /\ e.owners = proc[p].owners
      BY <1>5, <2>2 DEF Populate, FailClosed, Fails, CallsFail
    <2>4. OwnersHeld(proc[p])'
      BY <2>1 DEF OwnersHeld, HoldsOwners, OwnerPlaces, Idle
    <2> QED
      BY <1>1, <2>1, <2>2, <2>3, <2>4, OwnersCalm
  <1>6. CASE SwitchValidate(p)
    <2>1. /\ proc[p].pc = "swValidate" /\ proc[p].op = "switch" /\ UNCHANGED cache
      BY <1>1, <1>6 DEF SwitchValidate, At, OwnersHeld
    <2>2. proc'[p] = Idle \/ (proc'[p].pc = "swUpdate" /\ proc'[p].op = "switch")
      <3>1. CASE Return(p)
        BY <3>1, ReturnIs
      <3>2. ASSUME NEW w \in Warehouses,
                   Become(p, [proc[p] EXCEPT !.pc = "swUpdate",
                                !.user = sess[proc[p].sid].user, !.wh = w])
            PROVE  proc'[p].pc = "swUpdate" /\ proc'[p].op = "switch"
        BY <1>1, <2>1, <3>2 DEF Become, Goroutine
      <3> QED
        BY <1>6, <3>1, <3>2 DEF SwitchValidate
    <2>3. OwnersHeld(proc[p])'
      BY <2>2 DEF OwnersHeld, HoldsOwners, OwnerPlaces, Idle
    <2> QED
      BY <1>1, <2>1, <2>3, OwnersCalm
  <1>7. CASE LogoutInvalidate(p)
    <2>1. proc[p].pc = "loInvalidate" /\ UNCHANGED cache /\ proc'[p] = Idle
      BY <1>7, ReturnIs DEF LogoutInvalidate, At
    <2>2. OwnersHeld(proc[p])'
      BY <2>1 DEF OwnersHeld, HoldsOwners, OwnerPlaces, Idle
    <2>3. \A s \in Sessions : ~Repairing(proc[p], s)
      BY <2>1 DEF Repairing
    <2> QED
      BY <1>1, <2>1, <2>2, <2>3, OwnersOnwards
  <1> QED
    BY <1>2, <1>3, <1>4, <1>5, <1>6, <1>7

LEMMA OwnersCurrent ==
  ASSUME SessionInv, FoundInv, OwnersInv, [Next]_vars,
         NEW p \in Procs, Step(p),
         \/ CurrentRedis(p) \/ CurrentHitDb(p) \/ CurrentHitOwners(p)
         \/ CurrentMissDb(p) \/ CurrentMissOwners(p)
         \/ HealRead(p) \/ HealWrite(p)
  PROVE  OwnersMine(p)
  <1>1. /\ proc[p] \in Goroutine /\ GoroutineOK(proc[p]) /\ OwnersHeld(proc[p])
        /\ proc \in [Procs -> Goroutine]
        /\ proc[p].sid \in Sessions
        /\ UNCHANGED <<sess, userOwners, clock>>
        /\ proc[p].pc \in {"gcRedis", "gcHitDb", "gcHitOwners", "gcMissDb",
                           "gcMissOwners", "healRead", "healWrite"}
    BY ProcOK, ProcType DEF SessionInv, TypeOK, OwnersInv, Goroutine, At,
       CurrentRedis, CurrentHitDb, CurrentHitOwners, CurrentMissDb, CurrentMissOwners,
       HealRead, HealWrite
  <1> DEFINE s == proc[p].sid
  <1>2. proc[p].op # "owner"
    BY <1>1 DEF OwnersHeld, OwnerPlaces
  <1>3. ASSUME \/ proc'[p] = Idle
               \/ /\ proc'[p].op = proc[p].op
                  /\ \/ proc'[p].pc \in {"gcHitDb", "gcHitOwners", "gcMissDb", "gcMissOwners"}
                     \/ /\ proc'[p].pc \in {"healRead", "healWrite"}
                        /\ proc'[p].owners = userOwners[proc'[p].user],
               \/ UNCHANGED cache
               \/ DeleteCache(s)
               \/ \E e : SetCache(s, e) /\ e.owners = userOwners[sess[s].user]
        PROVE  OwnersMine(p)
    <2>1. OwnersHeld(proc[p])'
      BY <1>1, <1>2, <1>3 DEF OwnersHeld, HoldsOwners, OwnerPlaces, Idle
    <2>2. sess'[s] = sess[s]
      BY <1>1
    <2> QED
      BY <1>1, <1>2, <1>3, <2>1, <2>2, OwnersCalm
  <1>4. ASSUME FailClosed(p, s) \/ DropEntry(p, s)
        PROVE  UNCHANGED cache \/ DeleteCache(s)
    BY <1>4 DEF FailClosed, DropEntry
  <1>5. CASE CurrentRedis(p)
    <2>1. CASE Become(p, [proc[p] EXCEPT !.pc = "gcHitDb", !.user = cache[s].user,
                    !.wh = cache[s].wh, !.owners = cache[s].owners, !.roles = cache[s].roles])
      <3>1. proc'[p].pc = "gcHitDb" /\ proc'[p].op = proc[p].op
        BY <1>1, <2>1 DEF Become, Goroutine
      <3> QED
        BY <1>3, <1>5, <3>1 DEF CurrentRedis
    <2>2. CASE Goto(p, "gcMissDb")
      BY <1>3, <1>5, <2>2, GotoIs DEF CurrentRedis
    <2> QED
      BY <1>5, <2>1, <2>2 DEF CurrentRedis
  <1>6. CASE CurrentHitDb(p)
    <2>1. UNCHANGED cache \/ DeleteCache(s)
      BY <1>4, <1>6 DEF CurrentHitDb
    <2> QED
      BY <1>3, <1>6, <2>1, GotoIs, ReturnIs DEF CurrentHitDb
  <1>7. CASE CurrentHitOwners(p) \/ CurrentMissOwners(p)
    <2>1. UNCHANGED cache \/ DeleteCache(s)
      BY <1>4, <1>7 DEF CurrentHitOwners, CurrentMissOwners
    <2>2. CASE Become(p, [proc[p] EXCEPT !.owners = userOwners[proc[p].user],
                             !.now = clock, !.pc = "healRead"])
      <3>1. /\ proc'[p].pc = "healRead" /\ proc'[p].op = proc[p].op
            /\ proc'[p].owners = userOwners[proc'[p].user]
        BY <1>1, <2>2 DEF Become, Goroutine
      <3> QED
        BY <1>3, <2>1, <3>1
    <2>3. CASE Return(p)
      BY <1>3, <2>1, <2>3, ReturnIs
    <2> QED
      BY <1>7, <2>2, <2>3 DEF CurrentHitOwners, CurrentMissOwners
  <1>8. CASE CurrentMissDb(p)
    <2>1. UNCHANGED cache
      BY <1>8 DEF CurrentMissDb
    <2>2. CASE Become(p, [proc[p] EXCEPT !.pc = "gcMissOwners", !.user = sess[s].user,
                             !.wh = sess[s].wh, !.roles = sess[s].roles])
      <3>1. proc'[p].pc = "gcMissOwners" /\ proc'[p].op = proc[p].op
        BY <1>1, <2>2 DEF Become, Goroutine
      <3> QED
        BY <1>3, <2>1, <3>1
    <2>3. CASE Return(p)
      BY <1>3, <2>1, <2>3, ReturnIs
    <2> QED
      BY <1>8, <2>2, <2>3 DEF CurrentMissDb
  <1>9. CASE HealRead(p)
    <2>1. UNCHANGED cache \/ DeleteCache(s)
      BY <1>4, <1>9 DEF HealRead
    <2>2. proc[p].owners = userOwners[proc[p].user]
      BY <1>1, <1>9 DEF HealRead, At, OwnersHeld, HoldsOwners
    <2> QED
      BY <1>3, <1>9, <2>1, <2>2, GotoIs, ReturnIs DEF HealRead
  <1>10. CASE HealWrite(p)
    <2> DEFINE e == [user |-> proc[p].user, wh |-> proc[p].wh, owners |-> proc[p].owners,
                     roles |-> proc[p].roles, exp |-> 0]
    <2>1. proc[p].owners = userOwners[sess[s].user]
      BY <1>1, <1>10 DEF HealWrite, At, OwnersHeld, HoldsOwners, GoroutineOK, HasUser, HasRow
    <2>2. \A x : [e EXCEPT !.exp = x].owners = proc[p].owners
      OBVIOUS
    <2>3. UNCHANGED cache \/ DeleteCache(s)
          \/ \E f : SetCache(s, f) /\ f.owners = userOwners[sess[s].user]
      BY <1>4, <1>10, <2>1, <2>2 DEF HealWrite, Rewrite
    <2>4. proc'[p] = Idle
      BY <1>10, ReturnIs DEF HealWrite
    <2> HIDE DEF e
    <2> QED
      BY <1>3, <2>3, <2>4
  <1> QED
    BY <1>5, <1>6, <1>7, <1>8, <1>9, <1>10

LEMMA OwnersRefresh ==
  ASSUME RefreshRecovers, SessionInv, FoundInv, OwnersInv, [Next]_vars,
         NEW p \in Procs, Step(p),
         RefreshSessions(p) \/ RefreshOwners(p) \/ RefreshWrite(p) \/ RefreshDone(p)
  PROVE  OwnersMine(p)
  <1>1. /\ proc[p] \in Goroutine /\ GoroutineOK(proc[p]) /\ OwnersHeld(proc[p])
        /\ proc \in [Procs -> Goroutine]
        /\ UNCHANGED <<sess, userOwners, clock>>
        /\ proc[p].pc \in {"rfSessions", "rfOwners", "rfWrite"}
        /\ proc[p].op = "owner" /\ proc[p].now <= clock
        /\ faults \in Nat /\ faults' \in Nat /\ faults' >= faults
    <2>1. /\ proc[p] \in Goroutine /\ GoroutineOK(proc[p]) /\ OwnersHeld(proc[p])
          /\ proc \in [Procs -> Goroutine]
          /\ faults \in Nat
      BY ProcOK, ProcType DEF OwnersInv, SessionInv, TypeOK
    <2>2. /\ UNCHANGED <<sess, userOwners, clock>>
          /\ proc[p].pc \in {"rfSessions", "rfOwners", "rfWrite"}
      BY DEF At, RefreshSessions, RefreshOwners, RefreshWrite, RefreshDone
    <2>3. proc[p].op = "owner" /\ proc[p].now <= clock
      BY <2>1, <2>2 DEF OwnersHeld
    <2>4. MaxFaults \in Nat
      BY SessionAssumption
    <2>5. \A op, n : CallsFail(op, n) => faults' = faults + n
      BY DEF CallsFail
    <2>6. faults' = faults \/ faults' = faults + 1 \/ faults' = faults + 2
      BY <2>5 DEF RefreshSessions, RefreshOwners, RefreshWrite, RefreshDone, Succeeds,
         Fails, Rewrite, FailClosed
    <2> QED
      BY <2>1, <2>2, <2>3, <2>6
  <1>2. CASE RefreshSessions(p)
    <2>1. UNCHANGED cache /\ proc[p].pc = "rfSessions"
      BY <1>2 DEF RefreshSessions, At
    <2>2. CASE Become(p, [proc[p] EXCEPT !.todo = FindActiveByUserId(proc[p].user),
                             !.pc = "rfOwners"])
      <3>1. /\ proc'[p].pc = "rfOwners" /\ proc'[p].op = "owner"
            /\ proc'[p].user = proc[p].user /\ proc'[p].now = proc[p].now
            /\ proc'[p].err = proc[p].err
            /\ proc'[p].todo = FindActiveByUserId(proc[p].user)
        BY <1>1, <2>2 DEF Become, Goroutine
      <3>2. OwnersHeld(proc[p])'
        BY <1>1, <2>1, <3>1 DEF OwnersHeld, HoldsOwners, OwnerPlaces
      <3>3. \A s \in Sessions : InForce(s)' /\ Repairing(proc[p], s) => Repairing(proc[p], s)'
        BY <1>1, <3>1, FoundAll DEF InForce, Repairing
      <3> QED
        BY <1>1, <2>1, <3>2, <3>3, OwnersOnwards
    <2>3. CASE Become(p, [proc[p] EXCEPT !.err = TRUE, !.pc = "rfOwners"]) /\ Fails(p)
      <3>1. /\ proc'[p].pc = "rfOwners" /\ proc'[p].op = "owner"
            /\ proc'[p].user = proc[p].user /\ proc'[p].now = proc[p].now
            /\ proc'[p].err = TRUE /\ proc'[p].todo = {}
        BY <1>1, <2>1, <2>3 DEF Become, Goroutine, GoroutineOK
      <3>2. faults' > 0
        BY <1>1, <2>3 DEF Fails, CallsFail
      <3>3. OwnersHeld(proc[p])'
        BY <1>1, <3>1, <3>2 DEF OwnersHeld, HoldsOwners, OwnerPlaces
      <3>4. \A s \in Sessions : Repairing(proc[p], s) => Repairing(proc[p], s)'
        BY <1>1, <3>1 DEF Repairing
      <3> QED
        BY <1>1, <2>1, <3>3, <3>4, OwnersOnwards
    <2> QED
      BY <1>2, <2>2, <2>3 DEF RefreshSessions
  <1>3. CASE RefreshOwners(p)
    <2>1. UNCHANGED cache /\ proc[p].pc = "rfOwners"
      BY <1>3 DEF RefreshOwners, At
    <2>2. CASE Become(p, [proc[p] EXCEPT !.owners = userOwners[proc[p].user],
                             !.pc = "rfWrite"])
      <3>1. /\ proc'[p].pc = "rfWrite" /\ proc'[p].op = "owner"
            /\ proc'[p].user = proc[p].user /\ proc'[p].now = proc[p].now
            /\ proc'[p].err = proc[p].err /\ proc'[p].todo = proc[p].todo
            /\ proc'[p].owners = userOwners[proc[p].user]
        BY <1>1, <2>2 DEF Become, Goroutine
      <3>2. OwnersHeld(proc[p])'
        BY <1>1, <2>1, <3>1 DEF OwnersHeld, HoldsOwners, OwnerPlaces
      <3>3. \A s \in Sessions : Repairing(proc[p], s) => Repairing(proc[p], s)'
        BY <1>1, <2>1, <3>1 DEF Repairing
      <3> QED
        BY <1>1, <2>1, <3>2, <3>3, OwnersOnwards
    <2>3. CASE Invalidate(p) /\ proc[p].err
      <3>1. OwnersHeld(proc[p])'
        BY <1>1, <2>3, InvalidateIs DEF OwnersHeld, HoldsOwners, OwnerPlaces
      <3>2. \A s \in Sessions : Repairing(proc[p], s) => Repairing(proc[p], s)'
        BY <1>1, <2>3, InvalidateIs DEF Repairing
      <3> QED
        BY <1>1, <2>1, <3>1, <3>2, OwnersOnwards
    <2>4. CASE Fails(p) /\ Become(p, [proc[p] EXCEPT !.clear = {t.sid : t \in proc[p].todo},
                             !.todo = {}, !.err = TRUE, !.pc = "rfClear"])
      <3>1. /\ proc'[p].pc = "rfClear" /\ proc'[p].op = "owner"
            /\ proc'[p].user = proc[p].user
        BY <1>1, <2>4 DEF Become, Goroutine
      <3>2. faults' > 0
        BY <1>1, <2>4 DEF Fails, CallsFail
      <3>3. OwnersHeld(proc[p])'
        BY <1>1, <3>1, <3>2 DEF OwnersHeld, HoldsOwners, OwnerPlaces
      <3>4. \A s \in Sessions : Repairing(proc[p], s) => Repairing(proc[p], s)'
        BY <1>1, <3>1 DEF Repairing
      <3> QED
        BY <1>1, <2>1, <3>3, <3>4, OwnersOnwards
    <2> QED
      BY <1>3, <2>2, <2>3, <2>4 DEF RefreshOwners
  <1>4. CASE RefreshDone(p)
    <2>1. UNCHANGED <<cache, faults>> /\ proc[p].pc = "rfWrite" /\ proc[p].todo = {}
      BY <1>4 DEF RefreshDone, At
    <2>2. CASE proc[p].err
      <3>0. Invalidate(p)
        BY <1>4, <2>2 DEF RefreshDone
      <3>1. OwnersHeld(proc[p])'
        BY <1>1, <2>1, <2>2, <3>0, InvalidateIs DEF OwnersHeld, HoldsOwners, OwnerPlaces
      <3>2. \A s \in Sessions : Repairing(proc[p], s) => Repairing(proc[p], s)'
        BY <1>1, <3>0, InvalidateIs DEF Repairing
      <3> QED
        BY <1>1, <2>1, <3>1, <3>2, OwnersOnwards
    <2>3. CASE ~proc[p].err
      <3>0. proc'[p] = Idle
        BY <1>4, <2>3, ReturnIs DEF RefreshDone
      <3>1. OwnersHeld(proc[p])'
        BY <3>0 DEF OwnersHeld, HoldsOwners, OwnerPlaces, Idle
      <3>2. \A s \in Sessions : ~Repairing(proc[p], s)
        BY <2>1, <2>3 DEF Repairing, Among
      <3> QED
        BY <1>1, <2>1, <3>1, <3>2, OwnersOnwards
    <2> QED
      BY <2>2, <2>3
  <1>5. CASE RefreshWrite(p)
    <2>1. PICK t \in proc[p].todo :
             /\ IF sess[t.sid].exp > proc[p].now
                THEN Rewrite(p, t.sid, [user |-> sess[t.sid].user, wh |-> t.wh,
                                        owners |-> proc[p].owners,
                                        roles |-> sess[t.sid].roles, exp |-> 0])
                ELSE Succeeds /\ UNCHANGED cache
             /\ Become(p, [proc[p] EXCEPT !.todo = @ \ {t},
                                          !.err = @ \/ faults' # faults])
      BY <1>5 DEF RefreshWrite
    <2>2. proc[p].pc = "rfWrite" /\ t.sid \in Sessions
      BY <1>1, <1>5 DEF RefreshWrite, At, Goroutine, Found
    <2>3. /\ proc'[p].pc = "rfWrite" /\ proc'[p].op = "owner"
          /\ proc'[p].user = proc[p].user /\ proc'[p].now = proc[p].now
          /\ proc'[p].owners = proc[p].owners
          /\ proc'[p].todo = proc[p].todo \ {t}
      BY <1>1, <2>1, <2>2 DEF Become, Goroutine
    <2>4. proc'[p].err <=> (proc[p].err \/ faults' # faults)
      BY <1>1, <2>1 DEF Become, Goroutine
    <2>5. proc[p].owners = userOwners[proc[p].user]
      BY <1>1, <2>2 DEF OwnersHeld, HoldsOwners
    <2>6. OwnersHeld(proc[p])'
      <3>1. proc'[p].err => faults' > 0
        BY <1>1, <2>4 DEF OwnersHeld
      <3> QED
        BY <1>1, <2>2, <2>3, <2>5, <3>1 DEF OwnersHeld, HoldsOwners, OwnerPlaces
    <2>7. \/ ~(sess[t.sid].exp > proc[p].now) /\ UNCHANGED cache
          \/ \E e : SetCache(t.sid, e) /\ e.owners = proc[p].owners
          \/ DeleteCache(t.sid)
      <3>1. ~CallsFail("owner", 2)
        BY <1>1, SessionAssumption DEF CallsFail, RefreshRecovers
      <3> DEFINE e == [user |-> sess[t.sid].user, wh |-> t.wh, owners |-> proc[p].owners,
                       roles |-> sess[t.sid].roles, exp |-> 0]
      <3>2. \A x : [e EXCEPT !.exp = x].owners = proc[p].owners
        OBVIOUS
      <3>3. Rewrite(p, t.sid, e) =>
              DeleteCache(t.sid) \/ \E f : SetCache(t.sid, f) /\ f.owners = proc[p].owners
        <4> HIDE DEF e
        <4> QED
          BY <1>1, <3>1, <3>2 DEF Rewrite, FailClosed
      <3> QED
        BY <2>1, <3>3
    <2>8. ASSUME NEW s \in Sessions, InForce(s)', ~RepairedByOther(p, s)
          PROVE  cache'[s].owners = userOwners[sess[s].user] \/ Repairing(proc[p], s)'
      <3>1. cache \in [Sessions -> Entry] /\ sess[s].exp \in Nat /\ clock \in Nat
            /\ proc[p].now \in Nat
        BY <1>1 DEF SessionInv, TypeOK, SessRow, Goroutine
      <3>2. CASE s = t.sid
        <4>1. UNCHANGED cache => ~InForce(s)' \/ sess[s].exp > proc[p].now
          BY <1>1, <3>1 DEF InForce
        <4>2. CASE cache'[s].owners = proc[p].owners
          <5>1. proc[p].user = sess[s].user
            BY <2>1, <2>2, <3>2 DEF FoundInv, Theirs
          <5> QED
            BY <2>5, <4>2, <5>1
        <4> QED
          BY <1>1, <2>7, <2>8, <3>1, <3>2, <4>1, <4>2 DEF DeleteCache, SetCache, InForce
      <3>3. CASE s # t.sid
        <4>1. cache'[s] = cache[s]
          BY <2>2, <2>7, <3>1, <3>3 DEF DeleteCache, SetCache
        <4>2. InForce(s)
          BY <1>1, <2>8, <4>1 DEF InForce
        <4>3. cache[s].owners = userOwners[sess[s].user] \/ Repairing(proc[p], s)
          BY <2>8, <4>2, OwnersBefore
        <4>4. Repairing(proc[p], s) => Repairing(proc[p], s)'
          BY <1>1, <2>2, <2>3, <2>4, <3>3 DEF Repairing, Among
        <4> QED
          BY <4>1, <4>3, <4>4
      <3> QED
        BY <3>2, <3>3
    <2> QED
      BY <1>1, <2>6, <2>8 DEF OwnersMine
  <1> QED
    BY <1>2, <1>3, <1>4, <1>5

LEMMA OwnersInvalidate ==
  ASSUME RefreshRecovers, SessionInv, FoundInv, OwnersInv, [Next]_vars,
         NEW p \in Procs, Step(p),
         InvalidateFind(p) \/ InvalidateOne(p) \/ InvalidateDbDone(p)
         \/ ClearOne(p) \/ ClearDone(p)
  PROVE  OwnersMine(p)
  <1>1. /\ proc[p] \in Goroutine /\ OwnersHeld(proc[p])
        /\ proc \in [Procs -> Goroutine]
        /\ sess \in [Sessions -> SessRow]
        /\ UNCHANGED <<userOwners, clock>>
        /\ proc[p].pc \in {"invFind", "invDb", "invClear", "rfClear"}
        /\ faults \in Nat /\ MaxFaults \in Nat
    BY ProcOK, ProcType, SessionAssumption DEF SessionInv, TypeOK, OwnersInv, At,
       InvalidateFind, InvalidateOne, InvalidateDbDone, ClearOne, ClearDone
  <1>2. faults' \in Nat /\ faults' >= faults
    <2>1. \A op, n : CallsFail(op, n) => faults' = faults + n
      BY DEF CallsFail
    <2>2. faults' = faults \/ faults' = faults + 1
      BY <2>1 DEF InvalidateFind, InvalidateOne, InvalidateDbDone, ClearOne, ClearDone,
         Succeeds, Fails, DropEntry
    <2> QED
      BY <1>1, <2>2
  <1>3. proc[p].op = "owner" /\ proc[p].pc \in {"invFind", "invDb"} => ~Fails(p)
    BY <1>1 DEF OwnersHeld, Fails, CallsFail, RefreshRecovers
  <1>4. ASSUME \/ proc'[p] = Idle
               \/ /\ proc'[p].op = proc[p].op
                  /\ proc'[p].pc \in {"invFind", "invDb", "invClear", "rfClear"}
                  /\ proc[p].pc = "invClear" => proc'[p].pc = "invClear"
                  /\ proc'[p].err => proc[p].err
        PROVE  OwnersHeld(proc[p])'
    BY <1>1, <1>2, <1>4 DEF OwnersHeld, HoldsOwners, OwnerPlaces, Idle
  <1>5. CASE InvalidateFind(p)
    <2>1. /\ proc[p].pc = "invFind" /\ UNCHANGED <<cache, sess>>
      BY <1>5 DEF InvalidateFind, At
    <2>2. CASE Become(p, [proc[p] EXCEPT !.todo = FindActiveByUserId(proc[p].user),
                   !.clear = {t.sid : t \in FindActiveByUserId(proc[p].user)}, !.pc = "invDb"])
      <3>1. /\ proc'[p].pc = "invDb" /\ proc'[p].op = proc[p].op
            /\ proc'[p].user = proc[p].user /\ proc'[p].err = proc[p].err
            /\ proc'[p].todo = FindActiveByUserId(proc[p].user)
        BY <1>1, <2>2 DEF Become, Goroutine
      <3>2. \A s \in Sessions : InForce(s)' /\ Repairing(proc[p], s) => Repairing(proc[p], s)'
        BY <2>1, <3>1, FoundAll DEF InForce, Repairing
      <3> QED
        BY <1>1, <1>4, <2>1, <3>1, <3>2, OwnersOnwards
    <2>3. CASE Return(p)
      <3>1. proc'[p] = Idle
        BY <2>3, ReturnIs
      <3>2. ASSUME NEW s \in Sessions, InForce(s)', Repairing(proc[p], s)
            PROVE  FALSE
        <4>1. proc[p].op = "owner" /\ sess[s].status = "ACTIVE" /\ sess[s].user = proc[p].user
          BY <2>1, <3>2 DEF InForce, Repairing
        <4>2. FindActiveByUserId(proc[p].user) # {}
          BY <4>1, FoundAll DEF Among
        <4>3. proc'[p].pc = "invDb"
          <5>1. Become(p, [proc[p] EXCEPT !.todo = FindActiveByUserId(proc[p].user),
                   !.clear = {t.sid : t \in FindActiveByUserId(proc[p].user)}, !.pc = "invDb"])
            BY <1>3, <1>5, <2>1, <4>1, <4>2 DEF InvalidateFind
          <5> QED
            BY <1>1, <5>1 DEF Become, Goroutine
        <4> QED
          BY <3>1, <4>3 DEF Idle
      <3> QED
        BY <1>1, <1>4, <2>1, <3>1, <3>2, OwnersOnwards
    <2> QED
      BY <1>5, <2>2, <2>3 DEF InvalidateFind
  <1>6. CASE InvalidateOne(p)
    <2>1. PICK t \in proc[p].todo :
             /\ \/ sess' = [sess EXCEPT ![t.sid].status = "INVALIDATED"]
                \/ Fails(p) /\ UNCHANGED sess
             /\ Become(p, [proc[p] EXCEPT !.todo = @ \ {t}])
      BY <1>6 DEF InvalidateOne
    <2>2. /\ proc[p].pc = "invDb" /\ UNCHANGED cache /\ t.sid \in Sessions
      BY <1>1, <1>6 DEF InvalidateOne, At, Goroutine, Found
    <2>3. /\ proc'[p].pc = "invDb" /\ proc'[p].op = proc[p].op
          /\ proc'[p].user = proc[p].user /\ proc'[p].err = proc[p].err
          /\ proc'[p].todo = proc[p].todo \ {t}
      BY <1>1, <2>1, <2>2 DEF Become, Goroutine
    <2>4. proc[p].op = "owner" => sess'[t.sid].status = "INVALIDATED"
      BY <1>1, <1>3, <2>1, <2>2 DEF SessRow
    <2>5. \A s \in Sessions :
             InForce(s)' /\ sess'[s].user = sess[s].user /\ Repairing(proc[p], s) =>
                Repairing(proc[p], s)'
      BY <2>2, <2>3, <2>4 DEF InForce, Repairing, Among
    <2> QED
      BY <1>1, <1>4, <2>2, <2>3, <2>5, OwnersOnwards
  <1>7. CASE InvalidateDbDone(p)
    <2>1. /\ proc[p].pc = "invDb" /\ UNCHANGED cache /\ proc[p].todo = {}
      BY <1>7 DEF InvalidateDbDone, At
    <2>2. \A s \in Sessions : ~Repairing(proc[p], s)
      BY <2>1 DEF Repairing, Among
    <2>3. \/ proc'[p] = Idle
          \/ /\ proc'[p].op = proc[p].op /\ proc'[p].pc = "invClear"
             /\ proc'[p].err = proc[p].err
      BY <1>7, GotoIs, ReturnIs DEF InvalidateDbDone
    <2> QED
      BY <1>1, <1>4, <2>1, <2>2, <2>3, OwnersOnwards
  <1>8. CASE ClearOne(p)
    <2>1. PICK s \in proc[p].clear :
             DropEntry(p, s) /\ Become(p, [proc[p] EXCEPT !.clear = @ \ {s}])
      BY <1>8 DEF ClearOne
    <2>2. /\ s \in Sessions /\ UNCHANGED sess /\ proc[p].pc \in {"rfClear", "invClear"}
      BY <1>1, <1>8 DEF ClearOne, Goroutine
    <2>3. /\ proc'[p].pc = proc[p].pc /\ proc'[p].op = proc[p].op
          /\ proc'[p].user = proc[p].user /\ proc'[p].err = proc[p].err
      BY <1>1, <2>1 DEF Become, Goroutine
    <2>4. \A x \in Sessions : Repairing(proc[p], x) => Repairing(proc[p], x)'
      BY <2>2, <2>3 DEF Repairing
    <2> QED
      BY <1>1, <1>4, <2>1, <2>2, <2>3, <2>4, OwnersOnwards DEF DropEntry
  <1>9. CASE ClearDone(p)
    <2>1. /\ UNCHANGED <<sess, cache>> /\ proc[p].pc \in {"rfClear", "invClear"}
      BY <1>9 DEF ClearDone
    <2>2. CASE proc[p].pc = "rfClear"
      <3>1. Invalidate(p)
        BY <1>9, <2>2 DEF ClearDone, At
      <3>2. /\ proc'[p].pc = "invFind" /\ proc'[p].op = proc[p].op
            /\ proc'[p].user = proc[p].user
        BY <3>1, InvalidateIs
      <3>3. \A x \in Sessions : Repairing(proc[p], x) => Repairing(proc[p], x)'
        BY <2>1, <2>2, <3>2 DEF Repairing
      <3>4. OwnersHeld(proc[p])'
        <4>1. faults' > 0 \/ proc[p].op # "owner"
          BY <1>1, <1>2, <2>2 DEF OwnersHeld
        <4> QED
          BY <3>2, <4>1 DEF OwnersHeld, HoldsOwners, OwnerPlaces
      <3> QED
        BY <2>1, <3>3, <3>4, OwnersOnwards
    <2>3. CASE proc[p].pc = "invClear"
      <3>1. proc'[p] = Idle
        BY <1>9, <2>3, ReturnIs DEF ClearDone, At
      <3>2. \A x \in Sessions : ~Repairing(proc[p], x)
        BY <2>3 DEF Repairing
      <3> QED
        BY <1>1, <1>4, <2>1, <3>1, <3>2, OwnersOnwards
    <2> QED
      BY <2>1, <2>2, <2>3
  <1> QED
    BY <1>5, <1>6, <1>7, <1>8, <1>9

\* Failed calls are only ever added up.
LEMMA FaultsGrow ==
  ASSUME SessionInv, NEW p \in Procs, Step(p)
  PROVE  faults \in Nat /\ faults' \in Nat /\ faults' >= faults
  <1>1. faults \in Nat
    BY DEF SessionInv, TypeOK
  <1>2. \A op, n : CallsFail(op, n) => faults' = faults + n
    BY DEF CallsFail
  <1>3. faults' = faults \/ faults' = faults + 1 \/ faults' = faults + 2
    BY <1>2 DEF Step, LoginCreate, ReadOwners, Populate, SwitchValidate, SwitchUpdate,
       SwitchReadRoles, LogoutInvalidate, CurrentRedis, CurrentHitDb,
       CurrentHitOwners, CurrentMissDb, CurrentMissOwners, HealRead, HealWrite,
       RefreshSessions, RefreshOwners, RefreshWrite, RefreshDone, InvalidateFind,
       InvalidateOne, InvalidateDbDone, ClearOne, ClearDone, MutateRoleRow, KeepRoleRow, Succeeds, Fails,
       FailClosed, DropEntry, Rewrite
  <1> QED
    BY <1>1, <1>3

LEMMA OwnersRequest ==
  ASSUME SessionInv, OwnersInv, [Next]_vars, [OwnersSteady]_vars,
         NEW p \in Procs, Request(p)
  PROVE  OwnersInv'
  <1>1. /\ \A q \in Procs \ {p} : proc'[q] = proc[q]
        /\ UNCHANGED <<sess, cache, clock>> /\ proc[p].pc = "idle"
    BY BecomeOne DEF Request, LoginResolveRoles, MutateOwners, MutateRoles, KeepRoles, Deactivate,
       SwitchContext, Logout, GetCurrentSession, Arrive, At
  <1>2. \/ /\ proc'[p].pc \in {"roleRows", "keepRows", "invFind", "loInvalidate", "gcRedis"}
           /\ proc'[p].op # "owner"
        \/ proc'[p].pc = "loginCreate" /\ proc'[p].op = "login"
        \/ proc'[p].pc = "swValidate" /\ proc'[p].op = "switch"
        \/ /\ proc'[p].pc = "rfSessions" /\ proc'[p].op = "owner"
           /\ proc'[p].user \in Users /\ proc'[p].now = clock /\ proc'[p].err = FALSE
    BY <1>1, Begins DEF Request
  <1>3. OwnersHeld(proc[p])'
    BY <1>1, <1>2 DEF OwnersHeld, HoldsOwners, OwnerPlaces, SessionInv, TypeOK
  <1>4. \A q \in Procs, s \in Sessions : Repairing(proc[q], s) => Repairing(proc[q], s)'
    BY <1>1 DEF Repairing
  <1>5. faults \in Nat /\ faults' \in Nat /\ faults' >= faults
    <2>1. faults \in Nat
      BY DEF SessionInv, TypeOK
    <2>2. \A op, n : CallsFail(op, n) => faults' = faults + n
      BY DEF CallsFail
    <2>3. faults' = faults \/ faults' = faults + 1
      BY <2>2 DEF Request, LoginResolveRoles, MutateOwners, MutateRoles, KeepRoles, Deactivate,
         SwitchContext, Logout, GetCurrentSession, Arrive, Succeeds
    <2> QED
      BY <2>1, <2>3
  <1>6. CASE UNCHANGED userOwners
    BY <1>1, <1>3, <1>4, <1>5, <1>6 DEF OwnersInv, OwnersKept, InForce, OwnersHeld,
       HoldsOwners, OwnerPlaces
  <1>7. ASSUME NEW u \in Users, MutateOwners(p, u)
        PROVE  OwnersInv'
    <2>1. \A v \in Users : v # u => userOwners'[v] = userOwners[v]
      BY <1>7 DEF MutateOwners, SessionInv, TypeOK
    <2>2. proc'[p].pc = "rfSessions" /\ proc'[p].op = "owner" /\ proc'[p].user = u
      BY <1>7, Begins
    <2>3. \A s \in Sessions : sess[s].status # "NONE" => sess[s].user \in Users
      BY DEF SessionInv, RowsHaveUsers
    <2>4. ASSUME NEW s \in Sessions
          PROVE  OwnersKept(s)'
      <3>1. CASE sess[s].user = u
        BY <1>1, <2>2, <3>1 DEF OwnersKept, Repairing
      <3>2. CASE sess[s].user # u
        <4>1. InForce(s) => userOwners'[sess[s].user] = userOwners[sess[s].user]
          BY <2>1, <2>3, <3>2 DEF InForce
        <4> QED
          BY <1>1, <1>4, <4>1 DEF OwnersInv, OwnersKept, InForce
      <3> QED
        BY <3>1, <3>2
    <2>5. ASSUME NEW q \in Procs, q # p
          PROVE  OwnersHeld(proc[q])'
      <3>1. /\ proc[q] \in Goroutine /\ GoroutineOK(proc[q]) /\ OwnersHeld(proc[q])
            /\ proc'[q] = proc[q] /\ UNCHANGED <<sess, clock>>
        BY <1>1, <2>5, ProcOK DEF OwnersInv
      <3>2. proc[q].pc \in HoldsOwners => userOwners'[proc[q].user] = userOwners[proc[q].user]
        BY <1>1, <2>2 DEF OwnersSteady, vars
      <3> QED
        BY <1>5, <3>1, <3>2 DEF OwnersHeld, OwnerPlaces
    <2> QED
      BY <1>3, <2>4, <2>5 DEF OwnersInv
  <1> QED
    BY <1>6, <1>7 DEF Request, LoginResolveRoles, MutateRoles, KeepRoles, Deactivate,
       SwitchContext, Logout, GetCurrentSession, Arrive

LEMMA OwnersNext ==
  ASSUME FaultyOps \cap {"login", "switch"} = {}, RefreshRecovers,
         SessionInv, FoundInv, OwnersInv, [Next]_vars, [OwnersSteady]_vars
  PROVE  OwnersInv'
  <1>1. ASSUME NEW p \in Procs, Step(p)
        PROVE  OwnersInv'
    <2>1. OwnersMine(p)
      <3>1. CASE MutateRoleRow(p)
        <4>1. proc[p].op # "owner"
          BY <3>1, RoleRowGoes DEF OwnersInv, OwnersHeld, OwnerPlaces
        <4>2. OwnersHeld(proc[p])'
          BY <3>1, <4>1, RoleRowGoes DEF OwnersHeld, HoldsOwners, Idle
        <4> QED
          BY <1>1, <3>1, <4>1, <4>2, RoleRowGoes, OwnersCalm
      <3>2. CASE KeepRoleRow(p)
        <4>1. proc[p].op # "owner" /\ OwnersHeld(proc[p])
          BY <3>2, KeepRowGoes DEF OwnersInv, OwnersHeld, OwnerPlaces
        <4>2. OwnersHeld(proc[p])'
          BY <3>2, <4>1, KeepRowGoes, ReturnIs DEF OwnersHeld, HoldsOwners, OwnerPlaces, Idle
        <4> QED
          BY <1>1, <3>2, <4>1, <4>2, KeepRowGoes, OwnersCalm
      <3> QED
        BY <1>1, <3>1, <3>2, OwnersSession, OwnersCurrent, OwnersRefresh, OwnersInvalidate DEF Step
    <2>2. /\ UNCHANGED <<userOwners, clock>>
          /\ \A q \in Procs \ {p} : proc'[q] = proc[q]
          /\ faults \in Nat /\ faults' \in Nat /\ faults' >= faults
      BY <1>1, StepKeeps, BecomeOne, FaultsGrow
    <2>3. ASSUME NEW s \in Sessions
          PROVE  OwnersKept(s)'
      <3>1. CASE ~RepairedByOther(p, s)
        BY <2>1, <3>1 DEF OwnersMine, OwnersKept
      <3>2. CASE RepairedByOther(p, s)
        <4>1. PICK q \in Procs \ {p} : Repairing(proc[q], s)
          BY <3>2 DEF RepairedByOther
        <4>2. InForce(s)' => sess'[s].user = sess[s].user
          <5>1. CASE LoginCreate(p)
            <6>1. UNCHANGED cache /\ cache[proc[p].sid] = Gone
              BY <1>1, <5>1, ProcOK DEF LoginCreate, At, GoroutineOK, SessionInv,
                 CacheBelongsToSession, Goroutine
            <6>2. s # proc[p].sid => sess'[s] = sess[s]
              BY <5>1 DEF LoginCreate, SessionInv, TypeOK
            <6> QED
              BY <6>1, <6>2 DEF InForce
          <5>2. CASE ~LoginCreate(p)
            BY <1>1, <5>2, RowsDoWane DEF RowsWane, InForce
          <5> QED
            BY <5>1, <5>2
        <4> QED
          BY <2>2, <4>1, <4>2 DEF OwnersKept, Repairing
      <3> QED
        BY <3>1, <3>2
    <2>4. ASSUME NEW q \in Procs, q # p
          PROVE  OwnersHeld(proc[q])'
      BY <2>2, <2>4 DEF OwnersInv, OwnersHeld, HoldsOwners, OwnerPlaces
    <2> QED
      BY <2>1, <2>3, <2>4 DEF OwnersInv, OwnersMine
  <1>2. ASSUME NEW p \in Procs, Request(p)
        PROVE  OwnersInv'
    BY <1>2, OwnersRequest
  <1>3. CASE \/ \E s \in Sessions : ExpireOnRequest(s)
             \/ \E r \in Roles : UpdateRole(r)
             \/ Tick \/ UNCHANGED vars
    <2>1. UNCHANGED <<proc, userOwners, faults>>
      BY <1>3 DEF ExpireOnRequest, UpdateRole, Tick, vars
    <2>2. \A s \in Sessions :
             /\ sess'[s].user = sess[s].user /\ sess'[s].exp = sess[s].exp
             /\ sess'[s].status = "ACTIVE" => sess[s].status = "ACTIVE"
      BY <1>3 DEF ExpireOnRequest, UpdateRole, Tick, vars, SessionInv, TypeOK, SessRow
    <2>3. \A s \in Sessions : cache'[s] # Gone => cache'[s] = cache[s]
      BY <1>3 DEF ExpireOnRequest, UpdateRole, Tick, vars, SessionInv, TypeOK
    <2>4. clock \in Nat /\ (clock' = clock \/ clock' = clock + 1)
      BY <1>3 DEF ExpireOnRequest, UpdateRole, Tick, vars, SessionInv, TypeOK
    <2>5. ASSUME NEW s \in Sessions
          PROVE  OwnersKept(s)'
      <3>1. sess[s].exp \in Nat
        BY DEF SessionInv, TypeOK, SessRow
      <3>2. InForce(s)' => InForce(s) /\ cache'[s] = cache[s]
        BY <2>2, <2>3, <2>4, <3>1 DEF InForce
      <3>3. \A p \in Procs : Repairing(proc[p], s) => Repairing(proc[p], s)'
        BY <2>1, <2>2 DEF Repairing
      <3> QED
        BY <2>1, <2>2, <3>2, <3>3 DEF OwnersInv, OwnersKept
    <2>6. ASSUME NEW p \in Procs
          PROVE  OwnersHeld(proc[p])'
      <3>1. proc[p].now <= clock => proc[p].now <= clock'
        BY <2>4, ProcOK DEF Goroutine
      <3> QED
        BY <2>1, <3>1 DEF OwnersInv, OwnersHeld, HoldsOwners, OwnerPlaces
    <2> QED
      BY <2>5, <2>6 DEF OwnersInv
  <1> QED
    BY <1>1, <1>2, <1>3 DEF Next

LEMMA OwnersInvInit == Init => OwnersInv
  <1> SUFFICES ASSUME Init PROVE OwnersInv
    OBVIOUS
  <1>1. \A p \in Procs : proc[p] = Idle
    BY DEF Init
  <1> QED
    BY <1>1 DEF Init, OwnersInv, OwnersKept, InForce, OwnersHeld, HoldsOwners,
       OwnerPlaces, Idle

\* The documents in force of a user's sessions name the owners the user has.
OwnersAgreeFor(u) ==
    \A s \in Sessions : sess[s].user = u /\ InForce(s) =>
        cache[s].owners = userOwners[u]

\* When no handler of a user runs, their documents in force name the owners in the
\* database (syncOwnerSessionsAfterMutation, healSessionOwnerCache): a refresh that
\* meets a failure rewrites, deletes or invalidates every session it found.
\* No owner mutation commits between another handler's read of the owners and its
\* write.  Logins and switches store the empty list when they cannot read them, and
\* a refresh that fails twice may leave the document.
THEOREM OwnersAgreeAtRest ==
  ASSUME FaultyOps \cap {"login", "switch"} = {}, RefreshRecovers
  PROVE  Spec /\ [][OwnersSteady]_vars => [](\A u \in Users : AtRest(u) => OwnersAgreeFor(u))
  <1>1. Init => OwnersInv
    BY OwnersInvInit
  <1>2. SessionInv /\ FoundInv /\ OwnersInv /\ [Next]_vars /\ [OwnersSteady]_vars
           => OwnersInv'
    BY OwnersNext
  <1>3. OwnersInv => \A u \in Users : AtRest(u) => OwnersAgreeFor(u)
    <2> SUFFICES ASSUME OwnersInv, NEW u \in Users, AtRest(u) PROVE OwnersAgreeFor(u)
      OBVIOUS
    <2>1. ASSUME NEW s \in Sessions, sess[s].user = u, NEW p \in Procs
          PROVE  ~Repairing(proc[p], s)
      BY <2>1 DEF AtRest, At, WorksFor, Repairing, HasRow
    <2> QED
      BY <2>1 DEF OwnersInv, OwnersKept, InForce, OwnersAgreeFor
  <1> QED
    BY <1>1, <1>2, <1>3, SessionInvariant, FoundInvariant, PTL DEF Spec

\* At rest as a whole, so are all users, those of the rows among them.
THEOREM OwnersAgree ==
  ASSUME FaultyOps \cap {"login", "switch"} = {}, RefreshRecovers
  PROVE  Spec /\ [][OwnersSteady]_vars => []OwnersAgreeWhenQuiet
  <1>1. SessionInv /\ (\A u \in Users : AtRest(u) => OwnersAgreeFor(u)) => OwnersAgreeWhenQuiet
    BY DEF OwnersAgreeWhenQuiet, Quiet, AtRest, OwnersAgreeFor, SessionInv,
       RowsHaveUsers, CacheBelongsToSession, InForce
  <1> QED
    BY <1>1, OwnersAgreeAtRest, SessionInvariant, PTL

-----------------------------------------------------------------------------
(* Requests of one user one after the other.                                  *)

\* No two goroutines work for the same user.
OnePerUser ==
    \A p, q \in Procs :
        p # q /\ ~At(p, "idle") /\ ~At(q, "idle") => WorksFor(proc[p]) # WorksFor(proc[q])

\* A user whose requests follow each other meets none of the three overlaps,
\* whatever requests of other users run meanwhile.
THEOREM OneByOneIsEnough ==
  Spec /\ []OnePerUser =>
     []SwitchesApart /\ [][RolesSteady]_vars /\ [][OwnersSteady]_vars
  <1>1. FoundInv /\ OnePerUser => SwitchesApart
    <2> SUFFICES ASSUME FoundInv, OnePerUser,
                        NEW p \in Procs, NEW q \in Procs, NEW s \in Sessions,
                        p # q, Moving(proc[p], s), Carries(proc[q], s)
                 PROVE  FALSE
      BY DEF SwitchesApart
    <2>1. ~At(p, "idle") /\ WorksFor(proc[p]) = sess[s].user
      BY DEF Moving, At, WorksFor, HasRow
    <2>2. ~At(q, "idle") /\ WorksFor(proc[q]) = sess[s].user
      BY DEF Carries, HoldsWarehouse, At, WorksFor, HasRow, FoundInv, Theirs, Among
    <2> QED
      BY <2>1, <2>2 DEF OnePerUser
  <1>2. ASSUME SessionInv, OnePerUser', NEW p \in Procs, Step(p) \/ Request(p), NEW u,
               UNCHANGED sess, proc'[p].pc \notin HasRow \cup {"idle"}, proc'[p].user = u,
               NEW q \in Procs, q # p, proc[q].pc \in {"loginCreate", "keepRows"} \cup HoldsOwners
        PROVE  proc[q].user \in Users /\ proc[q].user # u
    <2>1. proc'[q] = proc[q]
      BY <1>2, BecomeOne
    <2>2. proc[q].user \in Users /\ WorksFor(proc[q])' = proc[q].user
      BY <1>2, <2>1, ProcOK DEF SessionInv, RowsHaveUsers, GoroutineOK, Goroutine,
         WorksFor, HoldsOwners, HasRow, HasUser
    <2>3. WorksFor(proc[p])' = u
      BY <1>2 DEF WorksFor
    <2> QED
      BY <1>2, <2>1, <2>2, <2>3 DEF OnePerUser, At, HoldsOwners
  <1>3. SessionInv /\ OnePerUser' /\ [Next]_vars => [RolesSteady]_vars /\ [OwnersSteady]_vars
    <2> SUFFICES ASSUME SessionInv, OnePerUser', Next
                 PROVE  RolesSteady /\ OwnersSteady
      OBVIOUS
    <2>1. CASE UNCHANGED <<userRoles, userOwners>>
      BY <2>1 DEF RolesSteady, OwnersSteady
    <2>2. ASSUME NEW p \in Procs, NEW u \in Users, MutateOwners(p, u)
          PROVE  RolesSteady /\ OwnersSteady
      <3>1. proc[p].pc = "idle" /\ UNCHANGED <<sess, userRoles>>
        BY <2>2 DEF MutateOwners, At
      <3>2. proc'[p].pc = "rfSessions" /\ proc'[p].user = u
        BY <2>2, Begins
      <3>3. \A v \in Users : v # u => userOwners'[v] = userOwners[v]
        BY <2>2 DEF MutateOwners, SessionInv, TypeOK
      <3>4. \A q \in Procs : proc[q].pc \in HoldsOwners =>
               q # p /\ proc[q].user \in Users /\ proc[q].user # u
        BY <1>2, <2>2, <3>1, <3>2 DEF HoldsOwners, HasRow, Request
      <3> QED
        BY <3>1, <3>3, <3>4 DEF RolesSteady, OwnersSteady
    <2>3. ASSUME NEW p \in Procs, MutateRoleRow(p)
          PROVE  RolesSteady /\ OwnersSteady
      <3>1. /\ proc[p].pc = "roleRows" /\ UNCHANGED <<sess, userOwners>>
            /\ \A v \in Users : v # proc[p].user => userRoles'[v] = userRoles[v]
        BY <2>3, RoleRowGoes
      <3>2. CASE UNCHANGED userRoles
        BY <3>1, <3>2 DEF RolesSteady, OwnersSteady
      <3>3. CASE proc'[p].pc \in {"invFind", "roleRows"} /\ proc'[p].user = proc[p].user
        <4>1. \A q \in Procs : proc[q].pc \in {"loginCreate", "keepRows"} =>
                 q # p /\ proc[q].user \in Users /\ proc[q].user # proc[p].user
          BY <1>2, <2>3, <3>1, <3>3 DEF HasRow, Step
        <4> QED
          BY <3>1, <4>1 DEF RolesSteady, OwnersSteady, At
      <3> QED
        BY <2>3, <3>2, <3>3, RoleRowGoes
    <2>4. ASSUME NEW p \in Procs, KeepRoleRow(p)
          PROVE  RolesSteady /\ OwnersSteady
      <3>1. /\ proc[p].pc = "keepRows" /\ UNCHANGED <<sess, userOwners>>
            /\ UNCHANGED userRoles \/ UNCHANGED proc
            /\ \A v \in Users : v # proc[p].user => userRoles'[v] = userRoles[v]
        BY <2>4, KeepRowGoes
      <3>2. CASE UNCHANGED userRoles
        BY <3>1, <3>2 DEF RolesSteady, OwnersSteady
      <3>3. CASE UNCHANGED proc
        <4>1. \A q \in Procs \ {p} : proc[q].pc \in {"loginCreate", "keepRows"} =>
                 proc[q].user \in Users /\ proc[q].user # proc[p].user
          BY <1>2, <2>4, <3>1, <3>3 DEF HasRow, Step
        <4> QED
          BY <2>4, <3>1, <4>1 DEF RolesSteady, OwnersSteady, At
      <3> QED
        BY <3>1, <3>2, <3>3
    <2>5. \/ UNCHANGED <<userRoles, userOwners>>
          \/ \E p \in Procs, u \in Users : MutateOwners(p, u)
          \/ \E p \in Procs : MutateRoleRow(p) \/ KeepRoleRow(p)
      BY StepKeeps DEF Next, Request, LoginResolveRoles, MutateRoles, KeepRoles, Deactivate,
         SwitchContext, Logout, GetCurrentSession, Arrive, ExpireOnRequest, UpdateRole, Tick
    <2> QED
      BY <2>1, <2>2, <2>3, <2>4, <2>5
  <1> QED
    BY <1>1, <1>3, SessionInvariant, FoundInvariant, PTL DEF Spec
=============================================================================
