-------------------------- MODULE RoleAdminProofs --------------------------
(***************************************************************************)
(* Proofs about RoleAdmin, for any number of requests, roles and mappings. *)
(*                                                                         *)
(* The invariant says what a request in progress knows: a mapping it is    *)
(* about to write is one of the role it will refresh, since no write ever  *)
(* moves a mapping to another role; what a refresh has read was active     *)
(* together, and still is unless a mapping of the role was written since.  *)
(***************************************************************************)
EXTENDS RoleAdmin, TLAPS

JobKnows(r) ==
    LET me == job[r] IN
    /\ me.pc \notin {"idle", "done"} => me.role \in Roles
    /\ me.pc \in {"check", "create", "find", "write"} => me.row \in ApiRow /\ me.row.role = me.role
    /\ me.pc \in {"find", "write", "deactivate"} => me.api \in Apis
    /\ me.pc \in {"write", "deactivate"} => api[me.api] # NoRow /\ api[me.api].role = me.role
    /\ me.pc = "set" =>
          /\ me.entries \in past[me.role]
          /\ ~me.stale => me.entries = Active(me.role)

RoleInv ==
    /\ RoleTypeOK
    /\ \A ro \in Roles : Active(ro) \in past[ro]
    /\ CacheFromPast /\ CacheAgrees
    /\ \A r \in Requests : JobKnows(r)

USE DEF Refreshing, Active

-----------------------------------------------------------------------------
LEMMA Calls ==
    ASSUME NEW pc \in {"idle", "check", "create", "find", "write", "deactivate", "roleCreate",
                       "roleWrite", "roleDelete", "done", "read", "set", "drop"},
           NEW ro \in Roles \cup {NoRole}, NEW a \in Apis \cup {NoApi},
           NEW row \in ApiRow \cup {NoRow}, NEW status \in Statuses, NEW entries \in SUBSET Entries
    PROVE  /\ Call(pc, ro, a, row, status, entries) \in Job
           /\ Call(pc, ro, a, row, status, entries).pc = pc
           /\ Call(pc, ro, a, row, status, entries).role = ro
           /\ Call(pc, ro, a, row, status, entries).api = a
           /\ Call(pc, ro, a, row, status, entries).row = row
           /\ Call(pc, ro, a, row, status, entries).entries = entries
BY DEF Call, Job

\* A request that has answered.
LEMMA Rests == ASSUME NEW pc \in {"idle", "done"} PROVE AtRest(pc) \in Job /\ AtRest(pc).pc = pc
BY Calls DEF AtRest, Statuses

\* A call that changes nothing but its own request, and ends no refresh.
LEMMA CallStep ==
    ASSUME RoleInv, NEW r \in Requests, NEW m \in Job,
           UNCHANGED <<api, cache, past, doubt>>,
           role' \in [Roles -> Statuses \cup {"absent", "deleted"}],
           job' = [job EXCEPT ![r] = m], JobKnows(r)',
           job[r].pc \in Refreshing => m.pc \in Refreshing /\ m.role = job[r].role
    PROVE  RoleInv'
<1>1. RoleTypeOK'
  BY DEF RoleInv, RoleTypeOK
<1>2. job'[r] = m /\ \A q \in Requests \ {r} : job'[q] = job[q]
  BY DEF RoleInv, RoleTypeOK
<1>3. \A q \in Requests : JobKnows(q)'
  BY <1>2 DEF RoleInv, JobKnows
<1>4. (\A ro \in Roles : Active(ro) \in past[ro])' /\ CacheFromPast'
  BY DEF RoleInv, CacheFromPast
<1>5. CacheAgrees'
  <2> SUFFICES ASSUME NEW ro \in Roles, cache[ro] # Absent, cache[ro] # Active(ro), ~doubt[ro]
               PROVE  \E q \in Requests : job'[q].pc \in Refreshing /\ job'[q].role = ro
    BY DEF CacheAgrees
  <2>1. PICK q \in Requests : job[q].pc \in Refreshing /\ job[q].role = ro
    BY DEF RoleInv, CacheAgrees
  <2>2. QED
    BY <1>2, <2>1
<1>6. QED
  BY <1>1, <1>3, <1>4, <1>5 DEF RoleInv

\* A request that answers without having come to its refresh.
LEMMA EndStep ==
    ASSUME RoleInv, NEW r \in Requests, End(r), UNCHANGED <<api, cache, past, doubt>>,
           role' \in [Roles -> Statuses \cup {"absent", "deleted"}],
           job[r].pc \notin Refreshing
    PROVE  RoleInv'
<1>1. AtRest("done") \in Job /\ AtRest("done").pc = "done"
  BY Rests
<1>2. job' = [job EXCEPT ![r] = AtRest("done")] /\ job'[r] = AtRest("done")
  BY DEF End, RoleInv, RoleTypeOK
<1>3. JobKnows(r)'
  BY <1>1, <1>2 DEF JobKnows
<1>4. QED
  BY <1>1, <1>2, <1>3, CallStep

\* A write of a mapping of ro leaves the other roles alone and makes the readers of ro stale.
LEMMA MappedStep ==
    ASSUME RoleInv, NEW r \in Requests, NEW ro \in Roles, NEW a \in Apis, NEW row \in ApiRow,
           Mapped(r, [api EXCEPT ![a] = row], ro),
           row.role = ro, api[a] # NoRow => api[a].role = ro,
           job[r].pc \notin Refreshing
    PROVE  RoleInv'
<1> DEFINE rows == [api EXCEPT ![a] = row]
<1>1. /\ api' = rows /\ past' = [past EXCEPT ![ro] = @ \cup {ActiveIn(rows, ro)}]
      /\ UNCHANGED <<role, cache, doubt>>
  BY DEF Mapped
<1>2. job'[r] = [pc |-> "read", role |-> ro, api |-> NoApi, row |-> NoRow, status |-> "ACTIVE",
                 entries |-> {}, stale |-> FALSE]
  BY DEF Mapped, OfRole, Call
<1>3. ASSUME NEW q \in Requests \ {r}
      PROVE  /\ job'[q] \in Job
             /\ job'[q].pc = job[q].pc /\ job'[q].role = job[q].role /\ job'[q].api = job[q].api
             /\ job'[q].row = job[q].row /\ job'[q].entries = job[q].entries
             /\ job'[q].stale = (job[q].stale \/ (job[q].pc = "set" /\ job[q].role = ro))
  <2> DEFINE s == job[q].stale \/ (job[q].pc = "set" /\ job[q].role = ro)
  <2>1. job'[q] = [job[q] EXCEPT !.stale = s] /\ job[q] \in Job
    BY DEF Mapped, RoleInv, RoleTypeOK
  <2>2. job[q].stale \in BOOLEAN
    BY <2>1 DEF Job
  <2>3. s \in BOOLEAN
    BY <2>2
  <2> HIDE DEF s
  <2>4. job'[q] \in Job /\ job'[q].stale = s
    BY <2>1, <2>3 DEF Job
  <2>5. QED
    BY <2>1, <2>4 DEF Job, s
<1>4. job' \in [Requests -> Job]
  <2>1. job'[r] \in Job
    BY <1>2 DEF Job, Statuses
  <2>2. \A q \in Requests : job'[q] \in Job
    BY <1>3, <2>1
  <2>3. job' = [q \in Requests |-> job'[q]]
    BY DEF Mapped
  <2>4. QED
    BY <2>2, <2>3
<1>5. \A x \in Roles : ActiveIn(rows, x) \in SUBSET Entries
  BY DEF ActiveIn, RoleInv, RoleTypeOK, ApiRow
<1>6. \A x \in Roles \ {ro} : ActiveIn(rows, x) = Active(x)
  BY RoleAssumption DEF ActiveIn, Active, RoleInv, RoleTypeOK, ApiRow
<1>7. \A x \in Roles : Active(x)' = ActiveIn(rows, x)
  BY <1>1 DEF ActiveIn
<1>8. RoleTypeOK'
  <2>1. past' \in [Roles -> SUBSET SUBSET Entries] /\ api' \in [Apis -> ApiRow \cup {NoRow}]
    <3> HIDE DEF rows
    <3>1. past' \in [Roles -> SUBSET SUBSET Entries]
      BY <1>1, <1>5 DEF RoleInv, RoleTypeOK
    <3> USE DEF rows
    <3>2. QED
      BY <1>1, <3>1 DEF RoleInv, RoleTypeOK
  <2>2. QED
    BY <1>1, <1>4, <2>1 DEF RoleInv, RoleTypeOK
<1> HIDE DEF rows
<1>9. \A x \in Roles : past[x] \subseteq past'[x] /\ (Active(x) \in past[x])'
  BY <1>1, <1>6, <1>7 DEF RoleInv, RoleTypeOK
<1>10. CacheFromPast'
  BY <1>1, <1>9 DEF RoleInv, CacheFromPast
<1>11. CacheAgrees'
  <2> SUFFICES ASSUME NEW x \in Roles, cache[x] # Absent, cache[x] # Active(x)', ~doubt[x]
               PROVE  \E q \in Requests : job'[q].pc \in Refreshing /\ job'[q].role = x
    BY <1>1 DEF CacheAgrees
  <2>1. CASE x = ro
    BY <1>2, <2>1
  <2>2. CASE x # ro
    <3>1. PICK q \in Requests : job[q].pc \in Refreshing /\ job[q].role = x
      BY <1>6, <1>7, <2>2 DEF RoleInv, CacheAgrees
    <3>2. QED
      BY <1>3, <3>1
  <2>3. QED
    BY <2>1, <2>2
<1>12. \A x \in Apis : api[x] # NoRow => api'[x] # NoRow /\ api'[x].role = api[x].role
  BY <1>1, RoleAssumption DEF RoleInv, RoleTypeOK, rows
<1>13. ASSUME NEW q \in Requests PROVE JobKnows(q)'
  <2>1. CASE q = r
    BY <1>2, <2>1 DEF JobKnows
  <2>2. CASE q # r
    <3> DEFINE me == job[q]
    <3>1. JobKnows(q)
      BY DEF RoleInv
    <3>2. /\ job'[q].pc = me.pc /\ job'[q].role = me.role /\ job'[q].api = me.api
          /\ job'[q].row = me.row /\ job'[q].entries = me.entries
          /\ job'[q].stale = (me.stale \/ (me.pc = "set" /\ me.role = ro))
      BY <1>3, <2>2
    <3>3. me.pc \in {"write", "deactivate"} => api'[me.api] # NoRow /\ api'[me.api].role = me.role
      BY <1>12, <3>1 DEF JobKnows
    <3>4. me.pc = "set" => me.entries \in past'[me.role]
      BY <1>9, <3>1 DEF JobKnows
    <3>5. me.pc = "set" /\ ~(me.stale \/ (me.pc = "set" /\ me.role = ro)) =>
            me.entries = ActiveIn(api', me.role)
      BY <1>1, <1>6, <3>1 DEF JobKnows
    <3>6. QED
      BY <3>1, <3>2, <3>3, <3>4, <3>5 DEF JobKnows
  <2>3. QED
    BY <2>1, <2>2
<1>14. QED
  BY <1>8, <1>9, <1>10, <1>11, <1>13 DEF RoleInv

-----------------------------------------------------------------------------
LEMMA RoleInvInit == RoleInit => RoleInv
<1> SUFFICES ASSUME RoleInit PROVE RoleInv
  OBVIOUS
<1>1. AtRest("idle") \in Job /\ AtRest("idle").pc = "idle"
  BY Rests
<1>2. \A ro \in Roles : Active(ro) \in SUBSET Entries
  BY DEF ActiveIn, RoleInit, ApiRow
<1>3. RoleTypeOK
  <2>1. past \in [Roles -> SUBSET SUBSET Entries]
    BY <1>2 DEF RoleInit
  <2>2. role \in [Roles -> Statuses \cup {"absent", "deleted"}]
    BY DEF RoleInit, Statuses
  <2>3. job \in [Requests -> Job]
    BY <1>1 DEF RoleInit
  <2>4. QED
    BY <2>1, <2>2, <2>3 DEF RoleInit, RoleTypeOK
<1>4. \A r \in Requests : JobKnows(r)
  BY <1>1 DEF RoleInit, JobKnows
<1>5. QED
  BY <1>3, <1>4 DEF RoleInit, RoleInv, CacheFromPast, CacheAgrees

LEMMA InvRoleBegins ==
    ASSUME RoleInv, NEW r \in Requests, RoleBegins(r)
    PROVE  RoleInv'
<1> Unwritten /\ job[r].pc = "idle"
  BY DEF RoleBegins, SaveApi, UpdateApi, ToggleActive, DeleteApi, LoginRefresh, SaveRole, UpdateRole,
         DeleteRole, Reject, Start
<1> USE DEF Unwritten
<1>1. ASSUME NEW m \in Job, Start(r, m),
             m.pc \notin {"idle", "done"} => m.role \in Roles,
             m.pc \in {"check", "find", "write"} => m.row \in ApiRow /\ m.row.role = m.role,
             m.pc \in {"find", "write", "deactivate"} => m.api \in Apis,
             m.pc \in {"write", "deactivate"} => api[m.api] # NoRow /\ api[m.api].role = m.role,
             m.pc \notin {"create", "set"}
      PROVE  RoleInv'
  <2>1. job' = [job EXCEPT ![r] = m] /\ job'[r] = m
    BY <1>1 DEF Start, RoleInv, RoleTypeOK
  <2>2. JobKnows(r)'
    BY <1>1, <2>1 DEF JobKnows
  <2>3. role' \in [Roles -> Statuses \cup {"absent", "deleted"}]
    BY DEF RoleInv, RoleTypeOK
  <2>4. QED
    BY <1>1, <2>1, <2>2, <2>3, CallStep
<1>2. CASE Reject(r)
  <2>1. AtRest("done") \in Job /\ AtRest("done").pc = "done"
    BY Rests
  <2>2. QED
    BY <1>1, <1>2, <2>1 DEF Reject
<1>3. ASSUME NEW ro \in Roles, NEW e \in Entries, SaveApi(r, ro, e), ~Reject(r) PROVE RoleInv'
  <2> DEFINE row == [role |-> ro, entry |-> e, active |-> TRUE]
  <2>1. row \in ApiRow /\ row.role = ro
    BY DEF ApiRow
  <2>2. Start(r, Call("check", ro, NoApi, row, "ACTIVE", {}))
    BY <1>3 DEF SaveApi, OfMapping
  <2> HIDE DEF row
  <2>3. QED
    BY <1>1, <2>1, <2>2, Calls DEF Statuses
<1>4. ASSUME NEW a \in Apis, NEW row \in ApiRow, UpdateApi(r, a, row), ~Reject(r) PROVE RoleInv'
  <2>1. row.role \in Roles
    BY DEF ApiRow
  <2>2. Start(r, Call("find", row.role, a, row, "ACTIVE", {}))
    BY <1>4 DEF UpdateApi, OfMapping
  <2>3. QED
    BY <1>1, <2>1, <2>2, Calls DEF Statuses
<1>5. ASSUME NEW a \in Apis, NEW on \in BOOLEAN, ToggleActive(r, a, on), ~Reject(r) PROVE RoleInv'
  <2> DEFINE row == [role |-> api[a].role, entry |-> api[a].entry, active |-> on]
  <2>1. api[a] # NoRow /\ api[a] \in ApiRow
    BY <1>5 DEF ToggleActive, RoleInv, RoleTypeOK
  <2>2. row \in ApiRow /\ row.role = api[a].role /\ api[a].role \in Roles
    BY <2>1 DEF ApiRow
  <2>3. Start(r, Call("write", api[a].role, a, row, "ACTIVE", {}))
    BY <1>5 DEF ToggleActive, OfMapping
  <2> HIDE DEF row
  <2>4. QED
    BY <1>1, <2>1, <2>2, <2>3, Calls DEF Statuses
<1>6. ASSUME NEW a \in Apis, DeleteApi(r, a), ~Reject(r) PROVE RoleInv'
  <2>1. api[a] # NoRow /\ api[a].role \in Roles
    BY <1>6 DEF DeleteApi, RoleInv, RoleTypeOK, ApiRow
  <2> DEFINE m == Call("deactivate", api[a].role, a, NoRow, "ACTIVE", {})
  <2>2. Start(r, m)
    BY <1>6 DEF DeleteApi, OfMapping
  <2>3. m \in Job /\ m.pc = "deactivate" /\ m.role = api[a].role /\ m.api = a
    BY <2>1 DEF Call, Job, Statuses
  <2> HIDE DEF m
  <2>4. /\ m.role \in Roles /\ m.api \in Apis
        /\ api[m.api] # NoRow /\ api[m.api].role = m.role
        /\ m.pc \notin {"check", "find", "write", "create", "set"}
    BY <2>1, <2>3
  <2>5. QED
    BY <1>1, <2>2, <2>3, <2>4
<1>7. ASSUME NEW ro \in Roles, LoginRefresh(r, ro) \/ SaveRole(r, ro) \/ DeleteRole(r, ro), ~Reject(r)
      PROVE  RoleInv'
  <2>1. PICK pc \in {"read", "roleCreate", "roleDelete"} :
            Start(r, Call(pc, ro, NoApi, NoRow, "ACTIVE", {}))
    BY <1>7 DEF LoginRefresh, SaveRole, DeleteRole, OfRole
  <2> DEFINE m == Call(pc, ro, NoApi, NoRow, "ACTIVE", {})
  <2>2. m \in Job /\ m.role = ro /\ m.pc \in {"read", "roleCreate", "roleDelete"}
    BY Calls DEF Statuses
  <2> HIDE DEF m
  <2>3. Start(r, m)
    BY <2>1 DEF m
  <2>4. QED
    BY <1>1, <2>2, <2>3
<1>8. ASSUME NEW ro \in Roles, NEW status \in Statuses, UpdateRole(r, ro, status), ~Reject(r)
      PROVE  RoleInv'
  <2>1. Start(r, Call("roleWrite", ro, NoApi, NoRow, status, {}))
    BY <1>8 DEF UpdateRole
  <2>2. QED
    BY <1>1, <2>1, Calls
<1>9. QED
  BY <1>2, <1>3, <1>4, <1>5, <1>6, <1>7, <1>8 DEF RoleBegins

LEMMA InvRoleContinues ==
    ASSUME RoleInv, NEW r \in Requests, RoleContinues(r)
    PROVE  RoleInv'
<1> DEFINE me == job[r]
<1> role \in [Roles -> Statuses \cup {"absent", "deleted"}] /\ me \in Job /\ JobKnows(r)
  BY DEF RoleInv, RoleTypeOK
<1>1. ASSUME Unwritten, End(r), me.pc \notin Refreshing PROVE RoleInv'
  BY <1>1, EndStep DEF Unwritten
<1>2. ASSUME NEW pc \in {"create", "write", "drop"}, Turn(r, pc), Unwritten,
             JobKnows(r)', me.pc \in Refreshing => pc = "drop"
      PROVE  RoleInv'
  <2>1. [me EXCEPT !.pc = pc] \in Job /\ [me EXCEPT !.pc = pc].pc = pc
        /\ [me EXCEPT !.pc = pc].role = me.role
    BY DEF Job
  <2>2. job' = [job EXCEPT ![r] = [me EXCEPT !.pc = pc]]
    BY <1>2 DEF Turn
  <2>3. QED
    BY <1>2, <2>1, <2>2, CallStep DEF Unwritten
<1>3. ASSUME NEW pc \in {"create", "write", "drop"}, Turn(r, pc)
      PROVE  /\ job'[r].pc = pc /\ job'[r].role = me.role
             /\ job'[r].api = me.api /\ job'[r].row = me.row
  BY <1>3 DEF Turn, Job, RoleInv, RoleTypeOK
<1>4. CASE SaveApiCheck(r)
  <2>1. CASE Turn(r, "create")
    BY <1>2, <1>3, <1>4, <2>1 DEF SaveApiCheck, JobKnows
  <2>2. QED
    BY <1>1, <1>4, <2>1 DEF SaveApiCheck
<1>5. CASE SaveApiCreate(r)
  <2>1. CASE End(r)
    <3>1. CASE Unwritten
      BY <1>1, <1>5, <2>1, <3>1 DEF SaveApiCreate
    <3>2. QED
      BY <1>5, <2>1, <3>1, Rests DEF SaveApiCreate, Mapped, End, OfRole, Call, AtRest, RoleInv, RoleTypeOK
  <2>2. CASE ~End(r)
    <3>1. PICK a \in Apis : api[a] = NoRow /\ Mapped(r, [api EXCEPT ![a] = me.row], me.role)
      BY <1>5, <2>2 DEF SaveApiCreate
    <3>2. me.row \in ApiRow /\ me.row.role = me.role /\ me.role \in Roles /\ me.pc = "create"
      BY <1>5 DEF SaveApiCreate, JobKnows
    <3>3. QED
      BY <3>1, <3>2, MappedStep
  <2>3. QED
    BY <2>1, <2>2
<1>6. CASE UpdateApiFind(r)
  <2>1. CASE Turn(r, "write")
    <3>1. /\ me.pc = "find" /\ Unwritten
          /\ api[me.api] # NoRow /\ api[me.api].role = me.role
      BY <1>6, <2>1 DEF UpdateApiFind, Turn, End, AtRest, Call, RoleInv, RoleTypeOK
    <3>2. JobKnows(r)'
      BY <1>3, <2>1, <3>1 DEF JobKnows, Unwritten
    <3>3. QED
      BY <1>2, <2>1, <3>1, <3>2
  <2>2. QED
    BY <1>1, <1>6, <2>1 DEF UpdateApiFind
<1>7. CASE WriteApi(r)
  <2>1. /\ me.row \in ApiRow /\ me.row.role = me.role /\ me.role \in Roles /\ me.pc = "write"
        /\ me.api \in Apis /\ api[me.api].role = me.role
    BY <1>7 DEF WriteApi, JobKnows
  <2>2. CASE Mapped(r, [api EXCEPT ![me.api] = me.row], me.role)
    BY <2>1, <2>2, MappedStep
  <2>3. QED
    BY <1>1, <1>7, <2>1, <2>2 DEF WriteApi
<1>8. CASE DeactivateApi(r)
  <2> DEFINE row == [role |-> api[me.api].role, entry |-> api[me.api].entry, active |-> FALSE]
  <2>1. /\ me.role \in Roles /\ me.pc = "deactivate" /\ me.api \in Apis
        /\ api[me.api] \in ApiRow /\ api[me.api].role = me.role
    BY <1>8 DEF DeactivateApi, JobKnows, RoleInv, RoleTypeOK
  <2>2. row \in ApiRow /\ row.role = me.role
    BY <2>1 DEF ApiRow
  <2>3. Mapped(r, [api EXCEPT ![me.api] = row], me.role)
    BY <1>8 DEF DeactivateApi
  <2> HIDE DEF row
  <2>4. QED
    BY <2>1, <2>2, <2>3, MappedStep
<1>9. CASE RefreshRead(r)
  <2>1. CASE Turn(r, "drop")
    BY <1>2, <1>3, <1>9, <2>1 DEF RefreshRead, JobKnows
  <2>2. CASE job' = [job EXCEPT ![r] = Call("set", me.role, NoApi, NoRow, "ACTIVE", Active(me.role))]
    <3> DEFINE m == Call("set", me.role, NoApi, NoRow, "ACTIVE", Active(me.role))
    <3>1. me.role \in Roles /\ me.pc = "read" /\ Unwritten
      BY <1>9 DEF RefreshRead, JobKnows
    <3>2. Active(me.role) \in past[me.role] /\ Active(me.role) \in SUBSET Entries
      BY <3>1 DEF RoleInv, RoleTypeOK
    <3>3. m \in Job /\ m.pc = "set" /\ m.role = me.role /\ m.entries = Active(me.role)
      BY <3>1, <3>2, Calls DEF Statuses
    <3>4. job'[r] = m
      BY <2>2 DEF RoleInv, RoleTypeOK
    <3> HIDE DEF m
    <3>5. JobKnows(r)'
      BY <3>1, <3>2, <3>3, <3>4 DEF JobKnows, Unwritten
    <3>6. QED
      BY <2>2, <3>1, <3>3, <3>5, CallStep DEF Unwritten, m
  <2>3. QED
    BY <1>9, <2>1, <2>2 DEF RefreshRead
<1>10. CASE RefreshSet(r) \/ RefreshDrop(r)
  <2>1. CASE Turn(r, "drop") /\ UNCHANGED <<cache, doubt>>
    BY <1>2, <1>3, <1>10, <2>1 DEF RefreshSet, RefreshDrop, JobKnows, Unwritten
  <2>2. CASE End(r)
    <3>1. /\ me.role \in Roles /\ me.pc \in {"set", "drop"}
          /\ UNCHANGED <<role, api, past>>
          /\ \A ro \in Roles \ {me.role} : cache'[ro] = cache[ro] /\ doubt'[ro] = doubt[ro]
      BY <1>10, <2>2 DEF RefreshSet, RefreshDrop, JobKnows, RoleInv, RoleTypeOK
    <3>2. cache' \in [Roles -> {Absent} \cup SUBSET Entries] /\ doubt' \in [Roles -> BOOLEAN]
      BY <1>10 DEF RefreshSet, RefreshDrop, RoleInv, RoleTypeOK, Job
    <3>3. /\ cache'[me.role] # Absent => cache'[me.role] \in past[me.role]
          /\ \/ cache'[me.role] = Absent \/ cache'[me.role] = Active(me.role) \/ doubt'[me.role]
      <4>1. CASE me.pc = "set"
        <5>1. cache'[me.role] = me.entries /\ doubt'[me.role] = me.stale
          BY <1>10, <2>2, <3>1, <4>1
             DEF RefreshSet, RefreshDrop, RoleInv, RoleTypeOK, Turn, End, AtRest, Call
        <5>2. QED
          BY <4>1, <5>1 DEF JobKnows
      <4>2. CASE me.pc = "drop"
        <5>1. \/ cache'[me.role] = Absent
              \/ cache'[me.role] = cache[me.role] /\ doubt'[me.role] = TRUE
          BY <1>10, <3>1, <4>2 DEF RefreshSet, RefreshDrop, RoleInv, RoleTypeOK
        <5>2. QED
          BY <3>1, <5>1 DEF RoleInv, CacheFromPast
      <4>3. QED
        BY <3>1, <4>1, <4>2
    <3>4. /\ job'[r] = AtRest("done") /\ job' \in [Requests -> Job]
          /\ \A q \in Requests \ {r} : job'[q] = job[q]
      BY <2>2, Rests DEF End, RoleInv, RoleTypeOK
    <3>5. RoleTypeOK'
      BY <3>1, <3>2, <3>4 DEF RoleInv, RoleTypeOK
    <3>6. \A q \in Requests : JobKnows(q)'
      BY <3>1, <3>4, Rests DEF RoleInv, JobKnows
    <3>7. CacheFromPast' /\ (\A ro \in Roles : Active(ro) \in past[ro])'
      BY <3>1, <3>3 DEF RoleInv, CacheFromPast
    <3>8. CacheAgrees'
      <4> SUFFICES ASSUME NEW ro \in Roles, cache'[ro] # Absent, cache'[ro] # Active(ro), ~doubt'[ro]
                   PROVE  \E q \in Requests : job'[q].pc \in Refreshing /\ job'[q].role = ro
        BY <3>1 DEF CacheAgrees
      <4>1. ro # me.role
        BY <3>3
      <4>2. PICK q \in Requests : job[q].pc \in Refreshing /\ job[q].role = ro
        BY <3>1, <4>1 DEF RoleInv, CacheAgrees
      <4>3. QED
        BY <3>4, <4>1, <4>2
    <3>9. QED
      BY <3>5, <3>6, <3>7, <3>8 DEF RoleInv
  <2>3. QED
    BY <1>10, <2>1, <2>2 DEF RefreshSet, RefreshDrop
<1>11. CASE WriteRole(r)
  <2>1. me.pc \in {"roleCreate", "roleWrite", "roleDelete"} /\ End(r)
        /\ UNCHANGED <<api, cache, past, doubt>>
    BY <1>11 DEF WriteRole
  <2>2. role' \in [Roles -> Statuses \cup {"absent", "deleted"}]
    BY <1>11 DEF WriteRole, Job, Statuses
  <2>3. QED
    BY <2>1, <2>2, EndStep
<1>12. CASE JobFails(r)
  BY <1>1, <1>12 DEF JobFails
<1>13. QED
  BY <1>4, <1>5, <1>6, <1>7, <1>8, <1>9, <1>10, <1>11, <1>12 DEF RoleContinues

LEMMA InvExpire ==
    ASSUME RoleInv, NEW ro \in Roles, Expire(ro)
    PROVE  RoleInv'
<1>1. RoleTypeOK'
  BY DEF RoleInv, RoleTypeOK, Expire
<1>2. \A r \in Requests : JobKnows(r)'
  BY DEF RoleInv, JobKnows, Expire
<1>3. CacheFromPast' /\ CacheAgrees' /\ (\A x \in Roles : Active(x) \in past[x])'
  BY DEF RoleInv, RoleTypeOK, CacheFromPast, CacheAgrees, Expire
<1>4. QED
  BY <1>1, <1>2, <1>3 DEF RoleInv

(***************************************************************************)
(* The invariant holds of every specification whose steps are steps of the *)
(* role administration: UserProvisioning uses it so.                       *)
(***************************************************************************)
THEOREM RoleInvariance == RoleSpec => []RoleInv
<1>1. RoleInv /\ [RoleNext]_roleVars => RoleInv'
  <2> SUFFICES ASSUME RoleInv, [RoleNext]_roleVars PROVE RoleInv'
    OBVIOUS
  <2>1. CASE UNCHANGED roleVars
    <3>1. RoleTypeOK' /\ \A r \in Requests : JobKnows(r)'
      BY <2>1 DEF roleVars, RoleInv, RoleTypeOK, JobKnows
    <3>2. CacheFromPast' /\ CacheAgrees' /\ (\A x \in Roles : Active(x) \in past[x])'
      BY <2>1 DEF roleVars, RoleInv, CacheFromPast, CacheAgrees
    <3>3. QED
      BY <3>1, <3>2 DEF RoleInv
  <2>2. QED
    BY <2>1, InvRoleBegins, InvRoleContinues, InvExpire DEF RoleNext
<1>2. QED
  BY <1>1, RoleInvInit, PTL DEF RoleSpec

(***************************************************************************)
(* Access Gate sees only sets of entries that were active together.        *)
(***************************************************************************)
THEOREM CacheIsFromPast == RoleSpec => []CacheFromPast
<1>1. RoleInv => CacheFromPast
  BY DEF RoleInv
<1>2. QED
  BY <1>1, RoleInvariance, PTL

(***************************************************************************)
(* A document nobody is refreshing is right, absent, or in doubt because   *)
(* of a late set or of a delete that failed.                               *)
(***************************************************************************)
THEOREM CacheIsRight == RoleSpec => []CacheAgrees
<1>1. RoleInv => CacheAgrees
  BY DEF RoleInv
<1>2. QED
  BY <1>1, RoleInvariance, PTL
=============================================================================
