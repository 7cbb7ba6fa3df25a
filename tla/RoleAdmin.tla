------------------------------ MODULE RoleAdmin ------------------------------
(***************************************************************************)
(* Roles, the API mappings of a role, and polaris:api_permission:{role},   *)
(* the Redis document Access Gate decides by.                              *)
(*                                                                         *)
(* A request is one HTTP call in its own goroutine; an action is one       *)
(* database or Redis call of it, with the reads that come before it in the *)
(* same handler where nothing is decided in between.  There is no lock and *)
(* no transaction.  Every mutation of a mapping, and every login, ends     *)
(* with a refresh: read the mappings, store the active ones, and when      *)
(* either fails delete the document (fail-closed).                         *)
(*                                                                         *)
(* System roles never change and are left out; so is the service name of a *)
(* mapping (one service), the permissions of a role, which only a screen   *)
(* shows, and the one-minute document of a mapping's details.  deleted_at  *)
(* of a mapping is read by no query: deleting is deactivating.             *)
(*                                                                         *)
(* past and doubt are history: the sets of active entries a role has had,  *)
(* and whether what is cached was read before a later write or survived a  *)
(* delete that failed.  Def_Bug is Def with a bug seeded.                  *)
(***************************************************************************)
EXTENDS Naturals

CONSTANTS
    Requests,        \* each makes one call
    Roles,           \* codes
    Apis,            \* ids of mappings
    Entries,         \* METHOD:ENDPOINT
    NoRow, NoRole, NoApi,
    Absent           \* no document in Redis

VARIABLES
    role,            \* sa_m_role: a status, "absent" or "deleted"
    api,             \* sa_r_role_api
    cache,           \* polaris:api_permission:{role}
    job,             \* the requests in progress
    past, doubt      \* history

roleVars == <<role, api, cache, job, past, doubt>>

-----------------------------------------------------------------------------
Statuses == {"ACTIVE", "INACTIVE"}
ApiRow == [role : Roles, entry : Entries, active : BOOLEAN]

ASSUME RoleAssumption ==
    NoRow \notin ApiRow /\ NoRole \notin Roles /\ NoApi \notin Apis

Refreshing == {"read", "set", "drop"}

Job ==
    [pc : {"idle", "check", "create", "find", "write", "deactivate",
           "roleCreate", "roleWrite", "roleDelete", "done"} \cup Refreshing,
     role : Roles \cup {NoRole},
     api : Apis \cup {NoApi},
     row : ApiRow \cup {NoRow},          \* the mapping to write
     status : Statuses,                  \* of the role to write
     entries : SUBSET Entries,           \* as the refresh read them
     stale : BOOLEAN]                    \* history: a mapping was written since

Call(pc, ro, a, row, status, entries) ==
    [pc |-> pc, role |-> ro, api |-> a, row |-> row, status |-> status,
     entries |-> entries, stale |-> FALSE]
AtRest(pc) == Call(pc, NoRole, NoApi, NoRow, "ACTIVE", {})
OfRole(pc, ro) == Call(pc, ro, NoApi, NoRow, "ACTIVE", {})
OfMapping(pc, ro, a, row) == Call(pc, ro, a, row, "ACTIVE", {})

LiveRole(ro) == role[ro] \in Statuses

\* FindByRoleName and BuildApiPermissionEntries: deleted mappings are inactive ones.
ActiveIn(rows, ro) ==
    {rows[a].entry : a \in {b \in Apis : rows[b] # NoRow /\ rows[b].role = ro /\ rows[b].active}}
Active(ro) == ActiveIn(api, ro)

\* UNIQUE KEY uk_sa_r_role_api
MappingTaken(row, a) ==
    \E b \in Apis \ {a} : api[b] # NoRow /\ api[b].role = row.role /\ api[b].entry = row.entry

-----------------------------------------------------------------------------
Start(r, next) == job[r].pc = "idle" /\ job' = [job EXCEPT ![r] = next]
Turn(r, pc) == job' = [job EXCEPT ![r].pc = pc]
End(r) == job' = [job EXCEPT ![r] = AtRest("done")]
Reject(r) == Start(r, AtRest("done"))

Unwritten == UNCHANGED <<role, api, cache, past, doubt>>

\* A mapping of ro was written: r refreshes next, who has read the mappings is out of date.
Mapped(r, rows, ro) ==
    /\ api' = rows
    /\ past' = [past EXCEPT ![ro] = @ \cup {ActiveIn(rows, ro)}]
    /\ job' = [q \in Requests |->
            IF q = r THEN OfRole("read", ro)
            ELSE [job[q] EXCEPT !.stale = @ \/ (job[q].pc = "set" /\ job[q].role = ro)]]
    /\ UNCHANGED <<role, cache, doubt>>

\* RoleApi.Save
SaveApi(r, ro, e) ==
    /\ \/ /\ role[ro] = "ACTIVE"
          /\ Start(r, OfMapping("check", ro, NoApi, [role |-> ro, entry |-> e, active |-> TRUE]))
       \/ role[ro] # "ACTIVE" /\ Reject(r)
    /\ Unwritten

SaveApiCheck(r) ==
    /\ job[r].pc = "check"
    /\ \/ MappingTaken(job[r].row, NoApi) /\ End(r)
       \/ ~MappingTaken(job[r].row, NoApi) /\ Turn(r, "create")
    /\ Unwritten

SaveApiCreate(r) ==
    /\ job[r].pc = "create"
    /\ \/ /\ ~MappingTaken(job[r].row, NoApi)
          /\ \E a \in Apis : api[a] = NoRow /\ Mapped(r, [api EXCEPT ![a] = job[r].row], job[r].role)
       \/ MappingTaken(job[r].row, NoApi) /\ End(r) /\ Unwritten

\* RoleApi.Update: every column comes from the body.
UpdateApi(r, a, row) ==
    /\ \/ /\ role[row.role] = "ACTIVE"
          /\ Start(r, OfMapping("find", row.role, a, row))
       \/ role[row.role] # "ACTIVE" /\ Reject(r)
    /\ Unwritten

UpdateApiFind(r) ==
    LET me == job[r]
        found == api[me.api] # NoRow /\ api[me.api].role = me.role
    IN  /\ me.pc = "find"
        /\ (found /\ Turn(r, "write")) \/ (~found /\ End(r))
        /\ Unwritten

\* RoleApi.ToggleActive: the other columns are written back as they were read.
ToggleActive(r, a, active) ==
    /\ \/ /\ api[a] # NoRow
          /\ Start(r, OfMapping("write", api[a].role, a,
                [role |-> api[a].role, entry |-> api[a].entry, active |-> active]))
       \/ api[a] = NoRow /\ Reject(r)
    /\ Unwritten

WriteApi(r) ==
    LET me == job[r] IN
    /\ me.pc = "write"
    /\ \/ ~MappingTaken(me.row, me.api) /\ Mapped(r, [api EXCEPT ![me.api] = me.row], me.role)
       \/ MappingTaken(me.row, me.api) /\ End(r) /\ Unwritten

\* RoleApi.Delete and DeleteById
DeleteApi(r, a) ==
    /\ \/ api[a] # NoRow /\ Start(r, OfMapping("deactivate", api[a].role, a, NoRow))
       \/ api[a] = NoRow /\ Reject(r)
    /\ Unwritten

DeactivateApi(r) ==
    LET me == job[r] IN
    /\ me.pc = "deactivate"
    /\ Mapped(r, [api EXCEPT ![me.api] =
            [role |-> api[me.api].role, entry |-> api[me.api].entry, active |-> FALSE]], me.role)

\* Login and SwitchContext refresh the roles of the session.
LoginRefresh(r, ro) == Start(r, OfRole("read", ro)) /\ Unwritten

-----------------------------------------------------------------------------
RefreshRead_Inactive(r) ==
    LET me == job[r] IN
    /\ me.pc = "read"
    /\ job' = [job EXCEPT ![r] =
            Call("set", me.role, NoApi, NoRow, "ACTIVE",
                 {api[a].entry : a \in {b \in Apis : api[b] # NoRow}})]
    /\ Unwritten

\* RefreshApiPermissionCache, which writes an empty set too.
RefreshRead(r) ==
    LET me == job[r] IN
    /\ me.pc = "read"
    /\ \/ job' = [job EXCEPT ![r] =
                Call("set", me.role, NoApi, NoRow, "ACTIVE", Active(me.role))]
       \/ Turn(r, "drop")
    /\ Unwritten

RefreshSet_KeepsWhenFailing(r) ==
    LET me == job[r] IN
    /\ me.pc = "set"
    /\ \/ /\ cache' = [cache EXCEPT ![me.role] = me.entries]
          /\ doubt' = [doubt EXCEPT ![me.role] = me.stale]
       \/ UNCHANGED <<cache, doubt>>
    /\ End(r)
    /\ UNCHANGED <<role, api, past>>

RefreshSet(r) ==
    LET me == job[r] IN
    /\ me.pc = "set"
    /\ \/ /\ cache' = [cache EXCEPT ![me.role] = me.entries]
          /\ doubt' = [doubt EXCEPT ![me.role] = me.stale]
          /\ End(r)
       \/ Turn(r, "drop") /\ UNCHANGED <<cache, doubt>>
    /\ UNCHANGED <<role, api, past>>

\* invalidateApiPermissionCache: when it fails too, that is only logged.
RefreshDrop(r) ==
    LET me == job[r] IN
    /\ me.pc = "drop"
    /\ \/ cache' = [cache EXCEPT ![me.role] = Absent] /\ doubt' = [doubt EXCEPT ![me.role] = FALSE]
       \/ doubt' = [doubt EXCEPT ![me.role] = TRUE] /\ UNCHANGED cache
    /\ End(r)
    /\ UNCHANGED <<role, api, past>>

\* The document's time to live ends.
Expire(ro) ==
    /\ cache[ro] # Absent
    /\ cache' = [cache EXCEPT ![ro] = Absent]
    /\ doubt' = [doubt EXCEPT ![ro] = FALSE]
    /\ UNCHANGED <<role, api, job, past>>

-----------------------------------------------------------------------------
\* Role.Save: the check skips deleted roles, UNIQUE KEY uk_sa_m_role_code does not.
SaveRole(r, ro) ==
    /\ \/ ~LiveRole(ro) /\ Start(r, OfRole("roleCreate", ro))
       \/ LiveRole(ro) /\ Reject(r)
    /\ Unwritten

UpdateRole(r, ro, status) ==
    /\ \/ LiveRole(ro) /\ Start(r, Call("roleWrite", ro, NoApi, NoRow, status, {}))
       \/ ~LiveRole(ro) /\ Reject(r)
    /\ Unwritten

DeleteRole(r, ro) ==
    /\ \/ LiveRole(ro) /\ Start(r, OfRole("roleDelete", ro))
       \/ ~LiveRole(ro) /\ Reject(r)
    /\ Unwritten

\* Db.Create, Db.Save of the row read, which was not deleted, and Updates of is_deleted.
WriteRole(r) ==
    LET me == job[r] IN
    /\ \/ /\ me.pc = "roleCreate" /\ role[me.role] = "absent"
          /\ role' = [role EXCEPT ![me.role] = "ACTIVE"]
       \/ me.pc = "roleCreate" /\ role[me.role] # "absent" /\ UNCHANGED role
       \/ me.pc = "roleWrite" /\ role' = [role EXCEPT ![me.role] = me.status]
       \/ me.pc = "roleDelete" /\ role' = [role EXCEPT ![me.role] = "deleted"]
    /\ End(r)
    /\ UNCHANGED <<api, cache, past, doubt>>

\* Any database call before the refresh may fail; the request then answers with an error.
JobFails(r) == job[r].pc \notin {"idle", "done"} \cup Refreshing /\ End(r) /\ Unwritten

-----------------------------------------------------------------------------
\* Roles and mappings are there from an earlier time, of which no document is left.
RoleInit ==
    /\ role \in [Roles -> {"absent", "ACTIVE"}]
    /\ api \in [Apis -> ApiRow \cup {NoRow}]
    /\ \A a \in Apis : api[a] # NoRow => role[api[a].role] = "ACTIVE" /\ ~MappingTaken(api[a], a)
    /\ cache = [ro \in Roles |-> Absent]
    /\ job = [r \in Requests |-> AtRest("idle")]
    /\ past = [ro \in Roles |-> {Active(ro)}]
    /\ doubt = [ro \in Roles |-> FALSE]

RoleBegins(r) ==
    \/ \E ro \in Roles, e \in Entries : SaveApi(r, ro, e)
    \/ \E a \in Apis, row \in ApiRow : UpdateApi(r, a, row)
    \/ \E a \in Apis, active \in BOOLEAN : ToggleActive(r, a, active)
    \/ \E a \in Apis : DeleteApi(r, a)
    \/ \E ro \in Roles : LoginRefresh(r, ro) \/ SaveRole(r, ro) \/ DeleteRole(r, ro)
    \/ \E ro \in Roles, status \in Statuses : UpdateRole(r, ro, status)

RoleContinues(r) ==
    \/ SaveApiCheck(r) \/ SaveApiCreate(r) \/ UpdateApiFind(r) \/ WriteApi(r) \/ DeactivateApi(r)
    \/ RefreshRead(r) \/ RefreshSet(r) \/ RefreshDrop(r)
    \/ WriteRole(r)
    \/ JobFails(r)

RoleNext ==
    \/ \E r \in Requests : RoleBegins(r) \/ RoleContinues(r)
    \/ \E ro \in Roles : Expire(ro)

RoleSpec == RoleInit /\ [][RoleNext]_roleVars

-----------------------------------------------------------------------------
RoleTypeOK ==
    /\ role \in [Roles -> Statuses \cup {"absent", "deleted"}]
    /\ api \in [Apis -> ApiRow \cup {NoRow}]
    /\ cache \in [Roles -> {Absent} \cup SUBSET Entries]
    /\ job \in [Requests -> Job]
    /\ past \in [Roles -> SUBSET SUBSET Entries]
    /\ doubt \in [Roles -> BOOLEAN]

(***************************************************************************)
(* However refreshes race and fail, Access Gate never sees a mixture: what *)
(* is cached for a role is the set of entries that were active for it      *)
(* together at some time.                                                  *)
(***************************************************************************)
CacheFromPast == \A ro \in Roles : cache[ro] # Absent => cache[ro] \in past[ro]

(***************************************************************************)
(* Once the requests on a role have refreshed, its document is absent or   *)
(* what the mappings say, with two exceptions: a refresh stored a set it   *)
(* read before a later write, and a delete of the document failed.         *)
(***************************************************************************)
CacheAgrees ==
    \A ro \in Roles :
        \/ cache[ro] = Absent
        \/ cache[ro] = Active(ro)
        \/ doubt[ro]
        \/ \E r \in Requests : job[r].pc \in Refreshing /\ job[r].role = ro
=============================================================================
