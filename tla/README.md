# A verification of Polaris

TLA+ specifications of the parts of this repository whose correctness depends on
the order of things, the TLC runs that check them on small instances, and proofs
for every instance. Paths below are relative to `src/`.

    tlc -workers 2 -config MCSessionFaults.cfg MCSessionCache     # a run
    tlapm SessionCacheProofs.tla                                  # the proofs

## 1. The system

The repository holds two Go services and two React front ends.

| Part | State | Operations | What is hard about it |
|---|---|---|---|
| **Smart access: sessions** (`polaris-smart-access-service/usecases/auth_uc.go`, `owner_session_cache.go`, `resolve_uc.go`, `api/middleware`) | `sa_t_session` rows; `polaris:session:{id}` documents in Redis, which the Access Gate reads instead of the database | Login, SwitchContext, GetCurrentSession, Logout, the timeout middleware | Two stores, no transaction across them; every request is a goroutine, some detach more; each call may fail and each error path has a reaction of its own |
| **Smart access: owners and roles** (`user_owner_uc.go`, `user_role_uc.go`, `role_uc.go`) | `sa_r_user_owner`, `sa_r_user_role`, the status of `sa_m_role` | Save, Delete and Update of a user's owners and roles, which rewrite or end the user's sessions; Update and Delete of a role, which do not | The document holds a copy of the owners, row and document copies of the roles; all go stale |
| **Smart access: login throttle** (`auth_uc.go`, `login_attempt_repository.go`, `auth_user_repository.go`) | `sa_t_login_attempt`, `sa_m_user.locked_until` | The front of Login | Count-then-act across concurrent logins, whole-row saves, a window and a lock that end on the clock |
| **Smart access: users** (`user_provisioning_uc.go`, `utils/keycloak_admin.go`) | Keycloak users, `sa_m_user` and three relation tables | Save, Update, Deactivate, Reactivate, ResetPassword | A creation across two systems with a hand-written rollback |
| **Smart access: permissions** (`role_api_uc.go`, `api_permission_cache.go`, `role_permission_uc.go`, `permission_uc.go`, `user_warehouse_uc.go`) | Relation tables; `polaris:api_permission:{role}` | CRUD; each RoleApi mutation rebuilds the role's cache entry | Concurrent rebuilds of what the gate reads; two ways to delete a mapping, neither of which any query notices |
| **Document service** (`polaris-document-service`) | `m_template`, `r_template_assignment` | Save, Update, Delete, Assign, Search, Generate, crop | Check-then-act on names and codes with and without a unique key behind it; whole-row saves, lost updates; assignments of deleted templates |
| **Shell front end** (`polaris-wms-fe/apps/shell`, `packages/service`) | Tokens in `localStorage`; `isRefreshing` and the queue of the fetcher; AuthProvider's state | Every API call, loadUser, logout | Requests and page loads that refresh the same token across awaits |
| **Template editor** (`polaris-wms-fe/apps/remote-document`, and an older standalone copy, `remote-document`) | The elements, selection, clipboard, undo and redo stacks | 18 reducer actions; save | Two stacks, a limit and a selection; edits and further saves during a save; a lookup by name for the id of a new row |
| Other remotes (`remote-admin`, `remote-master-data`, `remote-inventory`, `remote-common`) | A screen's own | Forms over REST | — |

How they interact: the browser gets a Keycloak token, trades it at `POST
/auth/session` (Login) for a session id, and sends that id as its token. The gate
reads the Redis document of the id. The owner and role administrators change what
the document was made from. The document service trusts the gate.

What makes each part correct:

- sessions: a document speaks of its session's user, has an end, never comes back
  after the session ended, and agrees with the tables once requests are done;
- throttle: the limit holds whatever the interleaving; a lock stands as long as it
  says; it follows failures;
- browser: one refresh at a time, nobody who waits for it is forgotten, nothing is
  sent over and over, logging out ends the session;
- provisioning: a failed creation leaves neither half behind, Keycloak and the row
  agree on who may log in;
- permission cache: a set of mappings the role had, and the latest once requests
  are done;
- templates: no two live templates of one code or name, no deleted default, no
  skipped version, as far as the checks before the writes can see to it;
- editor: undo and redo are inverse, elements stay on the page, what is selected
  is there, what is not dirty is stored, one template is one row.

The hazards, each at its line and with the properties that cover it, are listed in
`PROJECT.json`.

## 2. The modules

### SessionCache: sessions and their documents

| State | In the code |
|---|---|
| `sess` | `sa_t_session`: status, user, warehouse, role set, expiry (`session_repository.go`) |
| `cache` | the documents, with the time Redis drops them; `Gone` is no key |
| `userOwners`, `userRoles` | the live rows of `sa_r_user_owner` and `sa_r_user_role`, whatever the status of the role |
| `roleStatus` | `sa_m_role.status`; `FRESH` is ACTIVE and never changed, a deleted role counts as INACTIVE |
| `proc` | the goroutines: operation, place, and every local variable that outlives a call |
| `clock`, `faults` | `time.Now()`; failed calls so far |

An action is one database or Redis call with the branch taken on its result. So
between any two calls of a handler any other handler may run, which is what the
code allows. A call that may fail has a second disjunct: the error path the code
has for it. `FailClosed` is the code's own "fail-closed": drop the document, which
is a Redis call that may fail as well. A goroutine that a handler detaches goes on
in the same process, because nothing reads the response that is sent in between.

| Operation | Actions |
|---|---|
| Login, from `resolveRoleSet` | `LoginResolveRoles`, `LoginCreate`, `ReadOwners`, `Populate` |
| `SessionTimeoutMiddleware` | `Admitted`, `ExpireOnRequest`, the guard of the three operations below |
| SwitchContext | `SwitchContext`, `SwitchValidate`, `SwitchUpdate`, `ReadOwners`, `SwitchReadRoles`, `Populate` |
| Logout | `Logout`, `LogoutInvalidate` |
| GetCurrentSession with its heal | `GetCurrentSession`, `Current…`, `HealRead`, `HealWrite` |
| UserOwner.Save/Delete | `MutateOwners`, `Refresh…`, then `Invalidate…` if anything failed |
| UserRole.Save/Delete, and UserRole.Update with a changed list | `MutateRoles`, `MutateRoleRow`, `Invalidate…`, `Clear…` |
| UserRole.Update with the list UserProvisioning.Update has read | `KeepRoles`, `KeepRoleRow` |
| Role.Update/Delete, as far as sessions see them | `UpdateRole` |
| Deactivate | `Deactivate`, `InvalidateFind`, `InvalidateOne`, `InvalidateDbDone` |

Abstractions. Owner, role and warehouse lists are sets; the code compares owners
whatever their order (`OwnerIDSlicesEqual`). The nil owner list, which means
unrestricted, is the empty set. Usernames are left out: `sa_m_user.username` is
never updated. Whether a user may enter a warehouse is asked of another table and
of the master-data service: both answers are possible. `resolveRoleSet` asks for
the rows and then for each role, and leaves out what it cannot read: the reads are
one step that yields the user's ACTIVE roles, or, when a call fails, any part of
them. `RoleAdmin` has Role.Update and Role.Delete call by call; here only the write
of the status counts. The middleware and the handler's own first read of the row are
separate steps. A login takes an id nobody has, as a UUID is. A corrupt `role_set` and a marshalling error do not happen.

### LoginThrottle: the limit on logins

One user, since rows are counted per username and the lock is the user's. Every
element of `Logins` is one `POST /auth/session`, used once. The `ATTEMPT` row every
login writes first is `attempt[l]`, the row that says how it ended `outcome[l]`.
`account` is the user's row. Every database call is an action of its own and may
fail: the code drops most of these errors and goes on, and the action does too.
`UpsertRead`/`UpsertSave` carry the lock they read back to the row, which
`Db.Save` of the whole record does. `failed_login_count` is left out: nothing
reads it.

### TokenRefresh: the browser

JavaScript runs to the next `await`: an action is what happens between two. `req`
are calls of the fetcher, `load` the calls of `loadUser`, which refreshes on its
own. A session token is the number of the session it names, `live` are the
sessions the gate accepts. Any call may be answered with an error. The redirect to
`/auth/login` 1.5 s after a failed refresh is not modelled: the properties are
about the page until it leaves. `checkSessionExpiry` and `setSelectedWarehouse` do
not touch the refresh and are left out.

### TemplateCatalog and TemplateStore: the document service

`TemplateCatalog` is what the service promises: templates that are created,
replaced, retired and assigned, each at once. A write that comes late, after the
store has changed under its request, is the step `Late`, which says what is left of
the promise then: the write works on a row that same template has had.
`TemplateStore` is the code, one database call at a time, and implements it.

| State | In the code |
|---|---|
| `template`, `assigned` | `m_template`, `r_template_assignment`, deleted rows included |
| `request` | the handlers in progress: next call, body, and the row `FindByID` returned |
| `past`, `calm`, `stale` | history: the rows a template has had, whether a write was late yet, whether the store was written since the request first read |

| Operation | Actions |
|---|---|
| Template.Save | `SaveCheckCode`, `CheckName`, `SaveWrite` |
| Template.Update | `UpdateFind`, `UpdateCheckCode`, `CheckName`, `UpdateWrite` |
| Template.Delete | `DeleteFind`, `WriteDeleted` |
| Assign | `AssignFind`, `AssignCheckDuplicate`, `WriteAssignment` |
| any call failing | `Fail` |

`Db.Save` writes the whole row it was given, so a request writes back what it read
(`Put`). The unique key of the codes sees deleted rows, which the check does not;
the unique key of the assignments does not see slots with an empty id, whose NULLs
differ from each other: `KeyedSlots` are the others. Format, type, description,
page settings and `is_active` travel with the row and are left out.

### RoleAdmin and UserProvisioning: users, roles and what the gate may let them do

`RoleAdmin` is a component by itself: roles, API mappings and the Redis document
the gate decides by. `UserProvisioning` extends it by Keycloak, `sa_m_user` and the
grants; a request belongs to one of the two, and provisioning reads which roles are
active.

| State | In the code |
|---|---|
| `role`, `api` | `sa_m_role`, `sa_r_role_api` |
| `cache` | `polaris:api_permission:{role}` |
| `keycloak`, `user` | the accounts of the realm; `sa_m_user` |
| `granted` | the live rows of `sa_r_user_role` and `sa_r_user_warehouse` |
| `job`, `request` | the handlers in progress, of `RoleAdmin` and of `UserProvisioning` |
| `past`, `doubt`, `torn`, `undone` | history: the sets of mappings a role has had; whether its document was stored late or outlived a failed delete; whether an account's calls failed or overlapped; whether its creation was rolled back |

| Operation | Actions |
|---|---|
| RoleApi.Save | `SaveApi`, `SaveApiCheck`, `SaveApiCreate`, `Refresh…` |
| RoleApi.Update, ToggleActive | `UpdateApi` or `ToggleActive`, `UpdateApiFind`, `WriteApi`, `Refresh…` |
| RoleApi.Delete, DeleteById | `DeleteApi`, `DeactivateApi`, `Refresh…` |
| Role.Save, Update, Delete | `SaveRole`, `UpdateRole`, `DeleteRole`, then `WriteRole` |
| the refresh | `RefreshRead`, `RefreshSet`, and `RefreshDrop` when either fails |
| UserProvisioning.Save | `Save`, `CreateAccount`, `Upsert…`, `GrantRoles`, `GrantHouses`, `GrantOwners`; on a failure `UndoKeycloak`, `UndoRow`, `UndoGrants` |
| Update | `Update`, `PutKeycloak`, `WriteUser`, `SyncRoles`, `SyncHouses` |
| Deactivate, Reactivate | `Switch`, `PutKeycloak`, `WriteUser` |
| Login of a user Keycloak knows | `Login`, `UpsertFind`, `UpsertWrite` |

A grant is a loop with a call per role or warehouse that stops at the first error:
the action leaves any part of it done. A Keycloak call that is answered as failed
may have taken effect. `GrantOwners` fails whenever owners were asked for, as
`UserOwner.Save` refuses a request without an owner code and name, which this
caller never sends. Each account has one id for both systems.

### TemplateContext, TemplateEditor, EditTimeline, CanvasGeometry: the editor

| State | In the code |
|---|---|
| `elements`, `selected`, `primary`, `clipboard`, `history`, `future`, `dirty` | `TemplateState` of the reducer; `template` is its template's id and name |
| `rows` | the templates this editor opened or made, at the document service |
| `call` | the runs of `handleSave` in progress, with what each captured |
| `mixed`, `split` | history: the save that was marked last had company; saves overlapped or a new row was not found |

`TemplateContext` has one action per reducer action, named after it, under the
conditions of the handlers that dispatch it. `TemplateEditor` adds `handleSave`,
cut at its awaits: `HandleSave`, then `Create` or `EditRow`, `Rejected` when the
call fails without effect, `Find` for the lookup of a new row by its name.
`EditTimeline` is what undo and redo promise, one line of pages and a place on it;
`history \o <<elements>> \o future` implements it. `CanvasGeometry` holds the
operators that snap, clamp and resize, and the document engine's own version of
them (`engine/validation.go`), in tenths of a millimetre along one axis.

Abstractions. An element is its id and a look; geometry, stacking order and
properties choose the look, so an edit may give any. An id that is not on the page
may be given to a new element, also one that a stack still holds: more than random
UUIDs do. Of the clipboard only the number of copies matters. Which of the
selected ids becomes the primary one is open. A template without page settings
shows no canvas; the model allows its edits all the same. Nobody else writes the
rows of this editor. The retry of a mutation is that of the shell's query client;
the remote's own development page has none.

### The other modules

`MC…` modules only add what TLC needs (symmetry, a state constraint, sample
lengths). `…Proofs` modules hold the theorems. Definitions named `Def_Bug` are
seeded bugs that no specification uses: putting `Def_Bug` in the place of `Def`
must break the property `PROJECT.json` names, which shows that the property watches
that code.

## 3. The runs

| Run | Instance | What it shows |
|---|---|---|
| `SessionFaults` | 1 session, 2 goroutines, 5 operations, clock to 2, up to 2 failing calls | a document always has an end (`CacheHasTimeToLive`), is its session's (`CacheBelongsToSession`); the row is fixed by Create (`RowIsFixedByCreate`); what is over stays over (`DeathIsFinal`) |
| `SessionFailClosed` | 2 sessions, 1 goroutine, all operations, clock to 1, 1 failing call in logout, GetCurrentSession or the owner refresh | between requests the document has the database's owners and warehouse, and an ACTIVE row and its document the roles assigned to the user, but for roles whose status was changed |
| `SessionHeal` | 1 session, 2 goroutines, clock to 1, up to 2 failing calls of the owner refresh, fair | whatever stale list a race or a failed fallback leaves, polling the session heals it |
| `LoginThrottle` | 3 logins, limit 2, window 1, lock 2, clock to 3, 1 failing call | the limit holds across races; a lock stands |
| `TokenRefresh` | 2 requests, 1 load, 3 sessions, fair | one refresh at a time, subscribers wait for one, resends are bounded; requests settle unless a refresh fails |
| `TemplateStore` | 3 requests, 2 codes, names and contents, a slot with and one without the key | the service implements the catalogue (`Implements`); names and slots are unique while no write was late; versions are not skipped; no deleted default; the key refuses only codes of deleted templates |
| `UserProvisioning` | 2 requests, 1 role, 2 mappings and entries, 1 account made in Keycloak, 1 username, 1 warehouse | rollbacks are complete; Keycloak and the row agree; an orphan account has one explanation; the gate's document is a set the mappings had, and the latest unless a refresh was late |
| `TemplateEditor` | 2 elements of one look, 2 saves, 2 names, a history of 2 | undo and redo move along one line of pages (`Timeline`); the selection is on the page; what is not dirty is stored; a new template makes one row; the geometry's four claims, as an assumption TLC evaluates |
| `SessionRoleRace` | 1 session, 2 goroutines | violation, see 5 |
| `LoginSuccessLocks` | 3 logins, no failure | violation, see 5 |
| `TokenWaiters`, `TokenLogout` | as `TokenRefresh` | violations, see 5 |

Why the bounds are enough to be interesting. In `SessionFaults` the timeout is one
tick and the clock has two, so a session expires with requests in flight and its
document before, with and after it. `SessionFailClosed` has one tick, so that of two
sessions one may be at its end and the other not; healing and the race need none. Two
goroutines are the smallest number that interleaves and every race found needs two;
two sessions show the loops over a user's sessions, in any order. One failing call in
`SessionFaults` takes each error path of its operations, two in `SessionHeal` show a
failing reaction to a failure, and the proofs have any number.
One owner, role and warehouse are enough to be stale. In `LoginThrottle` the third
login is the one a limit of two refuses, and the clock outlives window and lock. In
`TokenRefresh` two requests are a leader and a subscriber, and three sessions let
each of them and the load refresh, or one of them twice.

In `TemplateStore` two requests race and the third makes the template they race for.
In `UserProvisioning` two requests are a creation and whatever may run into it;
with three the run takes too long, and the proofs have any number. One username is
what two creations compete for. In `TemplateEditor` one look is enough, since an
edit pushes to the history also when it changes nothing; a history of two (50 in
the code) overflows after three edits; two saves overlap, or one follows the other
under a new name. Once a save has begun, the constraint `SavesByThemselves` lets
the run go on only without selection and with at most one step of history, which no
save reads or writes; the proofs do without it. The lengths of the geometry are on
and off the grid, negative, and longer than the page.

`CHECK_DEADLOCK FALSE` everywhere: the clock is bounded, and logins, requests and saves are
used up, so every run may come to rest.

`SessionFaults` keeps out `logout`, `deactivate`, `keep` and `status` for size: the
first two do to row and cache what the role invalidation does, the others touch
neither, and `SessionFailClosed` has them. The proofs have every operation.

### Fairness

`SessionHeal` assumes weak fairness of each goroutine's steps (a goroutine that
runs is scheduled, a call returns or fails) and nothing of the requests; that the
client polls is a hypothesis of the property itself (`Polled`), as is that owners
stop changing. `TokenRefresh` assumes weak fairness of each request's steps: axios
calls come back, time out or fail. Nobody is obliged to send anything, loads and
logouts happen or not. Time is not fair.

## 4. What is proved

With TLAPS, for every value of the constants: any number of users, sessions,
goroutines, logins, requests, any clock and any number of failures. Every invariant
and every action property of the passing runs is stated by a theorem. Assumed are,
but for the hypotheses of `RolesAgree`, `WarehouseAgrees` and `OwnersAgree` that are
told below, only the `ASSUME`s of the modules: `SessionAssumption` (at least one session id, a
timeout of at least a tick), `ThrottleAssumption` and `RefreshAssumption` (the
logins and requests are finitely many, the limits are positive), `ContextAssumption`
(a history of at least one), `GeometryAssumption` (lengths are integers); the others
only keep values such as `NoRow` apart from the rows.

**SessionCacheProofs** (`SessionInvariant`, `TypeCorrect`, `CacheBelongs`,
`CacheTimeToLive`, `RowFixed`, `DeathFinal`, `CallsAreLocal`, `RolesAgree`,
`WarehouseAgrees`, `OwnersAgree`, `OneByOneIsEnough`). What a goroutine writes to Redis is
what it read calls ago, so the properties are not inductive by themselves.
`SessionInv` adds `GoroutineOK`, what a goroutine may count on at each place: the
row it works for exists, the user it holds is the row's, a heal past its check
computed its TTL from an expiry ahead of the time it read; and `LoginsApart`, that
no two logins hold the same fresh id. Rows only change through
`RowsKept`, which every action is shown to respect, and from which the action
property `RowFixed` follows. `DeathFinal` goes through the actions once more: from
a `Buried` session no action leads to a place from which its document is written.

`CallsAreLocal` says whose rows and documents a call can change: those of the user
its handler works for. A goroutine that has read a row works for the row's user;
one that loops over a user's sessions needs `FoundInv`, that all it found are that
user's.

The three agreements of `SessionFailClosed` do not hold in every interleaving, so
their theorems name the one overlap and the failures that break each. Whenever no
handler of a user runs (`RolesAgreeAtRest` and so on; for all users at once, as the
run has it, `RolesAgree` and so on), whatever other requests overlap,

- an ACTIVE row of theirs and its document have the roles assigned to them, those
  aside whose own status was changed (5), if no change of their assignments commits
  between the two calls of a login, nor between what UserProvisioning.Update reads
  and what UserRole.Update writes for it when the list is the one it read
  (`RolesSteady`), and no call of a login, a switch or a role change fails;
- a document of theirs names its row's warehouse, if from a switch's update of the
  row to its write of the document nobody else has read that session's warehouse to
  write it (`SwitchesApart`), and at most one call fails or none of a switch does;
- a document in force names their owners, if no owner mutation commits between
  another handler's read of the owners and its write (`OwnersSteady`), no call of a
  login or of a switch fails, and at most one call fails or none of an owner refresh
  does.

`OneByOneIsEnough`: a user whose requests follow each other meets none of the three
overlaps, whatever other users do. Each agreement has an inductive invariant of the
same form (`RolesInv`, `WarehouseInv`, `OwnersInv`): where rows and documents
disagree some goroutine is on its way to put it right (`Revoking`, `Moving`,
`Repairing`), and what a goroutine holds to write is what the database has
(`RolesHeld`, `WarehouseHeld`, `OwnersHeld`). A step of one goroutine leaves what the
others are about to repair, so it is examined only for the sessions that nobody else
repairs. For roles, what a row, a document or a goroutine has is its user's or the
session is over or about to be (`Told`); that a status changes meanwhile never makes
a set wrong, since `RolesOf` excepts exactly the roles whose status did. The
hypotheses are the code's and not the proof's: TLC violates each agreement on one
session as soon as one of them is dropped. A login whose owners cannot be read stores
none and goes on, one whose roles cannot be read stores those it could read; a role
change commits row by row, and an error after the first row returns before the
invalidation, which may fail as well; a switch whose Set and then whose Delete fail leaves the
document of before; an owner refresh whose failing reaction fails gives up; and
`SessionRoleRace` (5) is a behaviour that is not `RolesSteady`.

**LoginThrottleProofs** (`ThrottleTypeCorrect`, `AdmissionBounded`,
`LockKeptForItsDuration`). A login counts only after its own attempt is written
(`NotYetCounted`), so the last one to be admitted counted all the others. Clearing
only shrinks the set, and time only moves rows out of the window. The lock: while
`LockStands`, nobody is at a place that writes `account`, and `ReadUser` sends
everybody who reads it to `refuse`.

**TokenRefreshProofs** (`RefreshInvariant`, `RefreshTypeCorrect`,
`OneRefreshAtATime`, `SubscribersServed`, `NoEndlessRetry`). `Leader` and
`FlagHolds` tie the flag to one request; `SendsBehind` strengthens the bound on
resends: during a refresh, everybody is one send behind the number of leaders, and
the send that follows catches up.

**TemplateStoreProofs** (`Invariance`, `DefaultsStay`, `UniqueUntilRaced`,
`VersionsNotSkipped`, `KeyRefusesDeletedOnly`, `TypeCorrect`, `Refinement`). The invariant says what
a request knows at its next call: the row it read is in the template's past, and
unless the store was written since, each check it passed still holds. From that a
write is a step of the catalogue when the request is fresh and `Late` when it is
not, and uniqueness follows for the fresh ones.

**RoleAdminProofs** (`RoleInvariance`, `CacheIsFromPast`, `CacheIsRight`). A refresh
that has read carries a set from the role's past, and the present one unless it is
stale. **UserProvisioningProofs** (`UserInvariance`, `RolesAsBefore`, `Types`,
`RollbackIsComplete`, `AccountsAreInStep`, `OneWayToAnOrphan`, `CacheStaysRight`).
The composition's steps are steps of `RoleAdmin` or leave its state, so its
theorems carry over. `UserInv` says of every account (`Sound`) that, untorn, it has
at most one request at work on it, and of every request (`Knows`, by its `Phase`)
what it has brought about so far in Keycloak, the row and the grants.

**TemplateEditorProofs** (`EditorInvariance`, `EditorTypeCorrect`, `SelectionStays`,
`NotDirtyIsStored`, `OneRowOnly`, `TimelineImplemented`). The lemmas on `Around` read
two stacks and the page as one sequence: pushing, undoing and redoing are steps of
the timeline, and since the stacks together never exceed the limit, the slices of
UNDO and REDO never cut. For saving, `EditorInv` adds that the row of an id exists,
that no two rows of the editor share a name, and that a save nobody disturbed
carries what the editor shows.

**CanvasGeometryProofs** (`PlacedIsValid`, `EngineIsTheSame`, `PlacingSettles`,
`ResizingIsLocal`), for all lengths: rounding lands on the grid at most a quarter of
a millimetre away, and the rest is arithmetic. That nothing bounds a size from
above is why the first of them excepts elements wider than the page.

Only model-checked is liveness, `StaleOwnersHeal` and `EveryRequestSettles`: the
fairness it rests on is stated with ENABLED, which is out of the prover's reach.

## 5. Where the code and its words disagree

- **SessionRoleRace.** "invalidate semua active sessions user saat role berubah
  (S1-007 AC-1.2.9)", "agar user harus login ulang" (`resolve_uc.go:230-231`). A login
  that read the roles before creates its row after the query for active sessions, and
  keeps the old roles until it expires.
- **LoginSuccessLocks.** "Account is locked due to too many failed login attempts"
  (`auth_uc.go:46`). The row every login writes first counts as failed, and success
  does not clear it: as many successful logins as the limit lock the account.
- **TokenWaiters.** "Gagal refresh — reject semua request yang menunggu"
  (`fetcher.ts:45`). The queue is emptied, the promises are never settled.
- **TokenLogout.** "1. Invalidasi sesi Polaris di backend" (`auth.ts:261`).
  `AuthProvider.logout` removes the token before `authService.logout` looks for it,
  so the backend is never called.

Known from the models, stated nowhere in the code and so no finding: Logout and
Deactivate leave the Redis document; a heal or a detached populate under way when a
session ends may write its document once more (`DeathIsFinal` says: not later);
deactivating, activating or deleting a role (`role_uc.go:157`, `:198`) changes what
roles its users have and ends no session, in one request without race or failure. The
comment at `resolve_uc.go:230` speaks of a user's roles changing, and only the
assignment endpoints call it; `IncrementRoleVersion`, "for stale detection"
(`role_uc.go:168`), counts a number that no row and no document of a session carries.
`RolesAgreeWhenQuiet` is therefore about assignments, and excepts the roles whose
status was changed. An update of a user with the list of roles it has read
invalidates nobody, also when another change comes in between and `UserRole.Update`
undoes it (`user_provisioning_uc.go:382`). Further,
with two requests at a time a document may have older owners (until the next poll,
`StaleOwnersHeal`) or an older warehouse; a login in flight lifts a lock it has not
seen; a first login over the limit is refused without a lock.

Of users and roles: a creation with `ownerIds` always fails and is rolled back; the
row a rollback leaves keeps the username, in `sa_m_user` and for ever; two creations
of one username around a rollback leave a Keycloak user without a row; reactivating
a user who was rolled back makes an ACTIVE row without a Keycloak user; a login that
read the row before a deactivation writes ACTIVE back; an update cannot take the
last role from a user; a deleted mapping comes back with Update or ToggleActive, and
blocks a new one as a duplicate; deleting or deactivating a role leaves its document
until it expires; a new role with a deleted one's code fails at the unique key.

Of templates: a new one with a deleted one's code fails at the unique key, as a
database error; deleting a template leaves its assignments. `ValidateTemplate` and
`SnapAndClampElements` of the engine are called by nobody.

Of the editor: MARK_SAVED clears `isDirty` although the page was edited meanwhile,
and nothing reads `isDirty`; Ctrl+S saves during a save; a creation whose answer is
lost is refused when retried, and saving again under another name makes a second
row; an edit that changes nothing takes the redo stack; every mouse move of a resize
is a step of the history; an element clamped off the grid moves when its text is
changed (`Settles`: once, by less than a quarter of a millimetre). A refetch of the
detail that fails unmounts the editor and what was not saved
(`views/template-editor/index.tsx:391`), and `SizeSelector` chooses the size in a
provider of its own, so that the editor starts without one.

## 6. Not modelled, and what is left

What would come next, were the project to go on:

1. The `UserWarehouse` endpoints by themselves.
2. The standalone editor (`remote-document`). Its history holds whole templates, so
   an undo past the first save takes the id back; it would be a `TemplateContext` of
   its own, with another `OneRow`.
3. Placeholder merging of `engine/merge_engine.go`: a recursion over data that could
   be checked against a definition but, being about strings, shows little.
4. `polaris:user_sessions:{id}`: read, appended to and written back without a lock,
   but read by nothing else.

Left out for good: JWT verification, PDF and barcode drawing, controllers, CRUD
screens. They are cryptography, I/O or formatting and keep no state of interest.
