-------------------------- MODULE UserProvisioning --------------------------
(***************************************************************************)
(* Creating, updating, deactivating and reactivating users, and the login  *)
(* that provisions one Keycloak knows: each changes Keycloak, sa_m_user    *)
(* and the role and warehouse assignments in turn, with no transaction     *)
(* across them.  Composed with the role administration of RoleAdmin, in    *)
(* whose roles a user is granted only the active ones.                     *)
(*                                                                         *)
(* An account has one id for Keycloak and for sa_m_user: the request that  *)
(* creates it, or one of Guests, the accounts made in Keycloak's own       *)
(* console.  An action is one Keycloak call, one database call, or one     *)
(* loop over roles or warehouses; the rollback's loops over both are one   *)
(* action.  A Keycloak call has a client timeout of 10 s: one that is      *)
(* answered as failed may have taken effect.  Names and e-mail addresses   *)
(* are left out, and so are sessions (SessionCache).                       *)
(*                                                                         *)
(* torn and undone are history: whether a call that keeps an account's     *)
(* parts together failed or two requests on the account overlapped, and    *)
(* whether its creation was rolled back.  Def_Bug is Def with a bug seeded.*)
(***************************************************************************)
EXTENDS RoleAdmin

CONSTANTS Guests, Usernames, Warehouses, NoName

VARIABLES
    keycloak,        \* the accounts of the realm
    user,            \* sa_m_user
    granted,         \* sa_r_user_role and sa_r_user_warehouse, the live rows
    request,         \* the requests in progress
    torn, undone     \* history

userVars == <<keycloak, user, granted, request, torn, undone>>
vars == <<roleVars, userVars>>

-----------------------------------------------------------------------------
Ids == Requests \cup Guests
Account == [username : Usernames, enabled : BOOLEAN]
User == [username : Usernames, status : Statuses]

ASSUME ProvisioningAssumption ==
    /\ Requests \cap Guests = {} /\ Roles \cap Warehouses = {}
    /\ NoRow \notin Account \cup User /\ NoName \notin Usernames

Request ==
    [pc : {"idle", "create", "find", "upsert", "roles", "houses", "owners",
           "undoKeycloak", "undoRow", "undoGrants",
           "put", "write", "syncRoles", "syncHouses", "done"},
     kind : {"save", "update", "switch", "login"},
     id : Ids,
     username : Usernames \cup {NoName},
     status : Statuses,              \* of the row to write
     found : BOOLEAN,                \* there was a row
     roles : SUBSET Roles, houses : SUBSET Warehouses, owners : BOOLEAN]

Doing(pc, kind, id, name, status, roles, houses, owners) ==
    [pc |-> pc, kind |-> kind, id |-> id, username |-> name, status |-> status,
     found |-> FALSE, roles |-> roles, houses |-> houses, owners |-> owners]
Resting(r, pc) == Doing(pc, "save", r, NoName, "ACTIVE", {}, {}, FALSE)

Working(r) == request[r].pc \notin {"idle", "done"}

Busy(id) == \E q \in Requests : Working(q) /\ request[q].id = id

\* FindByUsername and UNIQUE KEY uk_username: no row is ever deleted, so they agree.
UsernameTaken(name) == \E o \in Ids : user[o] # NoRow /\ user[o].username = name
KeycloakHas_Enabled(name) ==
    \E o \in Ids : keycloak[o] # NoRow /\ keycloak[o].enabled /\ keycloak[o].username = name
KeycloakHas(name) == \E o \in Ids : keycloak[o] # NoRow /\ keycloak[o].username = name

Enabled(status) == status # "INACTIVE"

NewAccount_AlwaysEnabled(name, status) == [username |-> name, enabled |-> TRUE]
NewAccount(name, status) == [username |-> name, enabled |-> Enabled(status)]

-----------------------------------------------------------------------------
Begin(r, next) ==
    /\ job[r].pc = "idle" /\ request[r].pc = "idle"
    /\ request' = [request EXCEPT ![r] = next]
    /\ torn' = [torn EXCEPT ![next.id] = @ \/ Busy(next.id)]
    /\ UNCHANGED <<keycloak, user, granted, undone>>

Refuse(r) == Begin(r, Resting(r, "done"))

Goto(r, pc) == request' = [request EXCEPT ![r].pc = pc]
Finish(r) == request' = [request EXCEPT ![r] = Resting(r, "done")]
Tear(id) == torn' = [torn EXCEPT ![id] = TRUE]

\* UserProvisioning.Save, first call
Save(r, name, status, roles, houses, owners) ==
    \/ /\ ~UsernameTaken(name)
       /\ Begin(r, Doing("create", "save", r, name, status, roles, houses, owners))
    \/ UsernameTaken(name) /\ Refuse(r)

\* CreateUser.  Mail failures do not matter.
CreateAccount(r) ==
    LET me == request[r]
        made == [keycloak EXCEPT ![me.id] = NewAccount(me.username, me.status)]
    IN  /\ me.pc = "create"
        /\ \/ ~KeycloakHas(me.username) /\ keycloak' = made /\ Goto(r, "find") /\ UNCHANGED torn
           \/ ~KeycloakHas(me.username) /\ keycloak' = made /\ Finish(r) /\ Tear(me.id)
           \/ UNCHANGED <<keycloak, torn>> /\ Finish(r)
        /\ UNCHANGED <<user, granted, undone>>

\* Login, once its token and the lock are checked; a token may outlive its account.
Login(r, id) ==
    /\ keycloak[id] # NoRow \/ user[id] # NoRow
    /\ LET name == IF keycloak[id] # NoRow THEN keycloak[id].username ELSE user[id].username
       IN  Begin(r, Doing("find", "login", id, name, "ACTIVE", {}, {}, FALSE))

\* UpsertByKeycloakId, of Save and of Login.
UpsertFind(r) ==
    LET me == request[r] IN
    /\ me.pc = "find"
    /\ \/ user[me.id] = NoRow /\ Goto(r, "upsert")
       \/ /\ user[me.id] # NoRow
          /\ request' = [request EXCEPT ![r] =
                [me EXCEPT !.pc = "upsert", !.found = TRUE, !.status = user[me.id].status]]
    /\ UNCHANGED <<keycloak, user, granted, torn, undone>>

\* A new row needs its username; the row found is written back as it was read.
UpsertWrite(r) ==
    LET me == request[r] IN
    /\ me.pc = "upsert"
    /\ \/ /\ me.found \/ (user[me.id] = NoRow /\ ~UsernameTaken(me.username))
          /\ user' = [user EXCEPT ![me.id] =
                [username |-> IF me.found THEN user[me.id].username ELSE me.username,
                 status |-> me.status]]
          /\ (me.kind = "save" /\ Goto(r, "roles")) \/ (me.kind = "login" /\ Finish(r))
       \/ /\ ~me.found /\ (user[me.id] # NoRow \/ UsernameTaken(me.username))
          /\ Finish(r)
          /\ UNCHANGED user
    /\ UNCHANGED <<keycloak, granted, torn, undone>>

ActiveRoles(roles) == {ro \in roles : role[ro] = "ACTIVE"}

\* UserRole.Save skips the roles that are not active; on an error the roles before stay.
GrantRoles(r) ==
    LET me == request[r] IN
    /\ me.pc = "roles"
    /\ \/ /\ granted' = [granted EXCEPT ![me.id] = @ \cup ActiveRoles(me.roles)]
          /\ Goto(r, "houses")
       \/ /\ me.roles # {}
          /\ \E some \in SUBSET ActiveRoles(me.roles) :
                granted' = [granted EXCEPT ![me.id] = @ \cup some]
          /\ Goto(r, "undoKeycloak")
    /\ UNCHANGED <<keycloak, user, torn, undone>>

\* UserWarehouse.Save, which asks master-data for names only.
GrantHouses(r) ==
    LET me == request[r] IN
    /\ me.pc = "houses"
    /\ \/ granted' = [granted EXCEPT ![me.id] = @ \cup me.houses] /\ Goto(r, "owners")
       \/ /\ me.houses # {}
          /\ \E some \in SUBSET me.houses : granted' = [granted EXCEPT ![me.id] = @ \cup some]
          /\ Goto(r, "undoKeycloak")
    /\ UNCHANGED <<keycloak, user, torn, undone>>

\* UserOwner.Save refuses a request without ownerCode and ownerName, which this one never has.
GrantOwners(r) ==
    /\ request[r].pc = "owners"
    /\ (request[r].owners /\ Goto(r, "undoKeycloak")) \/ (~request[r].owners /\ Finish(r))
    /\ UNCHANGED <<keycloak, user, granted, torn, undone>>

-----------------------------------------------------------------------------
\* rollbackUserCreation: a step that fails is logged and the next one runs.
UndoKeycloak(r) ==
    LET me == request[r]
        gone == [keycloak EXCEPT ![me.id] = NoRow]
    IN  /\ me.pc = "undoKeycloak"
        /\ \/ keycloak' = gone /\ UNCHANGED torn
           \/ keycloak' \in {gone, keycloak} /\ Tear(me.id)
        /\ Goto(r, "undoRow")
        /\ UNCHANGED <<user, granted, undone>>

\* The row is marked, not deleted: its username stays taken.
UndoRow(r) ==
    LET me == request[r] IN
    /\ me.pc = "undoRow"
    /\ \/ user' = [user EXCEPT ![me.id] = [username |-> user[me.id].username, status |-> "INACTIVE"]]
          /\ UNCHANGED torn
       \/ UNCHANGED user /\ Tear(me.id)
    /\ Goto(r, "undoGrants")
    /\ UNCHANGED <<keycloak, granted, undone>>

UndoGrants_RolesOnly(r) ==
    LET me == request[r] IN
    /\ me.pc = "undoGrants"
    /\ granted' = [granted EXCEPT ![me.id] = @ \ Roles]
    /\ undone' = [undone EXCEPT ![me.id] = TRUE]
    /\ Finish(r)
    /\ UNCHANGED <<keycloak, user, torn>>

UndoGrants(r) ==
    LET me == request[r] IN
    /\ me.pc = "undoGrants"
    /\ \/ granted' = [granted EXCEPT ![me.id] = {}] /\ UNCHANGED torn
       \/ \E kept \in SUBSET granted[me.id] : granted' = [granted EXCEPT ![me.id] = kept] /\ Tear(me.id)
    /\ undone' = [undone EXCEPT ![me.id] = TRUE]
    /\ Finish(r)
    /\ UNCHANGED <<keycloak, user>>

-----------------------------------------------------------------------------
\* UserProvisioning.Update up to its commit phase; owners are never synced, each call is refused.
Update(r, id, status, roles, houses) ==
    \/ /\ user[id] # NoRow /\ \A ro \in roles : LiveRole(ro)
       /\ Begin(r, Doing("put", "update", id, NoName, status, roles, houses, FALSE))
    \/ Refuse(r)

\* Deactivate and Reactivate
Switch(r, id, status) ==
    \/ /\ user[id] # NoRow
       /\ Begin(r, Doing("put", "switch", id, NoName, status, {}, {}, FALSE))
    \/ user[id] = NoRow /\ Refuse(r)

\* UpdateUser, DisableUser and EnableUser: a failure ends Update, the others go on.
PutKeycloak(r) ==
    LET me == request[r]
        put == [keycloak EXCEPT ![me.id] = NewAccount(keycloak[me.id].username, me.status)]
    IN  /\ me.pc = "put"
        /\ \/ /\ keycloak[me.id] # NoRow /\ keycloak' = put
              /\ Goto(r, "write")
              /\ UNCHANGED torn
           \/ /\ keycloak[me.id] # NoRow /\ keycloak' = put
              /\ (me.kind = "update" /\ Finish(r)) \/ (me.kind = "switch" /\ Goto(r, "write"))
              /\ Tear(me.id)
           \/ /\ UNCHANGED keycloak
              /\ \/ me.kind = "update" /\ Finish(r) /\ UNCHANGED torn
                 \/ me.kind = "switch" /\ Goto(r, "write") /\ Tear(me.id)
        /\ UNCHANGED <<user, granted, undone>>

WriteUser_WholeBody(r) ==
    LET me == request[r] IN
    /\ me.pc = "write"
    /\ user' = [user EXCEPT ![me.id] = [username |-> me.username, status |-> me.status]]
    /\ (me.kind = "update" /\ Goto(r, "syncRoles")) \/ (me.kind = "switch" /\ Finish(r))
    /\ UNCHANGED <<keycloak, granted, torn, undone>>

WriteUser(r) ==
    LET me == request[r] IN
    /\ me.pc = "write"
    /\ user' = [user EXCEPT ![me.id] = [username |-> user[me.id].username, status |-> me.status]]
    /\ (me.kind = "update" /\ Goto(r, "syncRoles")) \/ (me.kind = "switch" /\ Finish(r))
    /\ UNCHANGED <<keycloak, granted, torn, undone>>

\* Whatever fails, each grant is one that stays, one that goes or one that is new.
Synced(id, kind, wanted, new) ==
    granted' = [granted EXCEPT ![id] = (@ \ (kind \ wanted)) \cup new]
PartlySynced(id, kind, wanted, new) ==
    \E g \in SUBSET (granted[id] \cup new) :
        /\ granted[id] \ (kind \ wanted) \subseteq g
        /\ granted' = [granted EXCEPT ![id] = g]

\* UserRole.Update, which refuses an empty list; an error is only logged.
SyncRoles(r) ==
    LET me == request[r] IN
    /\ me.pc = "syncRoles"
    /\ \/ me.roles = {} /\ UNCHANGED granted
       \/ /\ me.roles # {}
          /\ \/ Synced(me.id, Roles, me.roles, ActiveRoles(me.roles))
             \/ PartlySynced(me.id, Roles, me.roles, ActiveRoles(me.roles))
    /\ Goto(r, "syncHouses")
    /\ UNCHANGED <<keycloak, user, torn, undone>>

SyncHouses(r) ==
    LET me == request[r] IN
    /\ me.pc = "syncHouses"
    /\ \/ me.houses = {} /\ UNCHANGED granted
       \/ /\ me.houses # {}
          /\ \/ Synced(me.id, Warehouses, me.houses, me.houses)
             \/ PartlySynced(me.id, Warehouses, me.houses, me.houses)
    /\ Finish(r)
    /\ UNCHANGED <<keycloak, user, torn, undone>>

\* The database fails a request that has changed Keycloak or is about to.
RequestFails(r) ==
    /\ request[r].pc \in {"find", "upsert", "write"}
    /\ Finish(r)
    /\ Tear(request[r].id)
    /\ UNCHANGED <<keycloak, user, granted, undone>>

-----------------------------------------------------------------------------
UserInit ==
    /\ keycloak \in [Ids -> Account \cup {NoRow}]
    /\ \A id \in Ids : keycloak[id] # NoRow => id \in Guests /\ keycloak[id].enabled
    /\ \A id, o \in Ids :
          keycloak[id] # NoRow /\ keycloak[o] # NoRow /\ id # o =>
            keycloak[id].username # keycloak[o].username
    /\ user = [id \in Ids |-> NoRow]
    /\ granted = [id \in Ids |-> {}]
    /\ request = [r \in Requests |-> Resting(r, "idle")]
    /\ torn = [id \in Ids |-> FALSE]
    /\ undone = [id \in Ids |-> FALSE]

UserBegins(r) ==
    \/ \E name \in Usernames, status \in Statuses, roles \in SUBSET Roles,
          houses \in SUBSET Warehouses, owners \in BOOLEAN :
            Save(r, name, status, roles, houses, owners)
    \/ \E id \in Ids, status \in Statuses, roles \in SUBSET Roles, houses \in SUBSET Warehouses :
            Update(r, id, status, roles, houses)
    \/ \E id \in Ids, status \in Statuses : Switch(r, id, status)
    \/ \E id \in Ids : Login(r, id)

UserContinues(r) ==
    \/ CreateAccount(r) \/ UpsertFind(r) \/ UpsertWrite(r)
    \/ GrantRoles(r) \/ GrantHouses(r) \/ GrantOwners(r)
    \/ UndoKeycloak(r) \/ UndoRow(r) \/ UndoGrants(r)
    \/ PutKeycloak(r) \/ WriteUser(r) \/ SyncRoles(r) \/ SyncHouses(r)
    \/ RequestFails(r)

UserNext == \E r \in Requests : UserBegins(r) \/ UserContinues(r)

\* A request does one thing: it begins as one of the users only if it is no one of the roles.
RolesStep ==
    \/ \E r \in Requests : request[r].pc = "idle" /\ (RoleBegins(r) \/ RoleContinues(r))
    \/ \E ro \in Roles : Expire(ro)

Init == RoleInit /\ UserInit

Next ==
    \/ RolesStep /\ UNCHANGED userVars
    \/ UserNext /\ UNCHANGED roleVars

Spec == Init /\ [][Next]_vars

-----------------------------------------------------------------------------
TypeOK ==
    /\ RoleTypeOK
    /\ keycloak \in [Ids -> Account \cup {NoRow}]
    /\ user \in [Ids -> User \cup {NoRow}]
    /\ granted \in [Ids -> SUBSET (Roles \cup Warehouses)]
    /\ request \in [Requests -> Request]
    /\ torn \in [Ids -> BOOLEAN]
    /\ undone \in [Ids -> BOOLEAN]

(***************************************************************************)
(* A creation that was rolled back without a failing step, and not run     *)
(* over by another request, leaves no account, no grant and no active row, *)
(* whatever updates and logins come after it.                              *)
(***************************************************************************)
Undone ==
    \A id \in Ids : undone[id] /\ ~torn[id] =>
        /\ keycloak[id] = NoRow /\ granted[id] = {}
        /\ user[id] # NoRow /\ user[id].status = "INACTIVE"

(***************************************************************************)
(* When no request works on it, an account can log in to Keycloak exactly  *)
(* if its row is active, unless a call between the two failed or requests  *)
(* on it overlapped.                                                       *)
(***************************************************************************)
AccountsAgree ==
    \A id \in Ids : user[id] # NoRow /\ ~torn[id] /\ ~Busy(id) =>
        (keycloak[id] # NoRow /\ keycloak[id].enabled <=> Enabled(user[id].status))

(***************************************************************************)
(* Without a failing call, the only account a creation leaves in Keycloak  *)
(* without a row is that of a username whose first creation was rolled     *)
(* back meanwhile: the row of that one holds the username.                 *)
(***************************************************************************)
OrphansExplained ==
    \A id \in Requests :
        keycloak[id] # NoRow /\ user[id] = NoRow /\ request[id].pc = "done" /\ ~torn[id] =>
            \E o \in Ids \ {id} :
                /\ user[o] # NoRow /\ user[o].username = keycloak[id].username
                /\ keycloak[o] = NoRow
=============================================================================
