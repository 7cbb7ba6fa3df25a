----------------------- MODULE UserProvisioningProofs -----------------------
(***************************************************************************)
(* Proofs about UserProvisioning, for any number of requests and accounts. *)
(*                                                                         *)
(* The invariant follows an account through the request that works on it.  *)
(* As long as the account is not torn there is at most one, and Phase says *)
(* what it has brought about so far; Sound says what holds of the account  *)
(* between requests.  What other requests do to other accounts matters in  *)
(* one place only, the usernames.                                          *)
(***************************************************************************)
EXTENDS UserProvisioning, RoleAdminProofs

Made(r) == request[r].pc = "done" \/ (Working(r) /\ request[r].kind = "save" /\ request[r].pc # "create")

Phase(r) ==
    LET me == request[r]
        account == keycloak[me.id]
        row == user[me.id]
    IN  /\ me.kind = "save" /\ me.pc \in {"find", "upsert"} =>
              account # NoRow /\ (account.enabled <=> Enabled(me.status)) /\ row = NoRow
        /\ me.kind = "login" /\ row = NoRow => account # NoRow /\ me.status = "ACTIVE"
        /\ me.pc = "upsert" => me.found = (row # NoRow)
        /\ me.pc = "upsert" /\ me.found => me.status = row.status
        /\ me.pc = "write" => account # NoRow /\ (account.enabled <=> Enabled(me.status))
        /\ me.pc \in {"syncRoles", "syncHouses"} => account # NoRow
        /\ me.pc \in {"undoRow", "undoGrants"} => account = NoRow
        /\ me.pc = "undoGrants" => row.status = "INACTIVE"

Protocol(r) ==
    LET me == request[r] IN
    /\ me.kind = "login" => me.pc \in {"find", "upsert"}
    /\ me.pc \in {"find", "upsert"} => me.kind \in {"save", "login"}
    /\ me.pc \in {"create", "roles", "houses", "owners", "undoKeycloak", "undoRow", "undoGrants"} =>
          me.kind = "save"
    /\ me.pc \in {"put", "write"} => me.kind \in {"update", "switch"}
    /\ me.pc \in {"create", "find", "upsert"} => me.username \in Usernames
    /\ me.pc \in {"find", "upsert"} /\ keycloak[me.id] # NoRow =>
          keycloak[me.id].username = me.username
    /\ me.pc \notin {"create", "find", "upsert"} \/ me.found => user[me.id] # NoRow

Knows(r) ==
    /\ ~Made(r) => keycloak[r] = NoRow /\ user[r] = NoRow
    /\ Working(r) =>
          /\ request[r].kind = "save" => request[r].id = r
          /\ request[r].id \in Requests \ {r} => Made(request[r].id)
          /\ Protocol(r)
          /\ ~torn[request[r].id] => Phase(r)

Agree(id) ==
    keycloak[id] # NoRow /\ keycloak[id].enabled <=> Enabled(user[id].status)

Sound(id) ==
    /\ undone[id] => id \in Requests /\ request[id].pc = "done"
    /\ ~torn[id] =>
          /\ id \in Guests /\ keycloak[id] # NoRow /\ user[id] = NoRow => keycloak[id].enabled
          /\ \A q, p \in Requests :
                Working(q) /\ request[q].id = id /\ Working(p) /\ request[p].id = id => q = p
          /\ \/ user[id] = NoRow
             \/ \E q \in Requests :
                  Working(q) /\ request[q].id = id /\ request[q].pc \in {"write", "undoRow"}
             \/ Agree(id)
          /\ undone[id] =>
                /\ keycloak[id] = NoRow /\ granted[id] = {}
                /\ user[id] # NoRow /\ user[id].status = "INACTIVE"
          /\ id \in Requests /\ keycloak[id] # NoRow /\ user[id] = NoRow /\ request[id].pc = "done" =>
                \E o \in Ids \ {id} :
                    /\ user[o] # NoRow /\ user[o].username = keycloak[id].username
                    /\ keycloak[o] = NoRow

NamesAgree ==
    /\ \A id \in Ids :
          keycloak[id] # NoRow /\ user[id] # NoRow => keycloak[id].username = user[id].username
    /\ \A id, o \in Ids :
          keycloak[id] # NoRow /\ keycloak[o] # NoRow /\ keycloak[id].username = keycloak[o].username =>
            id = o

UserTypeOK ==
    /\ keycloak \in [Ids -> Account \cup {NoRow}]
    /\ user \in [Ids -> User \cup {NoRow}]
    /\ granted \in [Ids -> SUBSET (Roles \cup Warehouses)]
    /\ request \in [Requests -> Request]
    /\ torn \in [Ids -> BOOLEAN]
    /\ undone \in [Ids -> BOOLEAN]

UserInv ==
    /\ UserTypeOK /\ NamesAgree
    /\ \A id \in Ids : Sound(id)
    /\ \A r \in Requests : Knows(r)

-----------------------------------------------------------------------------
LEMMA UserInvSuffices == UserInv => Undone /\ AccountsAgree /\ OrphansExplained
<1> SUFFICES ASSUME UserInv PROVE Undone /\ AccountsAgree /\ OrphansExplained
  OBVIOUS
<1>1. Undone
  BY DEF UserInv, Sound, Undone
<1>2. AccountsAgree
  BY DEF UserInv, Sound, AccountsAgree, Busy, Agree
<1>3. OrphansExplained
  BY DEF UserInv, Sound, OrphansExplained, Ids
<1>4. QED
  BY <1>1, <1>2, <1>3

(***************************************************************************)
(* A step of r works on one account, id.  What is left to show of it is    *)
(* what r knows then and what holds of id: no other request on id knows    *)
(* anything, and other accounts do not notice.                             *)
(***************************************************************************)
LEMMA LocalStep ==
    ASSUME UserInv, UserTypeOK', NEW r \in Requests, NEW id \in Ids,
           \A q \in Requests \ {r} : request'[q] = request[q],
           \A o \in Ids \ {id} :
                /\ keycloak'[o] = keycloak[o] /\ user'[o] = user[o] /\ granted'[o] = granted[o]
                /\ torn'[o] = torn[o] /\ undone'[o] = undone[o],
           request[r].pc # "done", request'[r].pc # "idle",
           Working(r) => request[r].id = id,
           ~Working(r) => (Busy(id) => torn'[id]) /\ (id \in Requests \ {r} => Made(id)),
           Working(r)' => request'[r].id = id,
           Made(r) => Made(r)',
           torn[id] => torn'[id],
           user[id] # NoRow => user'[id] # NoRow /\ user'[id].username = user[id].username,
           keycloak'[id] # NoRow =>
                \/ keycloak[id] # NoRow /\ keycloak'[id].username = keycloak[id].username
                \/ id = r /\ ~Made(r) /\ ~KeycloakHas(keycloak'[id].username),
           keycloak'[id] # NoRow /\ user'[id] # NoRow =>
                keycloak'[id].username = user'[id].username,
           Knows(r)', Sound(id)'
    PROVE  UserInv'
<1> USE DEF Working
<1>1. NamesAgree'
  BY DEF UserInv, NamesAgree, KeycloakHas
<1>2. ASSUME NEW q \in Requests \ {r}, Working(q), request[q].id = id PROVE torn'[id]
  BY <1>2 DEF UserInv, Sound, Busy
<1>3. ASSUME NEW q \in Requests, Made(q) PROVE Made(q)'
  BY <1>3 DEF Made
<1>4. Working(r) /\ id \in Requests \ {r} => Made(id)
  BY DEF UserInv, Knows, Protocol
<1>5. ASSUME NEW q \in Requests \ {r} PROVE Knows(q)'
  <2>1. Knows(q) /\ request'[q] = request[q] /\ (Made(q)' => Made(q))
    BY DEF UserInv, Made
  <2>2. ~Made(q)' => keycloak'[q] = NoRow /\ user'[q] = NoRow
    <3>1. CASE q = id
      BY <1>3, <1>4, <3>1
    <3>2. CASE q # id
      BY <1>3, <2>1, <3>2 DEF Knows, Protocol, Ids
    <3>3. QED
      BY <3>1, <3>2
  <2>3. CASE Working(q) /\ request[q].id = id
    BY <1>2, <1>3, <2>1, <2>2, <2>3 DEF Knows, Protocol
  <2>4. CASE Working(q) /\ request[q].id # id
    <3>1. request[q].id \in Ids
      BY DEF UserInv, UserTypeOK, Request
    <3>2. Phase(q) => Phase(q)'
      BY <2>1, <2>4, <3>1 DEF Phase
    <3>3. QED
      BY <1>3, <2>1, <2>2, <2>4, <3>1, <3>2 DEF Knows, Protocol
  <2>5. CASE ~Working(q)
    BY <2>1, <2>2, <2>5 DEF Knows, Protocol
  <2>6. QED
    BY <2>3, <2>4, <2>5
<1>6. ASSUME NEW o \in Ids \ {id} PROVE Sound(o)'
  <2>1. Sound(o) /\ Knows(r)
    BY DEF UserInv
  <2>2. \A q \in Requests :
          (Working(q) /\ request[q].id = o)' <=> (Working(q) /\ request[q].id = o)
    OBVIOUS
  <2>3. undone'[o] => o \in Requests /\ request'[o].pc = "done"
    BY <2>1 DEF Sound
  <2>4. CASE o = r
    <3>1. keycloak[r] = NoRow /\ user[r] = NoRow
      BY <2>1, <2>4 DEF Knows, Protocol, Made
    <3>2. QED
      BY <2>1, <2>2, <2>3, <2>4, <3>1 DEF Sound, Agree
  <2>5. CASE o # r
    <3>1. o \in Requests => request'[o] = request[o]
      BY <2>5
    <3>2. ASSUME ~torn[o], \E q \in Requests :
                    Working(q) /\ request[q].id = o /\ request[q].pc \in {"write", "undoRow"}
          PROVE  \E q \in Requests :
                    Working(q)' /\ request'[q].id = o /\ request'[q].pc \in {"write", "undoRow"}
      BY <2>2, <3>2
    <3>3. ASSUME NEW x \in Ids \ {o}, user[x] # NoRow, user[x].username = keycloak[o].username,
                 keycloak[x] = NoRow
          PROVE  user'[x] # NoRow /\ user'[x].username = keycloak[o].username /\ keycloak'[x] = NoRow
      <4>1. CASE x = id
        <5>1. id \in Requests => Made(id)
          BY <3>3, <4>1 DEF UserInv, Knows, Protocol
        <5>2. QED
          BY <3>3, <4>1, <5>1
      <4>2. CASE x # id
        BY <3>3, <4>2
      <4>3. QED
        BY <4>1, <4>2
    <3>4. QED
      BY <2>1, <2>2, <2>3, <3>1, <3>2, <3>3 DEF Sound, Agree
  <2>6. QED
    BY <2>4, <2>5
<1>7. QED
  BY <1>1, <1>5, <1>6 DEF UserInv

-----------------------------------------------------------------------------
\* A request that has answered knows nothing.
LEMMA Finishes ==
    ASSUME UserTypeOK, NEW r \in Requests, Finish(r)
    PROVE  /\ request' \in [Requests -> Request]
           /\ \A q \in Requests \ {r} : request'[q] = request[q]
           /\ request'[r].pc = "done" /\ ~Working(r)' /\ Made(r)' /\ Knows(r)'
<1>1. Resting(r, "done") \in Request /\ Resting(r, "done").pc = "done"
  BY DEF Resting, Doing, Request, Statuses, Ids
<1>2. request'[r].pc = "done" /\ request' \in [Requests -> Request]
      /\ \A q \in Requests \ {r} : request'[q] = request[q]
  BY <1>1 DEF Finish, UserTypeOK
<1>3. QED
  BY <1>2 DEF Working, Made, Knows, Protocol

LEMMA Goes ==
    ASSUME UserTypeOK, NEW r \in Requests,
           NEW pc \in {"find", "upsert", "roles", "houses", "owners", "undoKeycloak", "undoRow",
                       "undoGrants", "write", "syncRoles", "syncHouses"},
           Goto(r, pc)
    PROVE  /\ request' \in [Requests -> Request]
           /\ \A q \in Requests \ {r} : request'[q] = request[q]
           /\ request'[r].pc = pc /\ Working(r)'
           /\ request'[r].kind = request[r].kind /\ request'[r].id = request[r].id
           /\ request'[r].username = request[r].username
           /\ request'[r].status = request[r].status /\ request'[r].found = request[r].found
<1> DEFINE m == [request[r] EXCEPT !.pc = pc]
<1>1. request[r] \in Request
  BY DEF UserTypeOK
<1>2. /\ m \in Request /\ m.pc = pc /\ m.kind = request[r].kind /\ m.id = request[r].id
      /\ m.username = request[r].username /\ m.status = request[r].status
      /\ m.found = request[r].found
  BY <1>1 DEF Request
<1>3. request' = [request EXCEPT ![r] = m]
  BY DEF Goto
<1> HIDE DEF m
<1>4. QED
  BY <1>2, <1>3 DEF UserTypeOK, Working

\* The first call of a request, on an account nobody works on or one that is torn by it.
LEMMA BeginStep ==
    ASSUME UserInv, NEW r \in Requests, NEW m \in Request, Begin(r, m),
           m.pc # "idle", m.pc = "done" => m.id = r, m.found = FALSE,
           m.pc # "done" =>
             /\ m.pc \in {"create", "find", "put"}
             /\ m.pc = "create" => m.kind = "save" /\ m.id = r /\ m.username \in Usernames
             /\ m.pc = "find" =>
                  /\ m.kind = "login" /\ m.username \in Usernames /\ m.status = "ACTIVE"
                  /\ keycloak[m.id] # NoRow => m.username = keycloak[m.id].username
                  /\ keycloak[m.id] # NoRow \/ user[m.id] # NoRow
             /\ m.pc = "put" => m.kind \in {"update", "switch"} /\ user[m.id] # NoRow
    PROVE  UserInv'
<1> DEFINE id == m.id
<1>1. id \in Ids /\ r \in Ids /\ request[r].pc = "idle" /\ ~Working(r) /\ ~Made(r)
  BY DEF Begin, Request, Ids, Working, Made
<1>2. /\ request' \in [Requests -> Request] /\ request'[r] = m
      /\ \A q \in Requests \ {r} : request'[q] = request[q]
      /\ \A o \in Ids \ {id} : torn'[o] = torn[o]
      /\ torn'[id] = (torn[id] \/ Busy(id)) /\ torn' \in [Ids -> BOOLEAN]
      /\ UNCHANGED <<keycloak, user, granted, undone>>
  <2>1. Busy(id) \in BOOLEAN
    BY DEF Busy
  <2> DEFINE b == torn[id] \/ Busy(id)
  <2>2. b \in BOOLEAN /\ torn' = [torn EXCEPT ![id] = b]
    BY <1>1, <2>1 DEF Begin, UserInv, UserTypeOK
  <2> HIDE DEF b
  <2>3. /\ \A o \in Ids \ {id} : torn'[o] = torn[o]
        /\ torn'[id] = b /\ torn' \in [Ids -> BOOLEAN]
    BY <1>1, <2>2 DEF UserInv, UserTypeOK
  <2>4. QED
    BY <2>3 DEF Begin, UserInv, UserTypeOK, b
<1>3. Knows(r) /\ Sound(id) /\ NamesAgree /\ keycloak[r] = NoRow /\ user[r] = NoRow
  BY <1>1 DEF UserInv, Knows, Protocol
<1>4. id \in Requests \ {r} => Made(id) \/ m.pc = "done"
  BY DEF UserInv, Knows, Protocol
<1>5. UserTypeOK'
  BY <1>2 DEF UserInv, UserTypeOK
<1>6. Made(id) /\ id \in Requests \ {r} => Made(id)'
  BY <1>2 DEF Made, Working
<1>7. Knows(r)'
  <2>1. CASE m.pc = "done"
    BY <1>2, <2>1 DEF Knows, Protocol, Working, Made
  <2>2. CASE m.pc # "done"
    BY <1>2, <1>3, <1>4, <1>6, <2>2 DEF Knows, Protocol, Phase, Working
  <2>3. QED
    BY <2>1, <2>2
<1>8. Sound(id)'
  <2>1. undone'[id] => id \in Requests /\ id # r /\ request'[id].pc = "done"
    BY <1>1, <1>2, <1>3 DEF Sound
  <2> SUFFICES ASSUME ~torn'[id] PROVE Sound(id)'
    BY <2>1 DEF Sound
  <2>2. ~torn[id] /\ \A q \in Requests : ~(Working(q) /\ request[q].id = id)
    BY <1>1, <1>2 DEF Busy
  <2>3. \A q \in Requests : Working(q)' /\ request'[q].id = id => q = r
    BY <1>2, <2>2 DEF Working
  <2>4. user[id] = NoRow \/ Agree(id)
    BY <1>3, <2>2 DEF Sound
  <2>5. ASSUME id \in Requests, keycloak[id] # NoRow, request'[id].pc = "done"
        PROVE  request[id].pc = "done"
    BY <1>2, <1>3, <2>5
  <2>6. QED
    BY <1>2, <1>3, <2>1, <2>2, <2>3, <2>4, <2>5 DEF Sound, Agree
<1>9. QED
  BY <1>1, <1>2, <1>3, <1>4, <1>5, <1>7, <1>8, LocalStep DEF NamesAgree, Working, UserInv

LEMMA InvUserBegins ==
    ASSUME UserInv, NEW r \in Requests, UserBegins(r)
    PROVE  UserInv'
<1>1. r \in Ids
  BY DEF Ids
<1>2. CASE Refuse(r)
  <2> DEFINE m == Resting(r, "done")
  <2>1. m \in Request /\ m.pc = "done" /\ m.id = r /\ m.found = FALSE
    BY <1>1 DEF Resting, Doing, Request, Statuses
  <2>2. Begin(r, m)
    BY <1>2 DEF Refuse
  <2> HIDE DEF m
  <2>3. QED
    BY <2>1, <2>2, BeginStep
<1>3. ASSUME NEW name \in Usernames, NEW status \in Statuses, NEW roles \in SUBSET Roles,
             NEW houses \in SUBSET Warehouses, NEW owners \in BOOLEAN,
             Save(r, name, status, roles, houses, owners), ~Refuse(r)
      PROVE  UserInv'
  <2> DEFINE m == Doing("create", "save", r, name, status, roles, houses, owners)
  <2>1. m \in Request /\ m.pc = "create" /\ m.kind = "save" /\ m.id = r /\ m.username = name
        /\ m.found = FALSE
    BY <1>1 DEF Doing, Request
  <2>2. Begin(r, m)
    BY <1>3 DEF Save
  <2> HIDE DEF m
  <2>3. QED
    BY <2>1, <2>2, BeginStep
<1>4. ASSUME NEW id \in Ids, NEW status \in Statuses, NEW roles \in SUBSET Roles,
             NEW houses \in SUBSET Warehouses, NEW kind \in {"update", "switch"}, user[id] # NoRow,
             Begin(r, Doing("put", kind, id, NoName, status, roles, houses, FALSE))
      PROVE  UserInv'
  <2> DEFINE m == Doing("put", kind, id, NoName, status, roles, houses, FALSE)
  <2>1. m \in Request /\ m.pc = "put" /\ m.kind = kind /\ m.id = id /\ m.found = FALSE
    BY DEF Doing, Request
  <2>2. Begin(r, m)
    BY <1>4
  <2> HIDE DEF m
  <2>3. QED
    BY <1>4, <2>1, <2>2, BeginStep
<1>5. ASSUME NEW id \in Ids, Login(r, id) PROVE UserInv'
  <2> DEFINE name == IF keycloak[id] # NoRow THEN keycloak[id].username ELSE user[id].username
             m == Doing("find", "login", id, name, "ACTIVE", {}, {}, FALSE)
  <2>1. name \in Usernames
    BY <1>5 DEF Login, UserInv, UserTypeOK, Account, User
  <2>2. Begin(r, m) /\ (keycloak[id] # NoRow \/ user[id] # NoRow)
    BY <1>5 DEF Login
  <2>3. keycloak[id] # NoRow => name = keycloak[id].username
    OBVIOUS
  <2> HIDE DEF name
  <2>4. m \in Request /\ m.pc = "find" /\ m.kind = "login" /\ m.id = id /\ m.found = FALSE
        /\ m.username = name /\ m.status = "ACTIVE"
    BY <2>1 DEF Doing, Request, Statuses
  <2> HIDE DEF m
  <2>5. QED
    BY <2>1, <2>2, <2>3, <2>4, BeginStep
<1>6. QED
  BY <1>2, <1>3, <1>4, <1>5 DEF UserBegins, Save, Update, Switch

\* What is known of a request at work, and of the account it works on.
LEMMA AtWork ==
    ASSUME UserInv, NEW r \in Requests, Working(r)
    PROVE  /\ request[r].id \in Ids /\ r \in Ids /\ request[r].pc \notin {"idle", "done"}
           /\ request[r].status \in Statuses /\ request[r].found \in BOOLEAN
           /\ Knows(r) /\ Sound(request[r].id)
           /\ NoRow \notin Account /\ NoRow \notin User
           /\ undone[request[r].id] => request[r].id \in Requests \ {r}
           /\ ~torn[request[r].id] =>
                \A q \in Requests : Working(q) /\ request[q].id = request[r].id => q = r
<1>1. request[r] \in Request /\ Working(r)
  BY DEF UserInv, UserTypeOK
<1>2. request[r].id \in Ids /\ r \in Ids /\ request[r].status \in Statuses /\ request[r].found \in BOOLEAN
  BY <1>1 DEF Request, Ids
<1>3. Knows(r) /\ Sound(request[r].id)
  BY <1>2 DEF UserInv
<1>4. NoRow \notin Account /\ NoRow \notin User
  BY ProvisioningAssumption
<1>5. QED
  BY <1>1, <1>2, <1>3, <1>4 DEF Sound, Working

(***************************************************************************)
(* The same for a request at work: what is left to show is where it is,    *)
(* and what it and its account have come to unless the step tore it.       *)
(***************************************************************************)
LEMMA ContinueStep ==
    ASSUME UserInv, UserTypeOK', NEW r \in Requests, Working(r), NEW id \in Ids, id = request[r].id,
           \A q \in Requests \ {r} : request'[q] = request[q],
           \A o \in Ids \ {id} :
                /\ keycloak'[o] = keycloak[o] /\ user'[o] = user[o] /\ granted'[o] = granted[o]
                /\ torn'[o] = torn[o] /\ undone'[o] = undone[o],
           request'[r].pc = "done" \/
                (Working(r)' /\ request'[r].pc # "create"
                 /\ request'[r].id = id /\ request'[r].kind = request[r].kind),
           torn[id] => torn'[id],
           undone'[id] => undone[id] \/ (id = r /\ request'[r].pc = "done"),
           user[id] # NoRow => user'[id] # NoRow /\ user'[id].username = user[id].username,
           keycloak'[id] # NoRow =>
                \/ keycloak[id] # NoRow /\ keycloak'[id].username = keycloak[id].username
                \/ id = r /\ ~Made(r) /\ Made(r)' /\ ~KeycloakHas(keycloak'[id].username),
           keycloak'[id] # NoRow /\ user'[id] # NoRow =>
                keycloak'[id].username = user'[id].username,
           Made(r)' \/ (user'[id] # NoRow => user[id] # NoRow),
           Working(r)' => Protocol(r)' /\ (~torn'[id] => Phase(r)'),
           ~torn'[id] =>
                /\ id \in Guests /\ keycloak'[id] # NoRow /\ user'[id] = NoRow => keycloak'[id].enabled
                /\ \/ user'[id] = NoRow
                   \/ request'[r].pc \in {"write", "undoRow"}
                   \/ Agree(id)'
                /\ undone'[id] =>
                      /\ keycloak'[id] = NoRow /\ granted'[id] = {}
                      /\ user'[id] # NoRow /\ user'[id].status = "INACTIVE"
                /\ id = r /\ request'[r].pc = "done" /\ keycloak'[r] # NoRow /\ user'[r] = NoRow =>
                      \E o \in Ids \ {r} :
                        /\ user'[o] # NoRow /\ user'[o].username = keycloak'[r].username
                        /\ keycloak'[o] = NoRow
    PROVE  UserInv'
<1>1. /\ request[r].id = id /\ Knows(r) /\ Sound(id) /\ r \in Ids /\ request[r].pc \notin {"idle", "done"}
      /\ undone[id] => id \in Requests \ {r}
      /\ ~torn[id] => \A q \in Requests : Working(q) /\ request[q].id = id => q = r
  BY AtWork
<1>2. Made(r) => Made(r)'
  BY <1>1 DEF Made, Working
<1>3. id \in Requests \ {r} => Made(id) /\ Made(id)'
  BY <1>1 DEF Knows, Made, Working
<1>4. Knows(r)'
  <2>1. ASSUME ~Made(r)' PROVE keycloak'[r] = NoRow /\ user'[r] = NoRow
    BY <1>1, <1>2, <2>1 DEF Knows
  <2>2. ASSUME Working(r)', request'[r].kind = "save" PROVE request'[r].id = r
    BY <1>1, <2>2 DEF Knows, Working
  <2>3. QED
    BY <1>3, <2>1, <2>2 DEF Knows, Working
<1>5. Sound(id)'
  <2>1. undone'[id] => id \in Requests /\ request'[id].pc = "done"
    BY <1>1 DEF Sound
  <2> SUFFICES ASSUME ~torn'[id] PROVE Sound(id)'
    BY <2>1 DEF Sound
  <2>2. ASSUME NEW q \in Requests, Working(q)', request'[q].id = id PROVE q = r
    BY <1>1, <2>2 DEF Working
  <2>3. ASSUME id \in Requests, keycloak'[id] # NoRow, user'[id] = NoRow, request'[id].pc = "done"
        PROVE  \E o \in Ids \ {id} :
                    /\ user'[o] # NoRow /\ user'[o].username = keycloak'[id].username
                    /\ keycloak'[o] = NoRow
    <3>1. CASE id = r
      BY <2>3, <3>1
    <3>2. CASE id # r
      <4>1. /\ keycloak[id] # NoRow /\ keycloak'[id].username = keycloak[id].username
            /\ user[id] = NoRow /\ request[id].pc = "done"
        BY <2>3, <3>2
      <4>2. \E o \in Ids \ {id} :
                /\ user[o] # NoRow /\ user[o].username = keycloak[id].username
                /\ keycloak[o] = NoRow
        BY <1>1, <2>3, <4>1 DEF Sound
      <4>3. QED
        BY <4>1, <4>2
    <3>3. QED
      BY <3>1, <3>2
  <2>4. request'[r].pc \in {"write", "undoRow"} => Working(r)' /\ request'[r].id = id
    BY DEF Working
  <2>5. QED
    BY <2>1, <2>2, <2>3, <2>4 DEF Sound
<1>6. /\ request[r].pc # "done" /\ request'[r].pc # "idle"
      /\ Working(r)' => request'[r].id = id
  BY <1>1 DEF Working
<1>7. QED
  BY <1>1, <1>2, <1>4, <1>5, <1>6, LocalStep

(***************************************************************************)
(* The steps.  id is a constant in each, so that a prime does not move it. *)
(***************************************************************************)
LEMMA InvWriteUser ==
    ASSUME UserInv, NEW r \in Requests, NEW id \in Ids, id = request[r].id, WriteUser(r)
    PROVE  UserInv'
<1> DEFINE row == [username |-> user[id].username, status |-> request[r].status]
<1>1. Working(r) /\ request[r].pc = "write"
  BY DEF WriteUser, Working
<1>2. request[r].status \in Statuses /\ Knows(r) /\ Sound(id)
  BY <1>1, AtWork
<1>3. user[id] # NoRow /\ user[id] \in User
  BY <1>1, <1>2 DEF Knows, Protocol, UserInv, UserTypeOK
<1>4. row \in User /\ row.username = user[id].username /\ row.status = request[r].status
  BY <1>2, <1>3 DEF User
<1> HIDE DEF row
<1>5. user' = [user EXCEPT ![id] = row] /\ UNCHANGED <<keycloak, granted, torn, undone>>
  BY DEF WriteUser, row
<1>6. /\ user' \in [Ids -> User \cup {NoRow}] /\ user'[id] = row /\ user'[id] # NoRow
      /\ \A o \in Ids \ {id} : user'[o] = user[o]
  <2>1. UserTypeOK /\ row \in User
    BY <1>4 DEF UserInv
  <2>2. QED
    BY <1>5, <2>1, ProvisioningAssumption DEF UserTypeOK
<1>7. /\ request' \in [Requests -> Request]
      /\ \A q \in Requests \ {r} : request'[q] = request[q]
      /\ \/ /\ request'[r].pc = "syncRoles" /\ Working(r)' /\ request'[r].id = id
            /\ request'[r].kind = request[r].kind /\ request[r].kind = "update"
         \/ request'[r].pc = "done" /\ ~Working(r)'
  <2>1. CASE request[r].kind = "update" /\ Goto(r, "syncRoles")
    BY <2>1, Goes DEF UserInv
  <2>2. CASE Finish(r)
    BY <2>2, Finishes DEF UserInv
  <2>3. QED
    BY <2>1, <2>2 DEF WriteUser
<1>8. UserTypeOK'
  BY <1>5, <1>6, <1>7 DEF UserInv, UserTypeOK
<1>9. ~torn[id] => /\ keycloak[id] # NoRow /\ (keycloak[id].enabled <=> Enabled(request[r].status))
                   /\ ~undone[id]
  <2>1. ~torn[id] => Phase(r)
    BY <1>1, <1>2 DEF Knows
  <2>2. QED
    BY <1>1, <1>2, <2>1 DEF Phase, Sound
<1>10. Working(r)' => Protocol(r)' /\ (~torn'[id] => Phase(r)')
  BY <1>5, <1>6, <1>7, <1>9 DEF Protocol, Phase
<1>11. ~torn'[id] => Agree(id)'
  BY <1>4, <1>5, <1>6, <1>9 DEF Agree, Enabled
<1>12. keycloak[id] # NoRow => keycloak[id].username = user[id].username
  BY <1>3 DEF UserInv, NamesAgree
<1>13. QED
  BY <1>1, <1>3, <1>4, <1>5, <1>6, <1>7, <1>8, <1>9, <1>10, <1>11, <1>12, ContinueStep

LEMMA InvRequestFails ==
    ASSUME UserInv, NEW r \in Requests, NEW id \in Ids, id = request[r].id, RequestFails(r)
    PROVE  UserInv'
<1>1. Working(r)
  BY DEF RequestFails, Working
<1>2. /\ request' \in [Requests -> Request] /\ request'[r].pc = "done" /\ ~Working(r)' /\ Made(r)'
      /\ \A q \in Requests \ {r} : request'[q] = request[q]
  BY Finishes DEF RequestFails, UserInv
<1>3. /\ torn' \in [Ids -> BOOLEAN] /\ torn'[id] /\ \A o \in Ids \ {id} : torn'[o] = torn[o]
      /\ UNCHANGED <<keycloak, user, granted, undone>>
  BY DEF RequestFails, Tear, UserInv, UserTypeOK
<1>4. UserTypeOK'
  BY <1>2, <1>3 DEF UserInv, UserTypeOK
<1>5. keycloak[id] # NoRow /\ user[id] # NoRow => keycloak[id].username = user[id].username
  BY DEF UserInv, NamesAgree
<1>6. QED
  BY <1>1, <1>2, <1>3, <1>4, <1>5, ContinueStep

\* A step that writes grants of an account whose creation was not rolled back.
LEMMA GrantsStep ==
    ASSUME UserInv, NEW r \in Requests, NEW id \in Ids, id = request[r].id,
           request[r].pc \in {"roles", "houses", "owners", "syncRoles", "syncHouses"},
           granted' \in [Ids -> SUBSET (Roles \cup Warehouses)],
           \A o \in Ids \ {id} : granted'[o] = granted[o],
           UNCHANGED <<keycloak, user, torn, undone>>,
           \/ Finish(r)
           \/ /\ request[r].pc \in {"roles", "houses", "owners"}
              /\ Goto(r, "houses") \/ Goto(r, "owners") \/ Goto(r, "undoKeycloak")
           \/ request[r].pc = "syncRoles" /\ Goto(r, "syncHouses")
    PROVE  UserInv'
<1>1. Working(r) /\ Knows(r) /\ Sound(id)
  BY AtWork DEF Working
<1>2. /\ undone[id] => id \in Requests \ {r}
      /\ user[id] # NoRow
      /\ keycloak[id] # NoRow => keycloak[id].username = user[id].username
  BY <1>1, AtWork DEF Knows, Protocol, UserInv, NamesAgree
<1>3. ~torn[id] => ~undone[id] /\ Phase(r)
  BY <1>1, <1>2 DEF Knows, Protocol, Phase, Sound
<1>4. /\ request' \in [Requests -> Request]
      /\ \A q \in Requests \ {r} : request'[q] = request[q]
      /\ \/ request'[r].pc = "done" /\ ~Working(r)'
         \/ /\ Working(r)' /\ request'[r].id = id /\ request'[r].kind = request[r].kind
            /\ \/ /\ request[r].pc \in {"roles", "houses", "owners"}
                  /\ request'[r].pc \in {"houses", "owners", "undoKeycloak"}
               \/ request[r].pc = "syncRoles" /\ request'[r].pc = "syncHouses"
  <2>1. CASE Finish(r)
    BY <2>1, Finishes DEF UserInv
  <2>2. CASE request[r].pc \in {"roles", "houses", "owners"} /\ Goto(r, "houses")
    BY <2>2, Goes DEF UserInv
  <2>3. CASE request[r].pc \in {"roles", "houses", "owners"} /\ Goto(r, "owners")
    BY <2>3, Goes DEF UserInv
  <2>4. CASE request[r].pc \in {"roles", "houses", "owners"} /\ Goto(r, "undoKeycloak")
    BY <2>4, Goes DEF UserInv
  <2>5. CASE request[r].pc = "syncRoles" /\ Goto(r, "syncHouses")
    BY <2>5, Goes DEF UserInv
  <2>6. QED
    BY <2>1, <2>2, <2>3, <2>4, <2>5
<1>5. UserTypeOK'
  BY <1>4 DEF UserInv, UserTypeOK
<1>6. Working(r)' => Protocol(r)' /\ (~torn'[id] => Phase(r)')
  BY <1>1, <1>2, <1>3, <1>4 DEF Knows, Protocol, Phase
<1>7. ~torn[id] => Agree(id)'
  <2>1. ~torn[id] => Agree(id)
    BY <1>1, <1>2, AtWork DEF Sound
  <2>2. QED
    BY <2>1 DEF Agree
<1>8. QED
  BY <1>1, <1>2, <1>3, <1>4, <1>5, <1>6, <1>7, ContinueStep

LEMMA InvGrants ==
    ASSUME UserInv, NEW r \in Requests, NEW id \in Ids, id = request[r].id,
           \/ GrantRoles(r) \/ GrantHouses(r) \/ GrantOwners(r) \/ SyncRoles(r) \/ SyncHouses(r)
    PROVE  UserInv'
<1>1. /\ request[r] \in Request /\ UserTypeOK
      /\ request[r].roles \in SUBSET Roles /\ request[r].houses \in SUBSET Warehouses
  BY DEF UserInv, UserTypeOK, Request
<1>2. ActiveRoles(request[r].roles) \in SUBSET Roles
  BY <1>1 DEF ActiveRoles
<1>3. CASE GrantRoles(r)
  <2>1. /\ granted' \in [Ids -> SUBSET (Roles \cup Warehouses)]
        /\ \A o \in Ids \ {id} : granted'[o] = granted[o]
    BY <1>1, <1>2, <1>3 DEF GrantRoles, UserTypeOK
  <2>2. QED
    BY <1>3, <2>1, GrantsStep DEF GrantRoles
<1>4. CASE GrantHouses(r)
  <2>1. /\ granted' \in [Ids -> SUBSET (Roles \cup Warehouses)]
        /\ \A o \in Ids \ {id} : granted'[o] = granted[o]
    BY <1>1, <1>4 DEF GrantHouses, UserTypeOK
  <2>2. QED
    BY <1>4, <2>1, GrantsStep DEF GrantHouses
<1>5. CASE GrantOwners(r)
  BY <1>1, <1>5, GrantsStep DEF GrantOwners, UserTypeOK
<1>6. CASE SyncRoles(r)
  <2>1. /\ granted' \in [Ids -> SUBSET (Roles \cup Warehouses)]
        /\ \A o \in Ids \ {id} : granted'[o] = granted[o]
    BY <1>1, <1>2, <1>6 DEF SyncRoles, Synced, PartlySynced, UserTypeOK
  <2>2. QED
    BY <1>6, <2>1, GrantsStep DEF SyncRoles
<1>7. CASE SyncHouses(r)
  <2>1. /\ granted' \in [Ids -> SUBSET (Roles \cup Warehouses)]
        /\ \A o \in Ids \ {id} : granted'[o] = granted[o]
    BY <1>1, <1>7 DEF SyncHouses, Synced, PartlySynced, UserTypeOK
  <2>2. QED
    BY <1>7, <2>1, GrantsStep DEF SyncHouses
<1>8. QED
  BY <1>3, <1>4, <1>5, <1>6, <1>7

LEMMA InvUndoKeycloak ==
    ASSUME UserInv, NEW r \in Requests, NEW id \in Ids, id = request[r].id, UndoKeycloak(r)
    PROVE  UserInv'
<1>1. Working(r) /\ request[r].pc = "undoKeycloak" /\ Knows(r) /\ Sound(id) /\ id = r /\ ~undone[id]
  BY AtWork DEF UndoKeycloak, Working, Knows, Protocol
<1>2. /\ request' \in [Requests -> Request]
      /\ \A q \in Requests \ {r} : request'[q] = request[q]
      /\ request'[r].pc = "undoRow" /\ Working(r)' /\ request'[r].id = id
      /\ request'[r].kind = request[r].kind /\ request'[r].found = request[r].found
  BY Goes DEF UndoKeycloak, UserInv
<1>3. /\ keycloak' \in [Ids -> Account \cup {NoRow}]
      /\ keycloak'[id] = NoRow \/ keycloak' = keycloak
      /\ \A o \in Ids \ {id} : keycloak'[o] = keycloak[o]
  BY DEF UndoKeycloak, UserInv, UserTypeOK
<1>4. /\ torn' \in [Ids -> BOOLEAN] /\ (torn[id] => torn'[id])
      /\ ~torn'[id] => keycloak'[id] = NoRow
      /\ \A o \in Ids \ {id} : torn'[o] = torn[o]
  BY DEF UndoKeycloak, Tear, UserInv, UserTypeOK
<1>5. UNCHANGED <<user, granted, undone>>
  BY DEF UndoKeycloak
<1>6. UserTypeOK'
  BY <1>2, <1>3, <1>4, <1>5 DEF UserInv, UserTypeOK
<1>7. user[id] # NoRow /\ (keycloak[id] # NoRow => keycloak[id].username = user[id].username)
  BY <1>1 DEF Knows, Protocol, UserInv, NamesAgree
<1>8. Protocol(r)' /\ (~torn'[id] => Phase(r)')
  BY <1>1, <1>2, <1>4, <1>5, <1>7 DEF Knows, Protocol, Phase
<1>9. keycloak'[id] # NoRow => keycloak[id] # NoRow /\ keycloak'[id].username = user[id].username
                            /\ keycloak'[id].username = keycloak[id].username
  BY <1>3, <1>7
<1>10. /\ Working(r) /\ ~undone'[id] /\ user'[id] = user[id]
       /\ \A o \in Ids \ {id} :
            /\ keycloak'[o] = keycloak[o] /\ user'[o] = user[o] /\ granted'[o] = granted[o]
            /\ torn'[o] = torn[o] /\ undone'[o] = undone[o]
  BY <1>1, <1>3, <1>4, <1>5
<1>11. torn[id] => torn'[id]
  BY <1>4
<1>12. QED
  BY <1>2, <1>6, <1>7, <1>8, <1>9, <1>10, <1>11, ContinueStep

LEMMA InvUndoRow ==
    ASSUME UserInv, NEW r \in Requests, NEW id \in Ids, id = request[r].id, UndoRow(r)
    PROVE  UserInv'
<1> DEFINE row == [username |-> user[id].username, status |-> "INACTIVE"]
<1>1. Working(r) /\ request[r].pc = "undoRow" /\ Knows(r) /\ Sound(id) /\ id = r /\ ~undone[id]
  BY AtWork DEF UndoRow, Working, Knows, Protocol
<1>2. user[id] # NoRow /\ user[id] \in User
      /\ (keycloak[id] # NoRow => keycloak[id].username = user[id].username)
  BY <1>1 DEF Knows, Protocol, UserInv, NamesAgree, UserTypeOK
<1>3. row \in User /\ row.username = user[id].username /\ row.status = "INACTIVE" /\ row # NoRow
  BY <1>2, ProvisioningAssumption DEF User, Statuses
<1> HIDE DEF row
<1>4. /\ request' \in [Requests -> Request]
      /\ \A q \in Requests \ {r} : request'[q] = request[q]
      /\ request'[r].pc = "undoGrants" /\ Working(r)' /\ request'[r].id = id
      /\ request'[r].kind = request[r].kind /\ request'[r].found = request[r].found
  BY Goes DEF UndoRow, UserInv
<1>5. \/ user' = [user EXCEPT ![id] = row] /\ UNCHANGED torn
      \/ UNCHANGED user /\ Tear(id)
  BY DEF UndoRow, row
<1>6. /\ user' \in [Ids -> User \cup {NoRow}]
      /\ user'[id] = row \/ user' = user
      /\ \A o \in Ids \ {id} : user'[o] = user[o]
  BY <1>3, <1>5 DEF UserInv, UserTypeOK
<1>7. /\ torn' \in [Ids -> BOOLEAN] /\ (torn[id] => torn'[id])
      /\ ~torn'[id] => user'[id] = row /\ ~torn[id]
      /\ \A o \in Ids \ {id} : torn'[o] = torn[o]
  BY <1>3, <1>5 DEF Tear, UserInv, UserTypeOK
<1>8. UNCHANGED <<keycloak, granted, undone>>
  BY DEF UndoRow
<1>9. UserTypeOK'
  BY <1>4, <1>6, <1>7, <1>8 DEF UserInv, UserTypeOK
<1>10. ~torn[id] => keycloak[id] = NoRow
  BY <1>1 DEF Knows, Phase
<1>11. Protocol(r)' /\ (~torn'[id] => Phase(r)')
  BY <1>1, <1>2, <1>3, <1>4, <1>6, <1>7, <1>8, <1>10 DEF Knows, Protocol, Phase
<1>12. ~torn'[id] => Agree(id)'
  BY <1>3, <1>7, <1>8, <1>10 DEF Agree, Enabled
<1>13. user'[id] # NoRow /\ user'[id].username = user[id].username
  BY <1>2, <1>3, <1>6
<1>14. /\ Working(r) /\ ~undone'[id] /\ keycloak'[id] = keycloak[id]
       /\ \A o \in Ids \ {id} :
            /\ keycloak'[o] = keycloak[o] /\ user'[o] = user[o] /\ granted'[o] = granted[o]
            /\ torn'[o] = torn[o] /\ undone'[o] = undone[o]
  BY <1>1, <1>6, <1>7, <1>8
<1>15. torn[id] => torn'[id]
  BY <1>7
<1>16. QED
  BY <1>2, <1>4, <1>9, <1>11, <1>12, <1>13, <1>14, <1>15, ContinueStep

LEMMA InvUndoGrants ==
    ASSUME UserInv, NEW r \in Requests, NEW id \in Ids, id = request[r].id, UndoGrants(r)
    PROVE  UserInv'
<1>1. Working(r) /\ request[r].pc = "undoGrants" /\ Knows(r) /\ Sound(id) /\ id = r
  BY AtWork DEF UndoGrants, Working, Knows, Protocol
<1>2. /\ request' \in [Requests -> Request]
      /\ \A q \in Requests \ {r} : request'[q] = request[q]
      /\ request'[r].pc = "done" /\ ~Working(r)' /\ Made(r)'
  BY Finishes DEF UndoGrants, UserInv
<1>3. /\ granted' \in [Ids -> SUBSET (Roles \cup Warehouses)]
      /\ \A o \in Ids \ {id} : granted'[o] = granted[o]
      /\ torn' \in [Ids -> BOOLEAN] /\ (torn[id] => torn'[id])
      /\ ~torn'[id] => granted'[id] = {} /\ ~torn[id]
      /\ \A o \in Ids \ {id} : torn'[o] = torn[o]
  <2>1. PICK g \in SUBSET granted[id] :
            /\ granted' = [granted EXCEPT ![id] = g]
            /\ Tear(id) \/ (UNCHANGED torn /\ g = {})
    BY DEF UndoGrants
  <2>2. g \in SUBSET (Roles \cup Warehouses)
    BY DEF UserInv, UserTypeOK
  <2>3. QED
    BY <2>1, <2>2 DEF Tear, UserInv, UserTypeOK
<1>4. /\ undone' \in [Ids -> BOOLEAN] /\ \A o \in Ids \ {id} : undone'[o] = undone[o]
      /\ UNCHANGED <<keycloak, user>>
  BY DEF UndoGrants, UserInv, UserTypeOK
<1>5. UserTypeOK'
  BY <1>2, <1>3, <1>4 DEF UserInv, UserTypeOK
<1>6. user[id] # NoRow /\ (keycloak[id] # NoRow => keycloak[id].username = user[id].username)
  BY <1>1 DEF Knows, Protocol, UserInv, NamesAgree
<1>7. ~torn[id] => keycloak[id] = NoRow /\ user[id].status = "INACTIVE"
  BY <1>1 DEF Knows, Phase
<1>8. ~torn'[id] => Agree(id)'
  BY <1>3, <1>4, <1>7 DEF Agree, Enabled
<1>9. /\ Working(r) /\ id = r /\ keycloak'[id] = keycloak[id] /\ user'[id] = user[id]
      /\ user'[id] # NoRow
      /\ ~torn'[id] => keycloak'[id] = NoRow /\ user'[id].status = "INACTIVE" /\ granted'[id] = {}
      /\ \A o \in Ids \ {id} :
            /\ keycloak'[o] = keycloak[o] /\ user'[o] = user[o] /\ granted'[o] = granted[o]
            /\ torn'[o] = torn[o] /\ undone'[o] = undone[o]
  BY <1>1, <1>3, <1>4, <1>6, <1>7
<1>10. /\ torn[id] => torn'[id]
       /\ user[id] # NoRow
       /\ undone'[id] => id = r /\ request'[r].pc = "done"
       /\ keycloak'[id] # NoRow => keycloak[id] # NoRow /\ keycloak'[id].username = keycloak[id].username
                                   /\ keycloak'[id].username = user'[id].username
  BY <1>2, <1>3, <1>6, <1>9
<1>11. QED
  BY <1>2, <1>5, <1>8, <1>9, <1>10, ContinueStep

LEMMA InvPutKeycloak ==
    ASSUME UserInv, NEW r \in Requests, NEW id \in Ids, id = request[r].id, PutKeycloak(r)
    PROVE  UserInv'
<1> DEFINE account == NewAccount(keycloak[id].username, request[r].status)
<1>1. /\ Working(r) /\ request[r].pc = "put" /\ Knows(r) /\ Sound(id) /\ request[r].status \in Statuses
      /\ undone[id] => id \in Requests \ {r}
      /\ ~torn[id] => \A q \in Requests : Working(q) /\ request[q].id = id => q = r
  BY AtWork DEF PutKeycloak, Working
<1>2. /\ request[r].kind \in {"update", "switch"} /\ user[id] # NoRow
      /\ keycloak[id] # NoRow => keycloak[id] \in Account /\ keycloak[id].username = user[id].username
  BY <1>1 DEF Knows, Protocol, UserInv, NamesAgree, UserTypeOK
<1>3. keycloak[id] # NoRow =>
        /\ account \in Account /\ account # NoRow /\ account.username = keycloak[id].username
        /\ account.enabled <=> Enabled(request[r].status)
  <2> DEFINE b == Enabled(request[r].status)
  <2>1. b \in BOOLEAN /\ account = [username |-> keycloak[id].username, enabled |-> b]
    BY DEF NewAccount, Enabled
  <2> HIDE DEF b, account
  <2>2. keycloak[id] # NoRow =>
          account \in Account /\ account.username = keycloak[id].username /\ account.enabled = b
    BY <1>2, <2>1 DEF Account
  <2>3. QED
    BY <2>2, ProvisioningAssumption DEF b
<1> HIDE DEF account
<1>4. /\ \/ /\ keycloak[id] # NoRow /\ keycloak' = [keycloak EXCEPT ![id] = account]
            /\ (Goto(r, "write") /\ UNCHANGED torn) \/ Tear(id)
         \/ UNCHANGED keycloak /\ Finish(r) /\ UNCHANGED torn
         \/ UNCHANGED keycloak /\ Goto(r, "write") /\ Tear(id)
      /\ Goto(r, "write") \/ Finish(r)
      /\ UNCHANGED <<user, granted, undone>>
  BY DEF PutKeycloak, account
<1>5. /\ request' \in [Requests -> Request]
      /\ \A q \in Requests \ {r} : request'[q] = request[q]
      /\ \/ request'[r].pc = "done" /\ ~Working(r)'
         \/ /\ request'[r].pc = "write" /\ Working(r)' /\ request'[r].id = id
            /\ request'[r].kind = request[r].kind /\ request'[r].status = request[r].status
      /\ Goto(r, "write") => request'[r].pc = "write"
      /\ Finish(r) => request'[r].pc = "done"
  <2>1. CASE Goto(r, "write")
    BY <2>1, Goes, Finishes DEF UserInv
  <2>2. CASE Finish(r)
    BY <2>2, Goes, Finishes DEF UserInv
  <2>3. QED
    BY <1>4, <2>1, <2>2
<1>6. /\ keycloak' \in [Ids -> Account \cup {NoRow}]
      /\ keycloak' = keycloak \/ (keycloak[id] # NoRow /\ keycloak'[id] = account)
      /\ \A o \in Ids \ {id} : keycloak'[o] = keycloak[o]
  BY <1>3, <1>4 DEF UserInv, UserTypeOK
<1>7. /\ torn' \in [Ids -> BOOLEAN] /\ (torn[id] => torn'[id])
      /\ \A o \in Ids \ {id} : torn'[o] = torn[o]
  BY <1>4 DEF Tear, UserInv, UserTypeOK
<1>8. ~torn'[id] =>
        /\ ~torn[id]
        /\ \/ /\ request'[r].pc = "write" /\ keycloak[id] # NoRow /\ keycloak'[id] = account
           \/ request'[r].pc = "done" /\ keycloak' = keycloak
  BY <1>4, <1>5, <1>7 DEF Tear, UserInv, UserTypeOK
<1>9. UserTypeOK'
  BY <1>4, <1>5, <1>6, <1>7 DEF UserInv, UserTypeOK
<1>10. Working(r)' => Protocol(r)' /\ (~torn'[id] => Phase(r)')
  BY <1>2, <1>3, <1>4, <1>5, <1>8 DEF Protocol, Phase
<1>11. ~torn'[id] =>
        /\ request'[r].pc # "write" => Agree(id)'
        /\ undone[id] => keycloak'[id] = NoRow /\ granted[id] = {} /\ user[id].status = "INACTIVE"
  <2> SUFFICES ASSUME ~torn'[id]
               PROVE  /\ request'[r].pc # "write" => Agree(id)'
                      /\ undone[id] => keycloak'[id] = NoRow /\ granted[id] = {}
                                       /\ user[id].status = "INACTIVE"
    OBVIOUS
  <2>1. undone[id] => keycloak[id] = NoRow /\ granted[id] = {} /\ user[id].status = "INACTIVE"
    BY <1>1, <1>8 DEF Sound
  <2>2. Agree(id)
    BY <1>1, <1>2, <1>8 DEF Sound
  <2>3. QED
    BY <1>4, <1>8, <2>1, <2>2 DEF Agree
<1>12. /\ Working(r) /\ (undone[id] => id # r) /\ user'[id] = user[id] /\ granted'[id] = granted[id]
       /\ undone'[id] = undone[id]
       /\ \A o \in Ids \ {id} :
            /\ keycloak'[o] = keycloak[o] /\ user'[o] = user[o] /\ granted'[o] = granted[o]
            /\ torn'[o] = torn[o] /\ undone'[o] = undone[o]
  BY <1>1, <1>4, <1>6, <1>7
<1>13. keycloak'[id] # NoRow => keycloak[id] # NoRow /\ keycloak'[id].username = keycloak[id].username
                                /\ keycloak'[id].username = user[id].username
  BY <1>2, <1>3, <1>6
<1>14. torn[id] => torn'[id]
  BY <1>7
<1>15. user[id] # NoRow
  BY <1>2
<1>16. QED
  BY <1>5, <1>9, <1>10, <1>11, <1>12, <1>13, <1>14, <1>15, ContinueStep

LEMMA InvCreateAccount ==
    ASSUME UserInv, NEW r \in Requests, NEW id \in Ids, id = request[r].id, CreateAccount(r)
    PROVE  UserInv'
<1> DEFINE account == NewAccount(request[r].username, request[r].status)
<1>1. /\ Working(r) /\ request[r].pc = "create" /\ Knows(r) /\ request[r].kind = "save"
      /\ id = r /\ ~undone[id] /\ ~Made(r)
  BY AtWork DEF CreateAccount, Working, Knows, Protocol, Made
<1>2. /\ request[r].username \in Usernames /\ keycloak[id] = NoRow /\ user[id] = NoRow
      /\ request[r].found = FALSE
  BY <1>1 DEF Knows, Protocol, UserInv, UserTypeOK, Request
<1>3. /\ account \in Account /\ account # NoRow /\ account.username = request[r].username
      /\ account.enabled <=> Enabled(request[r].status)
  <2> DEFINE b == Enabled(request[r].status)
  <2>1. b \in BOOLEAN /\ account = [username |-> request[r].username, enabled |-> b]
    BY DEF NewAccount, Enabled
  <2> HIDE DEF b, account
  <2>2. account \in Account /\ account.username = request[r].username /\ account.enabled = b
    BY <1>2, <2>1 DEF Account
  <2>3. QED
    BY <2>2, ProvisioningAssumption DEF b
<1> HIDE DEF account
<1>4. /\ \/ /\ ~KeycloakHas(request[r].username) /\ keycloak' = [keycloak EXCEPT ![id] = account]
            /\ (Goto(r, "find") /\ UNCHANGED torn) \/ (Finish(r) /\ Tear(id))
         \/ UNCHANGED <<keycloak, torn>> /\ Finish(r)
      /\ UNCHANGED <<user, granted, undone>>
  BY DEF CreateAccount, account
<1>5. /\ request' \in [Requests -> Request] /\ Made(r)'
      /\ \A q \in Requests \ {r} : request'[q] = request[q]
      /\ \/ Finish(r) /\ request'[r].pc = "done" /\ ~Working(r)'
         \/ /\ Goto(r, "find") /\ request'[r].pc = "find" /\ Working(r)' /\ request'[r].id = id
            /\ request'[r].kind = request[r].kind /\ request'[r].status = request[r].status
            /\ request'[r].username = request[r].username /\ request'[r].found = FALSE
      /\ Goto(r, "find") => request'[r].pc = "find"
      /\ Finish(r) => request'[r].pc = "done"
  <2>1. CASE Goto(r, "find")
    BY <1>1, <1>2, <2>1, Goes, Finishes DEF UserInv, Made
  <2>2. CASE Finish(r)
    BY <2>2, Goes, Finishes DEF UserInv
  <2>3. QED
    BY <1>4, <2>1, <2>2
<1>6. /\ keycloak' \in [Ids -> Account \cup {NoRow}]
      /\ keycloak'[id] = NoRow
            \/ (keycloak'[id] = account /\ ~KeycloakHas(request[r].username))
      /\ \A o \in Ids \ {id} : keycloak'[o] = keycloak[o]
  BY <1>2, <1>3, <1>4 DEF UserInv, UserTypeOK
<1>7. /\ torn' \in [Ids -> BOOLEAN] /\ (torn[id] => torn'[id])
      /\ \A o \in Ids \ {id} : torn'[o] = torn[o]
      /\ ~torn'[id] =>
            \/ request'[r].pc = "find" /\ keycloak'[id] = account
            \/ request'[r].pc = "done" /\ keycloak'[id] = NoRow
  BY <1>2, <1>3, <1>4, <1>5 DEF Tear, UserInv, UserTypeOK
<1>8. UserTypeOK'
  BY <1>4, <1>5, <1>6, <1>7 DEF UserInv, UserTypeOK
<1>9. Working(r)' => Protocol(r)' /\ (~torn'[id] => Phase(r)')
  BY <1>1, <1>2, <1>3, <1>4, <1>5, <1>6, <1>7 DEF Protocol, Phase
<1>10. /\ Working(r) /\ id = r /\ ~Made(r) /\ ~undone'[id] /\ user'[id] = NoRow /\ user[id] = NoRow
       /\ id \notin Guests
       /\ \A o \in Ids \ {id} :
            /\ keycloak'[o] = keycloak[o] /\ user'[o] = user[o] /\ granted'[o] = granted[o]
            /\ torn'[o] = torn[o] /\ undone'[o] = undone[o]
  BY <1>1, <1>2, <1>4, <1>6, <1>7, ProvisioningAssumption
<1>11. keycloak'[id] # NoRow => ~KeycloakHas(keycloak'[id].username)
  BY <1>3, <1>6
<1>12. /\ torn[id] => torn'[id]
       /\ ~torn'[id] /\ request'[r].pc = "done" => keycloak'[id] = NoRow
  BY <1>7
<1>13. QED
  BY <1>5, <1>8, <1>9, <1>10, <1>11, <1>12, ContinueStep

LEMMA InvUpsertFind ==
    ASSUME UserInv, NEW r \in Requests, NEW id \in Ids, id = request[r].id, UpsertFind(r)
    PROVE  UserInv'
<1>1. /\ Working(r) /\ request[r].pc = "find" /\ Knows(r) /\ Sound(id)
      /\ undone[id] => id \in Requests \ {r}
      /\ ~torn[id] => \A q \in Requests : Working(q) /\ request[q].id = id => q = r
  BY AtWork DEF UpsertFind, Working
<1>2. UNCHANGED <<keycloak, user, granted, torn, undone>>
  BY DEF UpsertFind
<1>3. user[id] # NoRow => user[id] \in User /\ user[id].status \in Statuses
  BY DEF UserInv, UserTypeOK, User
<1>4. request[r].found => user[id] # NoRow
  BY <1>1 DEF Knows, Protocol
<1>5. /\ request' \in [Requests -> Request] /\ Working(r)'
      /\ \A q \in Requests \ {r} : request'[q] = request[q]
      /\ request'[r].pc = "upsert" /\ request'[r].id = id /\ request'[r].kind = request[r].kind
      /\ request'[r].username = request[r].username
      /\ \/ user[id] = NoRow /\ request'[r].found = FALSE /\ request'[r].status = request[r].status
         \/ user[id] # NoRow /\ request'[r].found = TRUE /\ request'[r].status = user[id].status
  <2>1. CASE user[id] = NoRow /\ Goto(r, "upsert")
    BY <1>4, <2>1, Goes DEF UserInv, UserTypeOK, Request
  <2>2. ASSUME user[id] # NoRow, NEW m,
               m = [request[r] EXCEPT !.pc = "upsert", !.found = TRUE, !.status = user[id].status],
               request' = [request EXCEPT ![r] = m]
        PROVE  /\ request' \in [Requests -> Request] /\ Working(r)'
               /\ \A q \in Requests \ {r} : request'[q] = request[q]
               /\ request'[r].pc = "upsert" /\ request'[r].id = id /\ request'[r].kind = request[r].kind
               /\ request'[r].username = request[r].username
               /\ request'[r].found = TRUE /\ request'[r].status = user[id].status
    <3>1. request[r] \in Request
      BY DEF UserInv, UserTypeOK
    <3>2. /\ m \in Request /\ m.pc = "upsert" /\ m.id = id /\ m.kind = request[r].kind
          /\ m.username = request[r].username /\ m.found = TRUE /\ m.status = user[id].status
      BY <1>3, <2>2, <3>1 DEF Request
    <3>3. QED
      BY <2>2, <3>2 DEF UserInv, UserTypeOK, Working
  <2>3. QED
    BY <2>1, <2>2 DEF UpsertFind
<1>6. UserTypeOK'
  BY <1>2, <1>5 DEF UserInv, UserTypeOK
<1>7. ~torn[id] => Phase(r)
  BY <1>1 DEF Knows
<1>8. Protocol(r)'
  BY <1>1, <1>2, <1>5 DEF Knows, Protocol
<1>9. ~torn'[id] => Phase(r)'
  BY <1>1, <1>2, <1>5, <1>7 DEF Phase
<1>10. ~torn[id] =>
        /\ id \in Guests /\ keycloak[id] # NoRow /\ user[id] = NoRow => keycloak[id].enabled
        /\ user[id] = NoRow \/ Agree(id)
        /\ undone[id] => /\ keycloak[id] = NoRow /\ granted[id] = {}
                         /\ user[id] # NoRow /\ user[id].status = "INACTIVE"
  BY <1>1 DEF Sound
<1>11. Agree(id) => Agree(id)'
  BY <1>2 DEF Agree
<1>12. keycloak[id] # NoRow /\ user[id] # NoRow => keycloak[id].username = user[id].username
  BY DEF UserInv, NamesAgree
<1>13. Working(r) /\ request'[r].pc \notin {"done", "create"}
  BY <1>1, <1>5
<1>14. QED
  BY <1>2, <1>5, <1>6, <1>8, <1>9, <1>10, <1>11, <1>12, <1>13, ContinueStep

\* A login cannot revive an orphan: another row has its username.
LEMMA LoginFindsEnabled ==
    ASSUME UserInv, NEW r \in Requests, NEW id \in Ids, id = request[r].id, request[r].pc = "upsert",
           request[r].kind = "login", ~torn[id], user[id] = NoRow, ~UsernameTaken(request[r].username)
    PROVE  keycloak[id] # NoRow /\ keycloak[id].enabled
<1>1. Working(r) /\ Knows(r) /\ Sound(id) /\ \A q \in Requests : Working(q) /\ request[q].id = id => q = r
  BY AtWork DEF Working
<1>2. keycloak[id] # NoRow /\ keycloak[id].username = request[r].username
  BY <1>1 DEF Knows, Protocol, Phase
<1>3. id # r
  BY <1>1, <1>2 DEF Knows, Made
<1>4. CASE id \in Guests
  BY <1>1, <1>2, <1>4 DEF Sound
<1>5. CASE id \in Requests \ {r}
  <2>1. Made(id) /\ Knows(id)
    BY <1>1, <1>5 DEF Knows, UserInv
  <2>2. request[id].pc = "done"
    BY <1>1, <1>5, <2>1 DEF Made, Knows
  <2>3. \E o \in Ids \ {id} : user[o] # NoRow /\ user[o].username = keycloak[id].username
    BY <1>1, <1>2, <1>5, <2>2 DEF Sound
  <2>4. QED
    BY <1>2, <2>3 DEF UsernameTaken
<1>6. QED
  BY <1>3, <1>4, <1>5 DEF Ids

LEMMA InvUpsertWrite ==
    ASSUME UserInv, NEW r \in Requests, NEW id \in Ids, id = request[r].id, UpsertWrite(r)
    PROVE  UserInv'
<1> DEFINE name == IF request[r].found THEN user[id].username ELSE request[r].username
           row == [username |-> name, status |-> request[r].status]
<1>1. /\ Working(r) /\ request[r].pc = "upsert" /\ Knows(r) /\ Sound(id) /\ request[r].status \in Statuses
      /\ undone[id] => id \in Requests \ {r}
      /\ ~torn[id] => \A q \in Requests : Working(q) /\ request[q].id = id => q = r
  BY AtWork DEF UpsertWrite, Working
<1>2. /\ request[r].kind \in {"save", "login"} /\ request[r].username \in Usernames
      /\ request[r].kind = "save" => id = r
      /\ keycloak[id] # NoRow => keycloak[id].username = request[r].username
      /\ request[r].found => user[id] # NoRow
      /\ user[id] # NoRow => user[id] \in User
  BY <1>1 DEF Knows, Protocol, UserInv, UserTypeOK
<1>3. keycloak[id] # NoRow /\ user[id] # NoRow => keycloak[id].username = user[id].username
  BY DEF UserInv, NamesAgree
<1>4. ~torn[id] =>
        /\ request[r].found <=> user[id] # NoRow
        /\ request[r].found => request[r].status = user[id].status
        /\ request[r].kind = "save" => /\ keycloak[id] # NoRow /\ user[id] = NoRow
                                       /\ keycloak[id].enabled <=> Enabled(request[r].status)
        /\ user[id] = NoRow => keycloak[id] # NoRow
        /\ request[r].kind = "login" /\ user[id] = NoRow => request[r].status = "ACTIVE"
  <2>1. ~torn[id] => Phase(r)
    BY <1>1 DEF Knows
  <2>2. QED
    BY <1>1, <1>2, <2>1 DEF Phase
<1>5. ~torn[id] =>
        /\ id \in Guests /\ keycloak[id] # NoRow /\ user[id] = NoRow => keycloak[id].enabled
        /\ user[id] = NoRow \/ Agree(id)
        /\ undone[id] => /\ keycloak[id] = NoRow /\ granted[id] = {}
                         /\ user[id] # NoRow /\ user[id].status = "INACTIVE"
  BY <1>1 DEF Sound
<1>6. UNCHANGED <<keycloak, granted, torn, undone>>
  BY DEF UpsertWrite
<1>7. CASE /\ request[r].found \/ (user[id] = NoRow /\ ~UsernameTaken(request[r].username))
           /\ user' = [user EXCEPT ![id] = row]
           /\ \/ request[r].kind = "save" /\ Goto(r, "roles")
              \/ request[r].kind = "login" /\ Finish(r)
  <2>1. /\ row \in User /\ row # NoRow /\ row.username = name /\ row.status = request[r].status
        /\ name \in Usernames
        /\ user[id] # NoRow => name = user[id].username
        /\ keycloak[id] # NoRow => keycloak[id].username = name
    <3>1. /\ name \in Usernames /\ (user[id] # NoRow => name = user[id].username)
          /\ keycloak[id] # NoRow => keycloak[id].username = name
      BY <1>2, <1>3, <1>7 DEF User
    <3> HIDE DEF name
    <3>2. QED
      BY <1>1, <3>1, ProvisioningAssumption DEF User
  <2> HIDE DEF name, row
  <2>2. /\ user' \in [Ids -> User \cup {NoRow}] /\ user'[id] = row
        /\ \A o \in Ids \ {id} : user'[o] = user[o]
    BY <1>7, <2>1 DEF UserInv, UserTypeOK
  <2>3. /\ request' \in [Requests -> Request] /\ Made(r)'
        /\ \A q \in Requests \ {r} : request'[q] = request[q]
        /\ \/ /\ request[r].kind = "save" /\ request'[r].pc = "roles" /\ Working(r)'
              /\ request'[r].id = id /\ request'[r].kind = request[r].kind
           \/ request[r].kind = "login" /\ request'[r].pc = "done" /\ ~Working(r)'
    <3>1. CASE request[r].kind = "save" /\ Goto(r, "roles")
      BY <3>1, Goes DEF UserInv, Made
    <3>2. CASE request[r].kind = "login" /\ Finish(r)
      BY <3>2, Finishes DEF UserInv
    <3>3. QED
      BY <1>7, <3>1, <3>2
  <2>4. UserTypeOK'
    BY <1>6, <2>2, <2>3 DEF UserInv, UserTypeOK
  <2>5. Working(r)' => Protocol(r)' /\ (~torn'[id] => Phase(r)')
    BY <2>1, <2>2, <2>3 DEF Protocol, Phase
  <2>6. ~torn[id] => Agree(id)'
    <3>1. CASE request[r].kind = "save"
      BY <1>4, <1>6, <2>1, <2>2, <3>1 DEF Agree
    <3>2. CASE request[r].kind = "login" /\ user[id] # NoRow
      BY <1>4, <1>5, <1>6, <2>1, <2>2, <3>2 DEF Agree
    <3>3. CASE request[r].kind = "login" /\ user[id] = NoRow
      BY <1>1, <1>2, <1>4, <1>6, <1>7, <2>1, <2>2, <3>3, LoginFindsEnabled DEF Agree, Enabled
    <3>4. QED
      BY <1>2, <3>1, <3>2, <3>3
  <2>7. ~torn[id] /\ undone[id] => /\ keycloak[id] = NoRow /\ granted[id] = {}
                                   /\ user'[id].status = "INACTIVE"
    BY <1>4, <1>5, <2>1, <2>2
  <2>8. /\ Working(r) /\ user'[id] # NoRow
        /\ user[id] # NoRow => user'[id].username = user[id].username
        /\ keycloak[id] # NoRow => keycloak[id].username = user'[id].username
        /\ request'[r].pc # "create"
    BY <1>1, <2>1, <2>2, <2>3
  <2>9. QED
    BY <1>6, <2>2, <2>3, <2>4, <2>5, <2>6, <2>7, <2>8, ContinueStep
<1>8. CASE /\ ~request[r].found /\ (user[id] # NoRow \/ UsernameTaken(request[r].username))
           /\ Finish(r) /\ UNCHANGED user
  <2>1. /\ request' \in [Requests -> Request] /\ Made(r)'
        /\ \A q \in Requests \ {r} : request'[q] = request[q]
        /\ request'[r].pc = "done" /\ ~Working(r)'
    BY <1>8, Finishes DEF UserInv
  <2>2. UserTypeOK'
    BY <1>6, <1>8, <2>1 DEF UserInv, UserTypeOK
  <2>3. ~torn[id] /\ id = r =>
            \E o \in Ids \ {r} :
                /\ user[o] # NoRow /\ user[o].username = keycloak[r].username
                /\ keycloak[o] = NoRow
    <3> SUFFICES ASSUME ~torn[id], id = r
                 PROVE  \E o \in Ids \ {r} :
                            /\ user[o] # NoRow /\ user[o].username = keycloak[r].username
                            /\ keycloak[o] = NoRow
      OBVIOUS
    <3>1. user[id] = NoRow /\ keycloak[id] # NoRow /\ keycloak[id].username = request[r].username
      BY <1>2, <1>4, <1>8
    <3>2. PICK o \in Ids : user[o] # NoRow /\ user[o].username = request[r].username
      BY <1>8, <3>1 DEF UsernameTaken
    <3>3. o # id /\ keycloak[o] = NoRow
      BY <3>1, <3>2 DEF UserInv, NamesAgree
    <3>4. QED
      BY <3>1, <3>2, <3>3
  <2>4. ~torn[id] => user[id] = NoRow
    BY <1>4, <1>8
  <2>5. QED
    BY <1>1, <1>3, <1>5, <1>6, <1>8, <2>1, <2>2, <2>3, <2>4, ContinueStep
<1>9. QED
  BY <1>7, <1>8 DEF UpsertWrite

-----------------------------------------------------------------------------
LEMMA UserInvInit == UserInit => UserInv
<1> SUFFICES ASSUME UserInit PROVE UserInv
  OBVIOUS
<1>1. \A r \in Requests : Resting(r, "idle") \in Request /\ Resting(r, "idle").pc = "idle"
  BY DEF Resting, Doing, Request, Ids, Statuses
<1>2. \A r \in Requests : request[r].pc = "idle" /\ ~Working(r)
  BY <1>1 DEF UserInit, Working
<1>3. UserTypeOK
  BY <1>1 DEF UserInit, UserTypeOK
<1>4. NamesAgree
  BY DEF UserInit, NamesAgree
<1>5. \A id \in Ids : Sound(id)
  BY <1>2 DEF UserInit, Sound
<1>6. ASSUME NEW r \in Requests PROVE Knows(r)
  <2>1. r \in Ids /\ r \notin Guests
    BY ProvisioningAssumption DEF Ids
  <2>2. QED
    BY <1>2, <2>1 DEF UserInit, Knows
<1>7. QED
  BY <1>3, <1>4, <1>5, <1>6 DEF UserInv

LEMMA InvUserNext ==
    ASSUME UserInv, UserNext
    PROVE  UserInv'
<1>1. PICK r \in Requests : UserBegins(r) \/ UserContinues(r)
  BY DEF UserNext
<1>2. CASE UserBegins(r)
  BY <1>2, InvUserBegins
<1>3. CASE UserContinues(r)
  <2>1. PICK id \in Ids : id = request[r].id
    BY DEF UserInv, UserTypeOK, Request
  <2>2. QED
    BY <1>3, <2>1, InvCreateAccount, InvUpsertFind, InvUpsertWrite, InvGrants, InvUndoKeycloak,
       InvUndoRow, InvUndoGrants, InvPutKeycloak, InvWriteUser, InvRequestFails DEF UserContinues
<1>4. QED
  BY <1>1, <1>2, <1>3

LEMMA UserInvariance == Spec => []UserInv
<1>1. UserInv /\ [Next]_vars => UserInv'
  <2> SUFFICES ASSUME UserInv, [Next]_vars PROVE UserInv'
    OBVIOUS
  <2>1. CASE UNCHANGED userVars
    <3>1. UserTypeOK' /\ NamesAgree'
      BY <2>1 DEF userVars, UserInv, UserTypeOK, NamesAgree
    <3>2. \A id \in Ids : Sound(id)'
      BY <2>1 DEF userVars, UserInv, Sound, Agree, Working
    <3>3. \A r \in Requests : Knows(r)'
      BY <2>1 DEF userVars, UserInv, Knows, Protocol, Phase, Made, Working
    <3>4. QED
      BY <3>1, <3>2, <3>3 DEF UserInv
  <2>2. CASE UserNext
    BY <2>2, InvUserNext
  <2>3. QED
    BY <2>1, <2>2 DEF Next, vars
<1>2. QED
  BY <1>1, UserInvInit, PTL DEF Spec, Init

(***************************************************************************)
(* A request of the users is a stutter of the role administration.         *)
(***************************************************************************)
THEOREM RolesAsBefore == Spec => RoleSpec
<1>1. [Next]_vars => [RoleNext]_roleVars
  BY DEF Next, RolesStep, RoleNext, vars
<1>2. QED
  BY <1>1, PTL DEF Spec, Init, RoleSpec

(***************************************************************************)
(* Types, for any number of requests, roles, mappings and accounts.        *)
(***************************************************************************)
THEOREM Types == Spec => []TypeOK
<1>1. UserInv /\ RoleInv => TypeOK
  BY DEF UserInv, UserTypeOK, RoleInv, TypeOK
<1>2. QED
  BY <1>1, UserInvariance, RolesAsBefore, RoleInvariance, PTL

(***************************************************************************)
(* A creation rolled back without a failing step leaves nothing that can   *)
(* be used, whatever runs beside it on other accounts and after it.        *)
(***************************************************************************)
THEOREM RollbackIsComplete == Spec => []Undone
<1>1. UserInv => Undone
  BY UserInvSuffices
<1>2. QED
  BY <1>1, UserInvariance, PTL

(***************************************************************************)
(* Keycloak's enabled flag is the status of the row, between requests and  *)
(* unless a call failed or two requests overlapped on the account.         *)
(***************************************************************************)
THEOREM AccountsAreInStep == Spec => []AccountsAgree
<1>1. UserInv => AccountsAgree
  BY UserInvSuffices
<1>2. QED
  BY <1>1, UserInvariance, PTL

(***************************************************************************)
(* The one way to an account without a row, when no call fails: a username *)
(* taken between the check of a creation and its upsert, by another one    *)
(* that was rolled back.                                                   *)
(***************************************************************************)
THEOREM OneWayToAnOrphan == Spec => []OrphansExplained
<1>1. UserInv => OrphansExplained
  BY UserInvSuffices
<1>2. QED
  BY <1>1, UserInvariance, PTL

(***************************************************************************)
(* What the API cache promises holds with the users beside it.             *)
(***************************************************************************)
THEOREM CacheStaysRight == Spec => [](CacheFromPast /\ CacheAgrees)
<1>1. QED
  BY RolesAsBefore, CacheIsFromPast, CacheIsRight, PTL
=============================================================================
