---------------------------- MODULE TokenRefresh ----------------------------
(***************************************************************************)
(* The browser's side of a session: the response interceptor of fetcher.ts *)
(* that refreshes the token once for all the requests that were answered   *)
(* 401, AuthProvider's loadUser, which refreshes it too, and logout.       *)
(*                                                                         *)
(* JavaScript runs a handler up to its next await without interruption:    *)
(* an action is what happens between two awaits.  The session token and    *)
(* the refresh token are in localStorage, which everybody shares.  A       *)
(* session token is the number of the session POST /auth/session made;     *)
(* of the refresh token only its presence matters, since Keycloak may      *)
(* refuse any of them.  A response other than 401 that is not a success,   *)
(* or none at all, rejects the request at once.  The page that leaves for  *)
(* /auth/login 1.5 s after a failed refresh is not modelled: what is said  *)
(* here is said of the page until it leaves.                               *)
(***************************************************************************)
EXTENDS Naturals, FiniteSets

CONSTANTS
    Requests,      \* calls of the fetcher
    Loads,         \* calls of loadUser that may overlap
    MaxSessions    \* bound on the sessions created

ASSUME RefreshAssumption ==
    /\ IsFiniteSet(Requests)
    /\ MaxSessions \in Nat \ {0}

VARIABLES
    token,          \* localStorage 'token', 0 when absent
    refreshToken,   \* is there a localStorage 'refresh_token'?
    live, created,  \* sessions the gate accepts; sessions made so far
    isRefreshing, refreshSubscribers,
    req,            \* the fetcher's requests
    load,           \* the loadUser calls
    named           \* the user in AuthProvider's state has a name

storage == <<token, refreshToken>>
server  == <<live, created>>
fetcher == <<isRefreshing, refreshSubscribers, req>>
provider == <<load, named>>
vars == <<storage, server, fetcher, provider>>

-----------------------------------------------------------------------------
Refreshing == {"keycloak", "exchange", "refreshed", "failed"}
Request == [pc : {"idle", "sent", "waiting", "ok", "rejected"} \cup Refreshing,
            tok : Nat, retry : BOOLEAN, sends : Nat]
Load == [pc : {"idle", "session", "keycloak", "exchange"}, tok : Nat, retried : BOOLEAN]
NotLoading == [pc |-> "idle", tok |-> 0, retried |-> FALSE]

TypeOK ==
    /\ token \in Nat
    /\ refreshToken \in BOOLEAN
    /\ live \in SUBSET Nat
    /\ created \in Nat
    /\ isRefreshing \in BOOLEAN
    /\ refreshSubscribers \in SUBSET Requests
    /\ req \in [Requests -> Request]
    /\ load \in [Loads -> Load]
    /\ named \in BOOLEAN

\* Signed in, with the session the callback page made, and not loaded yet.
Init ==
    /\ token = 1 /\ refreshToken = TRUE
    /\ live = {1} /\ created = 1
    /\ isRefreshing = FALSE /\ refreshSubscribers = {}
    /\ req = [r \in Requests |-> [pc |-> "idle", tok |-> 0, retry |-> FALSE, sends |-> 0]]
    /\ load = [c \in Loads |-> NotLoading]
    /\ named = FALSE

-----------------------------------------------------------------------------
(* The fetcher. *)

At(r, pc) == req[r].pc = pc
Goto(r, pc) == req' = [req EXCEPT ![r].pc = pc]

\* The request interceptor takes the token from localStorage, on a resend too.
Sent(g, tok) == [pc |-> "sent", tok |-> tok, retry |-> g.retry, sends |-> g.sends + 1]

Send(r) ==
    /\ At(r, "idle")
    /\ req' = [req EXCEPT ![r] = Sent(@, token)]
    /\ UNCHANGED <<storage, server, isRefreshing, refreshSubscribers, provider>>

Succeed(r) ==
    /\ At(r, "sent") /\ req[r].tok \in live
    /\ Goto(r, "ok")
    /\ UNCHANGED <<storage, server, isRefreshing, refreshSubscribers, provider>>

\* Anything but a success or a 401, and the 401 of a request that was retried.
Reject(r) ==
    /\ At(r, "sent")
    /\ Goto(r, "rejected")
    /\ UNCHANGED <<storage, server, isRefreshing, refreshSubscribers, provider>>

Unauthorized(r) == At(r, "sent") /\ req[r].tok \notin live /\ ~req[r].retry

SubscribeTokenRefresh_Queued(r) ==
    /\ Unauthorized(r) /\ isRefreshing
    /\ Goto(r, "queued")
    /\ refreshSubscribers' = refreshSubscribers \cup {r}
    /\ UNCHANGED <<storage, server, isRefreshing, provider>>

SubscribeTokenRefresh(r) ==
    /\ Unauthorized(r) /\ isRefreshing
    /\ Goto(r, "waiting")
    /\ refreshSubscribers' = refreshSubscribers \cup {r}
    /\ UNCHANGED <<storage, server, isRefreshing, provider>>

StartRefresh_NotMarked(r) ==
    /\ Unauthorized(r) /\ ~isRefreshing
    /\ isRefreshing' = TRUE
    /\ Goto(r, IF refreshToken THEN "keycloak" ELSE "failed")
    /\ UNCHANGED <<storage, server, refreshSubscribers, provider>>

\* The first 401 refreshes; without a refresh token attemptRefresh gives null.
StartRefresh(r) ==
    /\ Unauthorized(r) /\ ~isRefreshing
    /\ isRefreshing' = TRUE
    /\ req' = [req EXCEPT ![r].retry = TRUE,
                          ![r].pc = IF refreshToken THEN "keycloak" ELSE "failed"]
    /\ UNCHANGED <<storage, server, refreshSubscribers, provider>>

KeycloakAnswers(r) ==
    /\ At(r, "keycloak")
    /\ \/ refreshToken' = TRUE /\ Goto(r, "exchange")
       \/ UNCHANGED refreshToken /\ Goto(r, "failed")
    /\ UNCHANGED <<token, server, isRefreshing, refreshSubscribers, provider>>

\* POST /auth/session makes a session, whose token goes to localStorage.
NewSession ==
    /\ created < MaxSessions
    /\ created' = created + 1
    /\ live' = live \cup {created'}
    /\ token' = created'

SessionAnswers(r) ==
    /\ At(r, "exchange")
    /\ \/ NewSession /\ Goto(r, "refreshed")
       \/ UNCHANGED <<token, server>> /\ Goto(r, "failed")
    /\ UNCHANGED <<refreshToken, isRefreshing, refreshSubscribers, provider>>

OnTokenRefreshed_QueueForgotten(r) ==
    /\ At(r, "refreshed")
    /\ isRefreshing' = FALSE
    /\ refreshSubscribers' = {}
    /\ req' = [req EXCEPT ![r] = Sent(@, token)]
    /\ UNCHANGED <<storage, server, provider>>

OnTokenRefreshed_QueueKept(r) ==
    /\ At(r, "refreshed")
    /\ isRefreshing' = FALSE
    /\ req' = [q \in Requests |-> IF q \in refreshSubscribers \cup {r}
                                  THEN Sent(req[q], token) ELSE req[q]]
    /\ UNCHANGED <<storage, server, refreshSubscribers, provider>>

\* Everybody who waits is sent again, and so is the request that refreshed.
OnTokenRefreshed(r) ==
    /\ At(r, "refreshed")
    /\ isRefreshing' = FALSE
    /\ refreshSubscribers' = {}
    /\ req' = [q \in Requests |-> IF q \in refreshSubscribers \cup {r}
                                  THEN Sent(req[q], token) ELSE req[q]]
    /\ UNCHANGED <<storage, server, provider>>

ClearAuthToken == token' = 0 /\ refreshToken' = FALSE

OnRefreshFailed_StillRefreshing(r) ==
    /\ At(r, "failed")
    /\ refreshSubscribers' = {}
    /\ ClearAuthToken
    /\ Goto(r, "rejected")
    /\ UNCHANGED <<server, isRefreshing, provider>>

\* The subscribers are forgotten: their promises stay as they are.
OnRefreshFailed(r) ==
    /\ At(r, "failed")
    /\ isRefreshing' = FALSE
    /\ refreshSubscribers' = {}
    /\ ClearAuthToken
    /\ Goto(r, "rejected")
    /\ UNCHANGED <<server, provider>>

-----------------------------------------------------------------------------
(* AuthProvider.  Its calls do not go through the fetcher. *)

LoadUser(c) ==
    /\ load[c].pc = "idle" /\ token # 0
    /\ load' = [load EXCEPT ![c] = [pc |-> "session", tok |-> token, retried |-> FALSE]]
    /\ UNCHANGED <<storage, server, fetcher, named>>

\* The end of a load that failed: a user that never got a name is signed out.
GiveUp(c) ==
    /\ load' = [load EXCEPT ![c] = NotLoading]
    /\ IF named THEN UNCHANGED storage ELSE ClearAuthToken

LoadSession(c) ==
    /\ load[c].pc = "session"
    /\ \/ /\ load[c].tok \in live
          /\ named' = TRUE
          /\ load' = [load EXCEPT ![c] = NotLoading]
          /\ UNCHANGED storage
       \/ /\ ~load[c].retried /\ refreshToken
          /\ load' = [load EXCEPT ![c].pc = "keycloak"]
          /\ UNCHANGED <<storage, named>>
       \/ /\ load[c].retried \/ ~refreshToken
          /\ GiveUp(c)
          /\ UNCHANGED named
    /\ UNCHANGED <<server, fetcher>>

LoadKeycloak(c) ==
    /\ load[c].pc = "keycloak"
    /\ \/ /\ refreshToken' = TRUE
          /\ load' = [load EXCEPT ![c].pc = "exchange"]
          /\ UNCHANGED token
       \/ GiveUp(c)
    /\ UNCHANGED <<server, fetcher, named>>

LoadExchange(c) ==
    /\ load[c].pc = "exchange"
    /\ \/ /\ NewSession
          /\ load' = [load EXCEPT ![c] = [pc |-> "session", tok |-> created', retried |-> TRUE]]
          /\ UNCHANGED refreshToken
       \/ GiveUp(c) /\ UNCHANGED server
    /\ UNCHANGED <<fetcher, named>>

\* logout clears the tokens first; authService.logout then reads the token for
\* the backend to invalidate its session, which may not be reached.
Logout(reached) ==
    /\ ClearAuthToken
    /\ named' = FALSE
    /\ live' = IF reached THEN live \ {token'} ELSE live
    /\ UNCHANGED <<created, fetcher, load>>

-----------------------------------------------------------------------------
\* The gate stops accepting a session: its time is over, or a role changed.
Expire(s) ==
    /\ s \in live
    /\ live' = live \ {s}
    /\ UNCHANGED <<storage, created, fetcher, provider>>

Step(r) ==
    \/ Succeed(r) \/ Reject(r) \/ SubscribeTokenRefresh(r) \/ StartRefresh(r)
    \/ KeycloakAnswers(r) \/ SessionAnswers(r)
    \/ OnTokenRefreshed(r) \/ OnRefreshFailed(r)

Next ==
    \/ \E r \in Requests : Send(r) \/ Step(r)
    \/ \E c \in Loads : LoadUser(c) \/ LoadSession(c) \/ LoadKeycloak(c) \/ LoadExchange(c)
    \/ \E reached \in BOOLEAN : Logout(reached)
    \/ \E s \in live : Expire(s)

Spec == Init /\ [][Next]_vars

\* Every call gets an answer, or times out; nobody has to send one.
FairSpec == Spec /\ \A r \in Requests : WF_vars(Step(r))

-----------------------------------------------------------------------------
\* One request at a time refreshes on behalf of the others, and the flag that
\* says so is never left behind: a flag without a refresh under way would make
\* every later 401 wait for ever.
FlagHasLeader ==
    Cardinality({r \in Requests : req[r].pc \in Refreshing}) =
        IF isRefreshing THEN 1 ELSE 0

\* Who is subscribed waits, for a refresh that is under way.
SubscribersWait ==
    /\ \A r \in refreshSubscribers : At(r, "waiting")
    /\ refreshSubscribers # {} => isRefreshing

\* No request is sent over and over: a queued request is not marked _retry, and
\* may be queued again after it was sent again, but every round takes a leader
\* of its own and nobody leads twice.
ResendsBounded ==
    \A r \in Requests : req[r].sends <= 1 + Cardinality({q \in Requests : req[q].retry})

\* Unless a refresh fails, every request that was sent is settled.
EveryRequestSettles ==
    [](\A r \in Requests : ~At(r, "failed")) =>
        \A r \in Requests : At(r, "sent") ~> req[r].pc \in {"ok", "rejected"}

\* "Gagal refresh — reject semua request yang menunggu": no request waits when
\* nobody is refreshing.
WaitersAreReleased == \A r \in Requests : At(r, "waiting") => isRefreshing

\* "Logout: 1. Invalidasi sesi Polaris di backend": when the backend is reached,
\* the session of the token that is removed is over.
LogoutEndsSession == [][Logout(TRUE) => token \notin live']_vars
=============================================================================
