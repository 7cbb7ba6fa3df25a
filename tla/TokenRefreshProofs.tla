------------------------- MODULE TokenRefreshProofs -------------------------
(***************************************************************************)
(* Proofs about TokenRefresh, for any number of requests and of loads.     *)
(*                                                                         *)
(* ResendsBounded is not inductive: while a refresh is under way the       *)
(* requests that wait for it have one send less to their name than the     *)
(* leaders so far, its own included (SendsBehind), which is what the send  *)
(* that follows the refresh uses up.                                       *)
(***************************************************************************)
EXTENDS TokenRefresh, FiniteSetTheorems, TLAPS

Marked == {r \in Requests : req[r].retry}

Leader == \A r \in Requests : req[r].pc \in Refreshing =>
             /\ isRefreshing /\ req[r].retry
             /\ \A q \in Requests : req[q].pc \in Refreshing => q = r

FlagHolds == isRefreshing => \E r \in Requests : req[r].pc \in Refreshing

NotSentYet == \A r \in Requests : At(r, "idle") => req[r].sends = 0

SendsBehind ==
    \A r \in Requests :
        req[r].sends <= Cardinality(Marked) + (IF isRefreshing THEN 0 ELSE 1)

FetcherInv == Leader /\ FlagHolds /\ NotSentYet /\ SubscribersWait /\ SendsBehind
RefreshInv == TypeOK /\ FetcherInv

-----------------------------------------------------------------------------
\* Moving one request on.
LEMMA GotoType ==
    ASSUME TypeOK, NEW r \in Requests, NEW pc \in {"waiting", "ok", "rejected"} \cup Refreshing,
           Goto(r, pc)
    PROVE  /\ req' \in [Requests -> Request]
           /\ req'[r].pc = pc
           /\ req'[r].retry = req[r].retry
           /\ req'[r].sends = req[r].sends
           /\ \A q \in Requests \ {r} : req'[q] = req[q]
<1> DEFINE T == {"idle", "sent", "waiting", "ok", "rejected"} \cup Refreshing
<1>1. pc \in T /\ req \in [Requests -> [pc : T, tok : Nat, retry : BOOLEAN, sends : Nat]]
  BY DEF TypeOK, Request
<1>2. req' = [req EXCEPT ![r].pc = pc]
  BY DEF Goto
<1> HIDE DEF T
<1>3. req' \in [Requests -> [pc : T, tok : Nat, retry : BOOLEAN, sends : Nat]]
  BY <1>1, <1>2
<1>4. /\ req'[r].pc = pc /\ req'[r].retry = req[r].retry /\ req'[r].sends = req[r].sends
      /\ \A q \in Requests \ {r} : req'[q] = req[q]
  BY <1>1, <1>2
<1> QED
  BY <1>3, <1>4 DEF Request, T

\* A request that is sent.
LEMMA SentType ==
    ASSUME NEW g \in Request, NEW tok \in Nat
    PROVE  /\ Sent(g, tok) \in Request
           /\ Sent(g, tok).pc = "sent"
           /\ Sent(g, tok).retry = g.retry
           /\ Sent(g, tok).sends = g.sends + 1
<1> DEFINE T == {"idle", "sent", "waiting", "ok", "rejected"} \cup Refreshing
<1>1. g \in [pc : T, tok : Nat, retry : BOOLEAN, sends : Nat] /\ "sent" \in T
  BY DEF Request
<1> HIDE DEF T
<1>2. /\ Sent(g, tok) \in [pc : T, tok : Nat, retry : BOOLEAN, sends : Nat]
      /\ Sent(g, tok).pc = "sent"
      /\ Sent(g, tok).retry = g.retry
      /\ Sent(g, tok).sends = g.sends + 1
  BY <1>1 DEF Sent
<1> QED
  BY <1>2 DEF Request, T

\* The requests that led a refresh are finitely many.
LEMMA MarkedFinite == IsFiniteSet(Marked) /\ Cardinality(Marked) \in Nat
<1>1. IsFiniteSet(Marked)
  BY FS_Subset, RefreshAssumption DEF Marked
<1> QED
  BY <1>1, FS_CardinalityType

\* Somebody who refreshes has led one.
LEMMA LeaderCounts ==
    ASSUME TypeOK, Leader, FlagHolds, isRefreshing
    PROVE  Cardinality(Marked) >= 1
<1>1. PICK r \in Requests : req[r].pc \in Refreshing
  BY DEF FlagHolds
<1>2. Marked # {}
  BY <1>1 DEF Leader, Marked
<1>3. Cardinality(Marked) # 0
  BY <1>2, MarkedFinite, FS_EmptySet
<1> QED
  BY <1>3, MarkedFinite

-----------------------------------------------------------------------------
(* The fetcher's steps. *)

LEMMA SendInv ==
    ASSUME RefreshInv, NEW r \in Requests, Send(r)
    PROVE  req' \in [Requests -> Request] /\ FetcherInv'
<1> USE DEF RefreshInv, FetcherInv, TypeOK
<1>1. req[r] \in Request /\ token \in Nat
  OBVIOUS
<1>2. /\ req' \in [Requests -> Request]
      /\ req'[r] = Sent(req[r], token)
      /\ \A q \in Requests \ {r} : req'[q] = req[q]
  BY <1>1, SentType DEF Send
<1>3. /\ req'[r].pc = "sent" /\ req'[r].retry = req[r].retry
      /\ req'[r].sends = 1
  BY <1>1, <1>2, SentType DEF Send, NotSentYet
<1>4. Leader' /\ FlagHolds'
  BY <1>2, <1>3 DEF Send, Leader, FlagHolds, Refreshing, At
<1>5. NotSentYet' /\ SubscribersWait'
  BY <1>2, <1>3 DEF Send, NotSentYet, SubscribersWait, At
<1>6. Marked' = Marked
  BY <1>2, <1>3 DEF Marked
<1>7. SendsBehind'
  BY <1>2, <1>3, <1>6, LeaderCounts, MarkedFinite DEF Send, SendsBehind
<1> QED
  BY <1>2, <1>4, <1>5, <1>7

\* A step that moves r, neither to nor from the front, and changes no flag.
LEMMA MoveInv ==
    ASSUME RefreshInv, NEW r \in Requests,
           NEW pc \in {"waiting", "ok", "rejected"} \cup Refreshing, Goto(r, pc),
           isRefreshing' = isRefreshing,
           req[r].pc \in Refreshing <=> pc \in Refreshing,
           SubscribersWait'
    PROVE  req' \in [Requests -> Request] /\ FetcherInv'
<1> USE DEF RefreshInv, FetcherInv
<1>1. /\ req' \in [Requests -> Request]
      /\ req'[r].pc = pc
      /\ req'[r].retry = req[r].retry
      /\ req'[r].sends = req[r].sends
      /\ \A q \in Requests \ {r} : req'[q] = req[q]
  BY GotoType
<1>2. Leader'
  BY <1>1 DEF Leader
<1>3. FlagHolds'
  BY <1>1 DEF FlagHolds
<1>4. NotSentYet'
  BY <1>1 DEF NotSentYet, At, Refreshing
<1>5. Marked' = Marked
  BY <1>1 DEF Marked
<1>6. SendsBehind'
  BY <1>1, <1>5 DEF SendsBehind
<1> QED
  BY <1>1, <1>2, <1>3, <1>4, <1>6

LEMMA AnswerInv ==
    ASSUME RefreshInv, NEW r \in Requests,
           \/ Succeed(r) \/ Reject(r) \/ SubscribeTokenRefresh(r)
           \/ KeycloakAnswers(r) \/ SessionAnswers(r)
    PROVE  req' \in [Requests -> Request] /\ FetcherInv'
<1> USE DEF RefreshInv, FetcherInv
<1>0. ASSUME NEW pc \in {"waiting", "ok", "rejected"} \cup Refreshing, Goto(r, pc),
             UNCHANGED <<isRefreshing, refreshSubscribers>>, ~At(r, "waiting")
      PROVE  SubscribersWait'
  <2>1. /\ refreshSubscribers \in SUBSET Requests /\ refreshSubscribers' = refreshSubscribers
        /\ isRefreshing' = isRefreshing
    BY <1>0 DEF TypeOK
  <2>2. \A q \in Requests \ {r} : req'[q] = req[q]
    BY <1>0, GotoType
  <2>3. r \notin refreshSubscribers
    BY <1>0 DEF SubscribersWait
  <2> QED
    BY <2>1, <2>2, <2>3 DEF SubscribersWait, At
<1>1. CASE Succeed(r)
  BY <1>0, <1>1, MoveInv DEF Succeed, At, Refreshing
<1>2. CASE Reject(r)
  BY <1>0, <1>2, MoveInv DEF Reject, At, Refreshing
<1>3. CASE SubscribeTokenRefresh(r)
  <2>1. SubscribersWait'
    <3>1. /\ refreshSubscribers \in SUBSET Requests
          /\ refreshSubscribers' = refreshSubscribers \cup {r} /\ isRefreshing'
      BY <1>3 DEF TypeOK, SubscribeTokenRefresh
    <3>2. req'[r].pc = "waiting" /\ \A q \in Requests \ {r} : req'[q] = req[q]
      BY <1>3, GotoType DEF SubscribeTokenRefresh
    <3> QED
      BY <3>1, <3>2 DEF SubscribersWait, At
  <2> QED
    BY <1>3, <2>1, MoveInv DEF SubscribeTokenRefresh, Unauthorized, At, Refreshing
<1>4. CASE KeycloakAnswers(r)
  BY <1>0, <1>4, MoveInv DEF KeycloakAnswers, At, Refreshing
<1>5. CASE SessionAnswers(r)
  BY <1>0, <1>5, MoveInv DEF SessionAnswers, At, Refreshing
<1> QED
  BY <1>1, <1>2, <1>3, <1>4, <1>5

\* A new leader: nobody was one, and it is marked for the first time.
LEMMA StartRefreshInv ==
    ASSUME RefreshInv, NEW r \in Requests, StartRefresh(r)
    PROVE  req' \in [Requests -> Request] /\ FetcherInv'
<1> USE DEF RefreshInv, FetcherInv
<1> DEFINE pc == IF refreshToken THEN "keycloak" ELSE "failed"
<1>1. /\ req' \in [Requests -> Request]
      /\ req'[r].pc \in Refreshing
      /\ req'[r].retry
      /\ req'[r].sends = req[r].sends
      /\ \A q \in Requests \ {r} : req'[q] = req[q]
  <2>1. pc \in Refreshing
    BY DEF Refreshing
  <2>2. req' = [req EXCEPT ![r].retry = TRUE, ![r].pc = pc]
    BY DEF StartRefresh
  <2> HIDE DEF pc
  <2> QED
    BY <2>1, <2>2 DEF TypeOK, Request
<1>2. /\ ~req[r].retry /\ At(r, "sent") /\ ~isRefreshing /\ isRefreshing'
      /\ refreshSubscribers' = refreshSubscribers
  BY DEF StartRefresh, Unauthorized
<1>3. \A q \in Requests : req[q].pc \notin Refreshing
  BY <1>2 DEF Leader
<1>4. Leader' /\ FlagHolds'
  BY <1>1, <1>2, <1>3 DEF Leader, FlagHolds
<1>5. NotSentYet' /\ SubscribersWait'
  BY <1>1, <1>2 DEF NotSentYet, SubscribersWait, At, Refreshing
<1>6. Marked' = Marked \cup {r} /\ r \notin Marked
  BY <1>1, <1>2 DEF Marked
<1>7. Cardinality(Marked') = Cardinality(Marked) + 1
  BY <1>6, MarkedFinite, FS_AddElement
<1>8. SendsBehind'
  <2>1. \A q \in Requests : req'[q].sends = req[q].sends /\ req[q].sends \in Nat
    BY <1>1 DEF TypeOK, Request
  <2> QED
    BY <1>2, <1>7, <2>1, MarkedFinite DEF SendsBehind
<1> QED
  BY <1>1, <1>4, <1>5, <1>8

\* The leader and the subscribers are sent again.
LEMMA RefreshedInv ==
    ASSUME RefreshInv, NEW r \in Requests, OnTokenRefreshed(r)
    PROVE  req' \in [Requests -> Request] /\ FetcherInv'
<1> USE DEF RefreshInv, FetcherInv
<1>1. /\ At(r, "refreshed") /\ isRefreshing /\ ~isRefreshing'
      /\ refreshSubscribers' = {} /\ token \in Nat
  BY DEF OnTokenRefreshed, Leader, At, Refreshing, TypeOK
<1>2. ASSUME NEW q \in Requests
      PROVE  /\ req'[q] \in Request
             /\ req'[q].retry = req[q].retry
             /\ req[q].sends \in Nat /\ req'[q].sends \in Nat
             /\ req'[q].sends <= req[q].sends + 1
             /\ req'[q].pc \notin Refreshing
             /\ req'[q].pc = "idle" => req'[q] = req[q]
  <2>1. req[q] \in Request
    BY DEF TypeOK
  <2>2. CASE q \in refreshSubscribers \cup {r}
    <3>1. req'[q] = Sent(req[q], token)
      BY <2>2 DEF OnTokenRefreshed
    <3> QED
      <4>1. /\ req'[q] \in Request /\ req'[q].pc = "sent"
            /\ req'[q].retry = req[q].retry /\ req'[q].sends = req[q].sends + 1
        BY <1>1, <2>1, <3>1, SentType
      <4>2. req[q].sends \in Nat
        BY <2>1 DEF Request
      <4> QED
        BY <4>1, <4>2 DEF Refreshing
  <2>3. CASE q \notin refreshSubscribers \cup {r}
    <3>1. req'[q] = req[q]
      BY <2>3 DEF OnTokenRefreshed
    <3>2. req[q].pc \notin Refreshing
      BY <1>1, <2>3 DEF Leader, At, Refreshing
    <3> QED
      BY <2>1, <3>1, <3>2 DEF Request
  <2> QED
    BY <2>2, <2>3
<1>3. req' \in [Requests -> Request]
  BY <1>2 DEF OnTokenRefreshed
<1>4. Leader' /\ FlagHolds' /\ NotSentYet' /\ SubscribersWait'
  BY <1>1, <1>2 DEF Leader, FlagHolds, NotSentYet, SubscribersWait, At
<1>5. Marked' = Marked
  BY <1>2 DEF Marked
<1>6. SendsBehind'
  BY <1>1, <1>2, <1>5, MarkedFinite DEF SendsBehind
<1> QED
  BY <1>3, <1>4, <1>6

\* The refresh failed: its leader is rejected, nobody is subscribed.
LEMMA FailedInv ==
    ASSUME RefreshInv, NEW r \in Requests, OnRefreshFailed(r)
    PROVE  req' \in [Requests -> Request] /\ FetcherInv'
<1> USE DEF RefreshInv, FetcherInv
<1>1. /\ req' \in [Requests -> Request]
      /\ req'[r].pc = "rejected"
      /\ req'[r].retry = req[r].retry
      /\ req'[r].sends = req[r].sends
      /\ \A q \in Requests \ {r} : req'[q] = req[q]
  BY GotoType DEF OnRefreshFailed
<1>2. /\ At(r, "failed") /\ isRefreshing /\ ~isRefreshing' /\ refreshSubscribers' = {}
  BY DEF OnRefreshFailed, Leader, At, Refreshing
<1>3. \A q \in Requests : req'[q].pc \notin Refreshing
  BY <1>1, <1>2 DEF Leader, At, Refreshing
<1>4. Leader' /\ FlagHolds' /\ NotSentYet' /\ SubscribersWait'
  BY <1>1, <1>2, <1>3 DEF Leader, FlagHolds, NotSentYet, SubscribersWait, At
<1>5. Marked' = Marked
  BY <1>1 DEF Marked
<1>6. \A q \in Requests : req'[q].sends = req[q].sends /\ req[q].sends \in Nat
  BY <1>1 DEF TypeOK, Request
<1>7. SendsBehind'
  BY <1>2, <1>5, <1>6, MarkedFinite DEF SendsBehind
<1> QED
  BY <1>1, <1>4, <1>7

-----------------------------------------------------------------------------
(* Everything together. *)

\* The session that was made, and its token.
LEMMA NewSessionType ==
    ASSUME TypeOK, NewSession
    PROVE  /\ token' \in Nat /\ created' \in Nat /\ live' \in SUBSET Nat
           /\ created' = token'
BY DEF TypeOK, NewSession

LEMMA StepInv ==
    ASSUME RefreshInv, NEW r \in Requests, Send(r) \/ Step(r)
    PROVE  RefreshInv'
<1>1. req' \in [Requests -> Request] /\ FetcherInv'
  BY SendInv, AnswerInv, StartRefreshInv, RefreshedInv, FailedInv DEF Step
<1>2. isRefreshing' \in BOOLEAN /\ refreshSubscribers' \in SUBSET Requests
  BY DEF Send, Step, Succeed, Reject, SubscribeTokenRefresh, StartRefresh, KeycloakAnswers,
         SessionAnswers, OnTokenRefreshed, OnRefreshFailed, RefreshInv, TypeOK
<1>3. /\ token' \in Nat /\ refreshToken' \in BOOLEAN
      /\ live' \in SUBSET Nat /\ created' \in Nat
  <2> USE DEF RefreshInv, TypeOK, storage, server
  <2>1. CASE KeycloakAnswers(r)
    BY <2>1 DEF KeycloakAnswers
  <2>2. CASE SessionAnswers(r)
    BY <2>2, NewSessionType DEF SessionAnswers
  <2>3. CASE OnRefreshFailed(r)
    BY <2>3 DEF OnRefreshFailed, ClearAuthToken
  <2>4. CASE Send(r) \/ Succeed(r) \/ Reject(r) \/ SubscribeTokenRefresh(r)
             \/ StartRefresh(r) \/ OnTokenRefreshed(r)
    BY <2>4 DEF Send, Succeed, Reject, SubscribeTokenRefresh, StartRefresh, OnTokenRefreshed
  <2> QED
    BY <2>1, <2>2, <2>3, <2>4 DEF Step
<1>4. UNCHANGED provider
  BY DEF Send, Step, Succeed, Reject, SubscribeTokenRefresh, StartRefresh, KeycloakAnswers,
         SessionAnswers, OnTokenRefreshed, OnRefreshFailed
<1> QED
  BY <1>1, <1>2, <1>3, <1>4 DEF RefreshInv, TypeOK, provider

\* What the provider and the gate do leaves the fetcher alone.
LEMMA ElsewhereInv ==
    ASSUME RefreshInv, UNCHANGED fetcher
    PROVE  FetcherInv'
BY DEF RefreshInv, FetcherInv, fetcher, Leader, FlagHolds, NotSentYet, SubscribersWait,
       SendsBehind, Marked, At

\* What a load may become.
LEMMA LoadType ==
    ASSUME TypeOK, NEW c \in Loads
    PROVE  /\ [load EXCEPT ![c] = NotLoading] \in [Loads -> Load]
           /\ \A pc \in {"keycloak", "exchange"} :
                  [load EXCEPT ![c].pc = pc] \in [Loads -> Load]
           /\ \A tok \in Nat, b \in BOOLEAN :
                  [load EXCEPT ![c] = [pc |-> "session", tok |-> tok, retried |-> b]]
                      \in [Loads -> Load]
<1>1. load \in [Loads -> Load]
  BY DEF TypeOK
<1>2. NotLoading \in Load
  BY DEF NotLoading, Load
<1>3. \A tok \in Nat, b \in BOOLEAN : [pc |-> "session", tok |-> tok, retried |-> b] \in Load
  BY DEF Load
<1>4. ASSUME NEW pc \in {"keycloak", "exchange"}
      PROVE  [load EXCEPT ![c].pc = pc] \in [Loads -> Load]
  <2>1. [load[c] EXCEPT !.pc = pc] \in Load
    BY <1>1 DEF Load
  <2>2. [load EXCEPT ![c].pc = pc] = [load EXCEPT ![c] = [load[c] EXCEPT !.pc = pc]]
    BY <1>1
  <2> QED
    BY <1>1, <2>1, <2>2
<1> QED
  BY <1>1, <1>2, <1>3, <1>4

LEMMA LoadInv ==
    ASSUME RefreshInv, NEW c \in Loads,
           LoadUser(c) \/ LoadSession(c) \/ LoadKeycloak(c) \/ LoadExchange(c)
    PROVE  RefreshInv'
<1> USE DEF RefreshInv
<1>1. UNCHANGED fetcher
  BY DEF LoadUser, LoadSession, LoadKeycloak, LoadExchange
<1>2. /\ token \in Nat /\ refreshToken \in BOOLEAN /\ live \in SUBSET Nat
      /\ created \in Nat /\ named \in BOOLEAN
  BY DEF TypeOK
<1>3. ASSUME GiveUp(c)
      PROVE  token' \in Nat /\ refreshToken' \in BOOLEAN /\ load' \in [Loads -> Load]
  <2>1. load' \in [Loads -> Load]
    BY <1>3, LoadType DEF GiveUp
  <2>2. \/ token' = token /\ refreshToken' = refreshToken
        \/ token' = 0 /\ refreshToken' = FALSE
    <3>1. CASE named
      BY <1>3, <3>1 DEF GiveUp, storage
    <3>2. CASE ~named
      BY <1>3, <3>2 DEF GiveUp, ClearAuthToken
    <3> QED
      BY <3>1, <3>2
  <2>3. token' \in Nat
    BY <1>2, <2>2
  <2>4. refreshToken' \in BOOLEAN
    BY <1>2, <2>2
  <2> QED
    BY <2>1, <2>3, <2>4
<1> DEFINE Types == /\ token' \in Nat /\ refreshToken' \in BOOLEAN
                    /\ live' \in SUBSET Nat /\ created' \in Nat
                    /\ named' \in BOOLEAN /\ load' \in [Loads -> Load]
<1> SUFFICES Types
  BY <1>1, ElsewhereInv DEF TypeOK, fetcher
<1>4. CASE LoadUser(c)
  BY <1>2, <1>4, LoadType DEF LoadUser, storage, server
<1>5. CASE LoadSession(c)
  <2>1. /\ token' \in Nat /\ refreshToken' \in BOOLEAN /\ named' \in BOOLEAN
        /\ load' \in [Loads -> Load]
    <3>1. CASE /\ named' = TRUE /\ load' = [load EXCEPT ![c] = NotLoading]
               /\ UNCHANGED storage
      BY <1>2, <3>1, LoadType DEF storage
    <3>2. CASE /\ load' = [load EXCEPT ![c].pc = "keycloak"]
               /\ UNCHANGED <<storage, named>>
      BY <1>2, <3>2, LoadType DEF storage
    <3>3. CASE GiveUp(c) /\ UNCHANGED named
      BY <1>2, <1>3, <3>3
    <3> QED
      BY <1>5, <3>1, <3>2, <3>3 DEF LoadSession
  <2>2. UNCHANGED server
    BY <1>5 DEF LoadSession
  <2> QED
    BY <1>2, <2>1, <2>2 DEF server
<1>6. CASE LoadKeycloak(c)
  <2>1. token' \in Nat /\ refreshToken' \in BOOLEAN /\ load' \in [Loads -> Load]
    <3>1. CASE /\ refreshToken' = TRUE /\ load' = [load EXCEPT ![c].pc = "exchange"]
               /\ UNCHANGED token
      BY <1>2, <3>1, LoadType
    <3> QED
      BY <1>3, <1>6, <3>1 DEF LoadKeycloak
  <2>2. UNCHANGED <<server, named>>
    BY <1>6 DEF LoadKeycloak
  <2> QED
    BY <1>2, <2>1, <2>2 DEF server
<1>7. CASE LoadExchange(c)
  <2>1. CASE /\ NewSession /\ UNCHANGED refreshToken
             /\ load' = [load EXCEPT ![c] = [pc |-> "session", tok |-> created', retried |-> TRUE]]
    <3>1. token' \in Nat /\ created' \in Nat /\ live' \in SUBSET Nat
      BY <2>1, NewSessionType
    <3>2. load' \in [Loads -> Load]
      BY <2>1, <3>1, LoadType
    <3> QED
      BY <1>2, <1>7, <2>1, <3>1, <3>2 DEF LoadExchange
  <2>2. CASE GiveUp(c) /\ UNCHANGED server
    BY <1>2, <1>3, <1>7, <2>2 DEF LoadExchange, server
  <2> QED
    BY <1>7, <2>1, <2>2 DEF LoadExchange
<1> QED
  BY <1>4, <1>5, <1>6, <1>7

LEMMA RefreshInvInit == Init => RefreshInv
<1> SUFFICES ASSUME Init PROVE RefreshInv
  OBVIOUS
<1>1. TypeOK
  <2>1. [pc |-> "idle", tok |-> 0, retry |-> FALSE, sends |-> 0] \in Request
    BY DEF Request
  <2>2. req \in [Requests -> Request]
    BY <2>1 DEF Init
  <2>3. NotLoading \in Load
    BY DEF NotLoading, Load
  <2>4. load \in [Loads -> Load]
    BY <2>3 DEF Init
  <2>5. /\ token \in Nat /\ refreshToken \in BOOLEAN /\ live \in SUBSET Nat /\ created \in Nat
        /\ isRefreshing \in BOOLEAN /\ refreshSubscribers \in SUBSET Requests
        /\ named \in BOOLEAN
    <3>1. token \in Nat /\ live \in SUBSET Nat /\ created \in Nat
      BY DEF Init
    <3>2. refreshToken \in BOOLEAN /\ isRefreshing \in BOOLEAN /\ named \in BOOLEAN
      BY DEF Init
    <3> QED
      BY <3>1, <3>2 DEF Init
  <2> QED
    BY <2>2, <2>4, <2>5 DEF TypeOK
<1>2. Leader /\ FlagHolds /\ NotSentYet /\ SubscribersWait
  BY DEF Init, Leader, FlagHolds, NotSentYet, SubscribersWait, Refreshing, At
<1>3. SendsBehind
  BY MarkedFinite DEF Init, SendsBehind
<1> QED
  BY <1>1, <1>2, <1>3 DEF RefreshInv, FetcherInv

LEMMA RefreshInvNext == RefreshInv /\ [Next]_vars => RefreshInv'
<1> SUFFICES ASSUME RefreshInv, [Next]_vars PROVE RefreshInv'
  OBVIOUS
<1>1. CASE \E r \in Requests : Send(r) \/ Step(r)
  BY <1>1, StepInv
<1>2. CASE \E c \in Loads : LoadUser(c) \/ LoadSession(c) \/ LoadKeycloak(c) \/ LoadExchange(c)
  BY <1>2, LoadInv
<1>3. CASE \E reached \in BOOLEAN : Logout(reached)
  <2>0. PICK reached \in BOOLEAN : Logout(reached)
    BY <1>3
  <2>1. TypeOK' /\ UNCHANGED fetcher
    <3>1. live' \in SUBSET Nat
      BY <2>0 DEF Logout, RefreshInv, TypeOK
    <3> QED
      BY <2>0, <3>1 DEF RefreshInv, TypeOK, Logout, ClearAuthToken, fetcher
  <2> QED
    BY <2>1, ElsewhereInv DEF RefreshInv
<1>4. CASE \E s \in live : Expire(s)
  <2>1. TypeOK' /\ UNCHANGED fetcher
    BY <1>4 DEF RefreshInv, TypeOK, Expire, fetcher, storage, provider
  <2> QED
    BY <2>1, ElsewhereInv DEF RefreshInv
<1>5. CASE UNCHANGED vars
  <2>1. TypeOK' /\ UNCHANGED fetcher
    BY <1>5 DEF RefreshInv, TypeOK, vars, fetcher, storage, server, provider
  <2> QED
    BY <2>1, ElsewhereInv DEF RefreshInv
<1> QED
  BY <1>1, <1>2, <1>3, <1>4, <1>5 DEF Next

\* The invariant of the refresh holds in every state.
THEOREM RefreshInvariant == Spec => []RefreshInv
BY RefreshInvInit, RefreshInvNext, PTL DEF Spec

\* The variables are of their types in every state.
THEOREM RefreshTypeCorrect == Spec => []TypeOK
<1>1. RefreshInv => TypeOK
  BY DEF RefreshInv
<1> QED
  BY <1>1, RefreshInvariant, PTL

\* isRefreshing is set exactly while one request refreshes for the others.
THEOREM OneRefreshAtATime == Spec => []FlagHasLeader
<1>1. RefreshInv => FlagHasLeader
  <2> SUFFICES ASSUME RefreshInv PROVE FlagHasLeader
    OBVIOUS
  <2> DEFINE L == {r \in Requests : req[r].pc \in Refreshing}
  <2>1. CASE isRefreshing
    <3>1. PICK r \in Requests : req[r].pc \in Refreshing
      BY <2>1 DEF RefreshInv, FetcherInv, FlagHolds
    <3>2. L = {r}
      BY <3>1 DEF RefreshInv, FetcherInv, Leader
    <3> QED
      BY <2>1, <3>2, FS_Singleton DEF FlagHasLeader
  <2>2. CASE ~isRefreshing
    <3>1. L = {}
      BY <2>2 DEF RefreshInv, FetcherInv, Leader
    <3> QED
      BY <2>2, <3>1, FS_EmptySet DEF FlagHasLeader
  <2> QED
    BY <2>1, <2>2
<1> QED
  BY <1>1, RefreshInvariant, PTL

\* Subscribers wait for a refresh that is under way.
THEOREM SubscribersServed == Spec => []SubscribersWait
<1>1. RefreshInv => SubscribersWait
  BY DEF RefreshInv, FetcherInv
<1> QED
  BY <1>1, RefreshInvariant, PTL

\* No request is sent more often than once, and once per refresh.
THEOREM NoEndlessRetry == Spec => []ResendsBounded
<1>1. RefreshInv => ResendsBounded
  <2> SUFFICES ASSUME RefreshInv, NEW r \in Requests
               PROVE  req[r].sends <= 1 + Cardinality(Marked)
    BY DEF ResendsBounded, Marked
  <2>1. req[r].sends \in Nat
    BY DEF RefreshInv, TypeOK, Request
  <2> QED
    BY <2>1, MarkedFinite DEF RefreshInv, FetcherInv, SendsBehind
<1> QED
  BY <1>1, RefreshInvariant, PTL
=============================================================================
