------------------------------- MODULE UserData -------------------------------
(***************************************************************************)
(* How a request gets its user: getUserData of class KeycloakConnector     *)
(* with the two caches behind it.  A browser sends its token cookies with  *)
(* each request; the server takes the access token, or trades the refresh  *)
(* token for a new set (TokenCache), fetches the user info (UserInfoCache) *)
(* and, when that gives nothing, does it all once more while asking        *)
(* Keycloak about the access token.  New tokens go back as cookies.        *)
(*                                                                         *)
(* Token sets are numbered as Keycloak issues them: set g is an access     *)
(* token, a refresh token and the cookies that hold them, of which the     *)
(* browser has one set, jar.  One browser, one session, one server; the    *)
(* requests run side by side.  Both caches are module CacheProvider's for  *)
(* one key: a hit, a wait for the request that has the lock, or a miss.    *)
(*                                                                         *)
(* Keycloak takes a refresh token once (the setup that the README of the   *)
(* repository asks for), answers while the session lives, and tells of its *)
(* end by a back-channel logout.  MaxFaults bounds lost responses, failed  *)
(* calls and flights that outlive the lock of the token cache; MaxTime,    *)
(* LastSend and the number of requests bound the rest.                     *)
(***************************************************************************)
EXTENDS Naturals, Sequences

CONSTANTS Requests, None,
          AccessLife,   \* lifetime of an access token
          RefreshLife,  \* of a refresh token
          Holdover,     \* REFRESH_HOLDOVER_WINDOW_SECS, ttl of the token cache
          EagerTime,    \* eagerRefreshTime, 0 when it is disabled
          FetchInfo,    \* fetchUserInfo
          MaxTime, LastSend, MaxFaults

ASSUME UserDataAssumption ==
  /\ None \notin Requests
  /\ FetchInfo \in BOOLEAN
  /\ {AccessLife, RefreshLife, Holdover} \subseteq Nat \ {0}
  /\ {EagerTime, MaxTime, LastSend, MaxFaults} \subseteq Nat

VARIABLES
  now,
  session,  \* "live" or "over", at Keycloak
  told,     \* has the back-channel logout been handled
  issued,   \* when Keycloak issued each token set; the last one is current
  jar,      \* the set in the browser's cookies
  req,      \* the requests: see NoRequest
  tcache,   \* token cache, per refresh token: the new set, and since when
  tlock,    \* who holds its instance lock
  info,     \* user info cache of the session: till when, and is it tainted
  ilock,    \* who holds its instance lock
  dropped,  \* history: sets whose cookies were lost on the way
  faults

vars == <<now, session, told, issued, jar, req, tcache, tlock, info, ilock, dropped, faults>>

Sets == 1..(MaxTime + MaxFaults + 2)

NoRequest == [pc |-> "idle", verify |-> FALSE, \* the route's verify options
              sent |-> 0,        \* the cookies it came with
              loop |-> 0,        \* numOfLoopExecutions
              token |-> 0,       \* userData.accessToken
              cookies |-> 0,     \* userDataResponse.cookies
              auth |-> FALSE,    \* userData.isAuthenticated
              on |-> None,       \* whose flight it waits for
              reply |-> 0,       \* what an awaited call returned, 0 for undefined
              shared |-> FALSE,  \* history: its set came from a flight that others joined
              late |-> FALSE,    \* history: began after the logout was handled
              expired |-> FALSE, \* history: its info was asked for with an expired token
              tainted |-> FALSE] \* history: its info was fetched across a logout

NoInfo == [till |-> 0, tainted |-> FALSE]

Current     == Len(issued)
Expires(g)  == issued[g] + AccessLife
AccessOK(g) == g # 0 /\ now < Expires(g)
RefreshOK(g) == g # 0 /\ now < issued[g] + RefreshLife

Init ==
  /\ now = 0 /\ session = "live" /\ told = FALSE
  /\ issued = <<0>> /\ jar = 1
  /\ req = [r \in Requests |-> NoRequest]
  /\ tcache = [g \in Sets |-> [set |-> 0, at |-> 0]]
  /\ tlock = [g \in Sets |-> None]
  /\ info = NoInfo /\ ilock = None
  /\ dropped = {} /\ faults = 0


(***************************************************************************)
(* The browser and the start of the request.                               *)
(***************************************************************************)
Send(r) ==
  /\ req[r].pc = "idle" /\ now <= LastSend
  /\ \E v \in BOOLEAN : req' = [req EXCEPT ![r].pc = "sent", ![r].sent = jar, ![r].verify = v]
  /\ UNCHANGED <<now, session, told, issued, jar, tcache, tlock, info, ilock, dropped, faults>>

Receive(r) ==
  /\ req[r].pc = "sent"
  /\ req' = [req EXCEPT ![r].pc = "checking", ![r].late = told]
  /\ UNCHANGED <<now, session, told, issued, jar, tcache, tlock, info, ilock, dropped, faults>>

(***************************************************************************)
(* Where a request goes on: an answer, or the user info of its token.      *)
(***************************************************************************)
Answered(r, auth) == [req[r] EXCEPT !.pc = "answered", !.auth = auth]

WithToken(r, g, cookies) ==
  [req[r] EXCEPT !.token = g, !.cookies = cookies, !.auth = ~FetchInfo,
                 !.pc = IF FetchInfo THEN "asking" ELSE "answered"]

(* The user info came, or nothing did: the first time the response starts *)
(* anew, and with it its cookies.                                         *)
WithInfo(r, ok, tainted) ==
  IF ok THEN [Answered(r, TRUE) EXCEPT !.tainted = tainted]
  ELSE IF req[r].loop = 1 THEN Answered(r, FALSE)
  ELSE [req[r] EXCEPT !.pc = "checking", !.loop = 1, !.token = 0, !.cookies = 0]

LosesCookies(r, ok) == ~ok /\ req[r].loop = 0 /\ req[r].cookies # 0

Drop(S) == dropped' = dropped \cup (S \ {0})

(***************************************************************************)
(* accessTokenFromJwt and the eager refresh.                               *)
(***************************************************************************)
Eager(g) == /\ EagerTime > 0 /\ AccessLife > EagerTime
            /\ now >= Expires(g) - EagerTime

(* The token cache has the answer, another request is at it, or r is. *)
CacheLive(g) == tcache[g].set # 0 /\ now - tcache[g].at <= Holdover

RefreshHit(r, g) ==
  /\ CacheLive(g)
  /\ req' = [req EXCEPT ![r] = WithToken(r, tcache[g].set, 0)]
  /\ UNCHANGED tlock

RefreshJoin(r, g) ==
  /\ ~CacheLive(g) /\ tlock[g] # None
  /\ req' = [req EXCEPT ![r].pc = "joining", ![r].on = tlock[g]]
  /\ UNCHANGED tlock

(* Mutant of Refresh: every request asks Keycloak itself. *)
Refresh_NoCache(r, g) ==
  /\ req' = [req EXCEPT ![r].pc = "refreshing"]
  /\ tlock' = [tlock EXCEPT ![g] = r]

(* Mutant of Refresh: what the cache has goes to the browser once more. *)
Refresh_HitUpdates(r, g) ==
  \/ /\ CacheLive(g)
     /\ req' = [req EXCEPT ![r] = WithToken(r, tcache[g].set, tcache[g].set)]
     /\ UNCHANGED tlock
  \/ RefreshJoin(r, g)
  \/ /\ ~CacheLive(g) /\ tlock[g] = None
     /\ req' = [req EXCEPT ![r].pc = "refreshing"]
     /\ tlock' = [tlock EXCEPT ![g] = r]

Refresh(r, g) ==
  \/ RefreshHit(r, g)
  \/ RefreshJoin(r, g)
  \/ /\ ~CacheLive(g) /\ tlock[g] = None
     /\ req' = [req EXCEPT ![r].pc = "refreshing"]
     /\ tlock' = [tlock EXCEPT ![g] = r]

(* The access token was judged: it serves, or a new one is needed. *)
PopulateTokens(r, ok) ==
  LET g == req[r].sent IN
  \/ /\ ok /\ ~Eager(g)
     /\ req' = [req EXCEPT ![r] = WithToken(r, g, 0)]
     /\ UNCHANGED tlock
  \/ /\ ~ok \/ Eager(g)
     /\ ~RefreshOK(g)
     /\ req' = [req EXCEPT ![r] = Answered(r, FALSE)]
     /\ UNCHANGED tlock
  \/ /\ ~ok \/ Eager(g)
     /\ RefreshOK(g)
     /\ Refresh(r, g)

MustIntrospect(r) == req[r].loop = 1 \/ req[r].verify

CheckAccess(r) ==
  /\ req[r].pc = "checking"
  /\ IF AccessOK(req[r].sent) /\ MustIntrospect(r)
     THEN req' = [req EXCEPT ![r].pc = "introspecting"] /\ UNCHANGED tlock
     ELSE PopulateTokens(r, AccessOK(req[r].sent))
  /\ UNCHANGED <<now, session, told, issued, jar, tcache, info, ilock, dropped, faults>>

(* Keycloak's answer, or an error, which counts as inactive. *)
Introspect(r) ==
  /\ req[r].pc = "introspecting"
  /\ \E failed \in BOOLEAN :
       /\ failed => faults < MaxFaults
       /\ faults' = IF failed THEN faults + 1 ELSE faults
       /\ PopulateTokens(r, ~failed /\ session = "live" /\ AccessOK(req[r].sent))
  /\ UNCHANGED <<now, session, told, issued, jar, tcache, info, ilock, dropped>>

(***************************************************************************)
(* performTokenRefresh, and what the token cache makes of its result.      *)
(***************************************************************************)
Grantable(r) == /\ session = "live" /\ req[r].sent = Current /\ RefreshOK(req[r].sent)

Grant(r) ==
  /\ req[r].pc = "refreshing"
  /\ issued' = IF Grantable(r) THEN Append(issued, now) ELSE issued
  /\ req' = [req EXCEPT ![r].pc = "granted", ![r].reply = IF Grantable(r) THEN Current + 1 ELSE 0]
  /\ UNCHANGED <<now, session, told, jar, tcache, tlock, info, ilock, dropped, faults>>

(* The call fails, or takes too long, before or after Keycloak acted. *)
GrantFails(r) ==
  /\ req[r].pc = "refreshing" /\ faults < MaxFaults
  /\ faults' = faults + 1
  /\ \/ UNCHANGED <<issued, dropped>>
     \/ Grantable(r) /\ issued' = Append(issued, now) /\ Drop({Current + 1})
  /\ req' = [req EXCEPT ![r].pc = "granted", ![r].reply = 0]
  /\ UNCHANGED <<now, session, told, jar, tcache, tlock, info, ilock>>

Waiting(r, pc) == {q \in Requests : req[q].pc = pc /\ req[q].on = r}

(* The result object with its dataGenerator mark also resolves the waiters, *)
(* who then update the cookies like the request that ran the flight.        *)
Settle(r, stored) ==
  req' = [q \in Requests |->
    IF q = r \/ (stored /\ q \in Waiting(r, "joining"))
    THEN IF req[r].reply = 0 THEN Answered(q, FALSE)
         ELSE [WithToken(q, req[r].reply, req[r].reply) EXCEPT !.shared = Waiting(r, "joining") # {}]
    ELSE req[q]]

Granted(r) ==
  LET g == req[r].sent  mayEmit == tlock[g] \in {r, None} IN
  /\ req[r].pc = "granted"
  /\ Settle(r, mayEmit)
  /\ tlock' = IF mayEmit THEN [tlock EXCEPT ![g] = None] ELSE tlock
  /\ tcache' = IF mayEmit /\ req[r].reply # 0
               THEN [tcache EXCEPT ![g] = [set |-> req[r].reply, at |-> now]] ELSE tcache
  /\ UNCHANGED <<now, session, told, issued, jar, info, ilock, dropped, faults>>

(* The flight outlives the wait limit: its lock is gone, its waiters give up. *)
Overrun(r) ==
  /\ req[r].pc \in {"refreshing", "granted"} /\ tlock[req[r].sent] = r
  /\ faults < MaxFaults /\ faults' = faults + 1
  /\ tlock' = [tlock EXCEPT ![req[r].sent] = None]
  /\ req' = [q \in Requests |-> IF q \in Waiting(r, "joining") THEN Answered(q, FALSE) ELSE req[q]]
  /\ UNCHANGED <<now, session, told, issued, jar, tcache, info, ilock, dropped>>

(***************************************************************************)
(* The user info, kept till the token it was fetched with expires.         *)
(***************************************************************************)
InfoLive == now < info.till

GetUserInfo(r) ==
  /\ req[r].pc = "asking"
  /\ LET hit == InfoLive /\ ~req[r].verify IN
     \/ /\ hit
        /\ req' = [req EXCEPT ![r] = WithInfo(r, TRUE, info.tainted)]
        /\ UNCHANGED ilock
     \/ /\ ~hit /\ ilock # None
        /\ req' = [req EXCEPT ![r].pc = "awaiting", ![r].on = ilock]
        /\ UNCHANGED ilock
     \/ /\ ~hit /\ ilock = None
        /\ req' = [req EXCEPT ![r].pc = "fetching", ![r].tainted = FALSE]
        /\ ilock' = r
  /\ info' = IF req[r].verify THEN NoInfo ELSE info
  /\ UNCHANGED <<now, session, told, issued, jar, tcache, tlock, dropped, faults>>

FetchUserInfo(r) ==
  /\ req[r].pc = "fetching"
  /\ \E failed \in BOOLEAN :
       /\ failed => faults < MaxFaults
       /\ faults' = IF failed THEN faults + 1 ELSE faults
       /\ req' = [req EXCEPT ![r].pc = "fetched",
            ![r].reply = IF ~failed /\ session = "live" /\ AccessOK(req[r].token) THEN 1 ELSE 0]
  /\ UNCHANGED <<now, session, told, issued, jar, tcache, tlock, info, ilock, dropped>>

Fetched(r) ==
  LET ok == req[r].reply = 1  all == {r} \cup Waiting(r, "awaiting") IN
  /\ req[r].pc = "fetched"
  /\ ilock' = None
  /\ info' = IF ok THEN [till |-> Expires(req[r].token), tainted |-> req[r].tainted] ELSE info
  /\ req' = [q \in Requests |->
       IF q \in all THEN [WithInfo(q, ok, req[r].tainted) EXCEPT
                            !.expired = @ \/ (~ok /\ ~AccessOK(req[r].token))]
       ELSE req[q]]
  /\ Drop({req[q].cookies : q \in {p \in all : LosesCookies(p, ok)}})
  /\ UNCHANGED <<now, session, told, issued, jar, tcache, tlock, faults>>

(***************************************************************************)
(* onRequest: the cookies go with the response, whatever it is.            *)
(***************************************************************************)
(* Mutant of Deliver: only an authenticated user's response has cookies. *)
Deliver_WhenAuthenticated(r) ==
  /\ req[r].pc = "answered"
  /\ jar' = IF req[r].cookies # 0 /\ req[r].auth THEN req[r].cookies ELSE jar
  /\ Drop(IF jar' < jar THEN {jar} ELSE {})
  /\ req' = [req EXCEPT ![r] = [NoRequest EXCEPT !.pc = "done"]]
  /\ UNCHANGED <<now, session, told, issued, tcache, tlock, info, ilock, faults>>

Deliver(r) ==
  /\ req[r].pc = "answered"
  /\ jar' = IF req[r].cookies # 0 THEN req[r].cookies ELSE jar
  /\ Drop(IF jar' < jar THEN {jar} ELSE {})
  /\ req' = [req EXCEPT ![r] = [NoRequest EXCEPT !.pc = "done"]]
  /\ UNCHANGED <<now, session, told, issued, tcache, tlock, info, ilock, faults>>

LoseResponse(r) ==
  /\ req[r].pc = "answered" /\ faults < MaxFaults
  /\ faults' = faults + 1
  /\ Drop({req[r].cookies})
  /\ req' = [req EXCEPT ![r] = [NoRequest EXCEPT !.pc = "done"]]
  /\ UNCHANGED <<now, session, told, issued, jar, tcache, tlock, info, ilock>>

(***************************************************************************)
(* Keycloak ends the session and tells of it; the clock.                   *)
(***************************************************************************)
EndSession ==
  /\ session = "live" /\ session' = "over"
  /\ UNCHANGED <<now, told, issued, jar, req, tcache, tlock, info, ilock, dropped, faults>>

(* Mutant of HandleBackChannelLogout: the token is validated and that is all. *)
HandleBackChannelLogout_KeepsInfo ==
  /\ session = "over" /\ ~told /\ told' = TRUE
  /\ UNCHANGED <<now, session, issued, jar, req, tcache, tlock, info, ilock, dropped, faults>>

HandleBackChannelLogout ==
  /\ session = "over" /\ ~told
  /\ told' = TRUE
  /\ info' = NoInfo
  /\ req' = [r \in Requests |-> IF req[r].pc \in {"fetching", "fetched"}
                                THEN [req[r] EXCEPT !.tainted = TRUE] ELSE req[r]]
  /\ UNCHANGED <<now, session, issued, jar, tcache, tlock, ilock, dropped, faults>>

Tick == /\ now < MaxTime /\ now' = now + 1
        /\ UNCHANGED <<session, told, issued, jar, req, tcache, tlock, info, ilock, dropped, faults>>

Step(r) == \/ Receive(r) \/ CheckAccess(r) \/ Introspect(r) \/ Grant(r) \/ Granted(r)
           \/ GetUserInfo(r) \/ FetchUserInfo(r) \/ Fetched(r) \/ Deliver(r)

Next == \/ \E r \in Requests : Send(r) \/ Step(r) \/ GrantFails(r) \/ Overrun(r) \/ LoseResponse(r)
        \/ EndSession \/ HandleBackChannelLogout \/ Tick

Spec == Init /\ [][Next]_vars

-----------------------------------------------------------------------------
(* Every variable has its type. *)
UserDataTypeOK ==
  /\ now \in 0..MaxTime /\ session \in {"live", "over"} /\ told \in BOOLEAN
  /\ issued \in Seq(0..MaxTime) /\ Current \in Sets /\ jar \in 1..Current
  /\ \A r \in Requests :
       /\ {req[r].sent, req[r].token, req[r].cookies} \subseteq 0..Current
       /\ req[r].on \in Requests \cup {None}
       /\ req[r].pc \in {"idle", "sent", "checking", "introspecting", "refreshing", "granted",
                         "joining", "asking", "awaiting", "fetching", "fetched", "answered", "done"}
  /\ \A g \in Sets : tlock[g] \in Requests \cup {None} /\ tcache[g].set \in 0..Current
  /\ ilock \in Requests \cup {None} /\ info.till \in 0..(MaxTime + AccessLife)
  /\ dropped \subseteq Sets /\ faults \in 0..MaxFaults

(* The newest token set is in the browser or on its way in an open request, *)
(* unless it was lost in one of four ways: its response was, its grant's   *)
(* reply was, getUserData began its second loop, or an older set came to   *)
(* the browser after it (populateTokensFromRequest, onRequest).            *)
Carried == {req[r].cookies : r \in {q \in Requests : req[q].pc # "done"}}
             \cup {req[r].reply : r \in {q \in Requests : req[q].pc = "granted"}}
TokensReachBrowser == jar = Current \/ Current \in Carried \cup dropped

(* A browser whose cookies are good is answered as logged in, whatever its *)
(* requests do side by side, unless the session ended, a call failed,      *)
(* tokens were lost, or the request came later than the holdover after     *)
(* another one rotated its refresh token, or shared the fetch of one whose *)
(* token expired on the way (getUserData, UserInfoCache).                  *)
Overtaken(g) == g < Current /\ issued[g + 1] + Holdover < now
LoggedInStaysIn ==
  \A r \in Requests :
    req[r].pc = "answered" /\ ~req[r].auth =>
      \/ session = "over" \/ faults > 0 \/ req[r].expired
      \/ Overtaken(req[r].sent) \/ ~RefreshOK(req[r].sent)

(* After the back-channel logout was handled, a request that begins is     *)
(* logged out, unless its user info came from a fetch that was under way   *)
(* when the cache was cleared (handleBackChannelLogout, UserInfoCache).    *)
LoggedOutMeansOut ==
  \A r \in Requests : req[r].late /\ req[r].auth => req[r].tainted

(* The cookies of the browser go back to an older token set only by a      *)
(* response whose refresh was shared: a request that found the new set in  *)
(* the cache does not set it again (shouldUpdateCookies of TokenCache).    *)
JarGoesBackOnlyWhenShared ==
  [][jar' < jar => \E r \in Requests : req[r].pc = "answered" /\ req[r].shared
                                        /\ req[r].cookies = jar' /\ req'[r].pc = "done"]_vars

(* A request that obtained a new token set records it in its response's    *)
(* cookies (comment of populateTokensFromRequest).                         *)
RecordedInResponse ==
  [][\A r \in Requests :
       session = "live" /\ req[r].cookies # 0 /\ req[r].pc # "answered" =>
         req'[r].cookies = req[r].cookies]_vars

=============================================================================
