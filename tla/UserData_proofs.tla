--------------------------- MODULE UserData_proofs ---------------------------
(***************************************************************************)
(* The tokens of a browser and the answers to its requests, for any number *)
(* of requests, any lifetimes and any number of faults.                    *)
(***************************************************************************)
EXTENDS UserData, SequenceTheorems, TLAPS

Phases == {"idle", "sent", "checking", "introspecting", "refreshing", "granted",
           "joining", "asking", "awaiting", "fetching", "fetched", "answered", "done"}

(* Before a request has an access token, its response has no cookies. *)
Early == {"idle", "sent", "checking", "introspecting", "refreshing", "granted", "joining"}

Request == [pc : Phases, verify : BOOLEAN, sent : Nat, loop : {0, 1}, token : Nat, cookies : Nat,
            auth : BOOLEAN, on : Requests \cup {None}, reply : Nat, shared : BOOLEAN,
            late : BOOLEAN, expired : BOOLEAN, tainted : BOOLEAN]

(* A request, while n token sets are issued. *)
Fine(f, n) ==
  /\ f \in Request
  /\ f.sent \in 0..n /\ f.token \in 0..n /\ f.cookies \in 0..n /\ f.reply \in 0..n
  /\ f.pc \in Early => f.cookies = 0
  /\ f.auth => f.pc = "answered"
  /\ f.pc = "fetched" /\ f.reply = 1 => f.token # 0

Basics ==
  /\ now \in 0..MaxTime /\ session \in {"live", "over"} /\ told \in BOOLEAN
  /\ issued \in Seq(0..MaxTime) /\ Current \in Nat /\ jar \in 1..Current
  /\ req \in [Requests -> Request] /\ \A r \in Requests : Fine(req[r], Current)
  /\ tlock \in [Sets -> Requests \cup {None}]
  /\ tcache \in [Sets -> [set : Nat, at : Nat]]
  /\ ilock \in Requests \cup {None} /\ info \in [till : Nat, tainted : BOOLEAN]
  /\ info.till <= MaxTime + AccessLife
  /\ dropped \subseteq 1..Current /\ faults \in 0..MaxFaults
  /\ \A g \in Sets : tcache[g].set <= Current
  /\ \A i \in 1..Current : issued[i] <= now

(* Keycloak issues a token set when the last one has aged, or a fault has  *)
(* made a request refresh it before: so the sets do not run out.           *)
Young(r) == /\ req[r].pc = "refreshing" /\ req[r].sent = Current
            /\ session = "live" /\ issued[Current] = now
Numbered ==
  /\ Current <= issued[Current] + faults + 1
  /\ \A r \in Requests : Young(r) => Current <= issued[Current] + faults

-----------------------------------------------------------------------------
(* The newest set, while one request alone has it and has not delivered it:*)
(* it is nowhere else, so that nobody can trade it for another.            *)
Owns(r, g) == /\ g # 0
              /\ \/ req[r].pc = "granted" /\ req[r].reply = g
                 \/ req[r].cookies = g /\ ~req[r].shared
HasAny(q, g) == (req[q].pc = "granted" /\ req[q].reply = g) \/ req[q].cookies = g

OwnedAlone ==
  \A r \in Requests : \A g \in Nat : Owns(r, g) =>
    /\ g = Current /\ jar # g
    /\ \A q \in Requests : req[q].sent # g /\ (q # r => ~HasAny(q, g))

-----------------------------------------------------------------------------
(* The logout: what was fetched before it, and used after it, is marked. *)
LogoutMarks ==
  /\ told => session = "over" /\ (info.till > 0 => info.tainted)
  /\ \A r \in Requests :
       /\ req[r].late => told
       /\ told /\ req[r].pc = "fetched" /\ req[r].reply = 1 => req[r].tainted

-----------------------------------------------------------------------------
(* While nothing fails: one refresh of a token set at a time, and what the *)
(* first one obtained is in the cache for as long as others may ask.       *)
Flying(r) == req[r].pc \in {"refreshing", "granted"}
OneFlight ==
  /\ \A r \in Requests : Flying(r) => req[r].sent \in Sets /\ tlock[req[r].sent] = r
  /\ \A g \in Sets : tlock[g] # None => Flying(tlock[g]) /\ req[tlock[g]].sent = g
  /\ \A r \in Requests : req[r].pc = "joining" =>
       /\ req[r].on \in Requests /\ Flying(req[r].on) /\ req[req[r].on].sent = req[r].sent
RotatedIsCached ==
  \A g \in 1..(Current - 1) :
    \/ tcache[g].set # 0 /\ tcache[g].at >= issued[g + 1]
    \/ \E q \in Requests : req[q].pc = "granted" /\ req[q].sent = g /\ req[q].reply # 0
Excuse(r) == Overtaken(req[r].sent) \/ ~RefreshOK(req[r].sent)
NoReason(r) ==
  /\ req[r].pc = "refreshing" /\ req[r].sent < Current => Excuse(r)
  /\ req[r].pc = "granted" /\ req[r].reply = 0 => session = "over" \/ Excuse(r)
  /\ req[r].pc = "fetched" /\ req[r].reply # 1 => session = "over" \/ ~AccessOK(req[r].token)
  /\ req[r].pc = "answered" /\ ~req[r].auth => session = "over" \/ req[r].expired \/ Excuse(r)
NothingFails == faults = 0 => OneFlight /\ RotatedIsCached /\ \A r \in Requests : NoReason(r)

UserInv == /\ Basics /\ Numbered /\ TokensReachBrowser /\ OwnedAlone /\ NothingFails
           /\ (FetchInfo => LogoutMarks /\ LoggedOutMeansOut)

-----------------------------------------------------------------------------
(* The numbers of the token sets. *)
LEMMA Numbers ==
  ASSUME Basics, Numbered
  PROVE  /\ MaxTime \in Nat /\ MaxFaults \in Nat /\ now \in Nat /\ faults \in Nat
         /\ Current \in Nat /\ 1 <= Current
         /\ Current \in Sets /\ 1..Current \subseteq Sets /\ Sets \subseteq Nat
         /\ \A i \in 1..Current : issued[i] \in 0..MaxTime
<1>1. /\ MaxTime \in Nat /\ MaxFaults \in Nat /\ Current \in Nat /\ Current >= 1
      /\ now \in Nat /\ faults \in 0..MaxFaults /\ faults \in Nat
  BY UserDataAssumption DEF Basics
<1>2. \A i \in 1..Current : issued[i] \in 0..MaxTime
  BY ElementOfSeq DEF Basics, Current
<1>3. issued[Current] \in 0..MaxTime
  BY <1>1, <1>2
<1>4. Current <= MaxTime + MaxFaults + 1
  BY <1>1, <1>3 DEF Numbered
<1>5. Current \in Sets /\ 1..Current \subseteq Sets /\ Sets \subseteq Nat
  BY <1>1, <1>4 DEF Sets
<1>6. QED
  BY <1>1, <1>2, <1>5

LEMMA Issues ==
  ASSUME Basics, issued' = Append(issued, now)
  PROVE  /\ issued' \in Seq(0..MaxTime) /\ Current' = Current + 1
         /\ \A i \in 1..Current : issued'[i] = issued[i]
         /\ issued'[Current + 1] = now
BY AppendProperties DEF Basics, Current

(* A request's record changes, and no other's. *)
Alone(r) == /\ req' \in [Requests -> Request]
            /\ \A q \in Requests \ {r} : req'[q] = req[q]

LEMMA OneRequest ==
  ASSUME Basics, NEW r \in Requests, NEW f \in Request, req' = [req EXCEPT ![r] = f]
  PROVE  Alone(r) /\ req'[r] = f
BY DEF Basics, Alone

LEMMA RequestFields ==
  ASSUME Basics, NEW r \in Requests
  PROVE  /\ req[r] \in Request /\ req[r].sent \in 0..Current /\ req[r].token \in 0..Current
         /\ req[r].cookies \in 0..Current /\ req[r].reply \in 0..Current /\ Current \in Nat
         /\ req[r].pc \in Early => req[r].cookies = 0
         /\ req[r].auth => req[r].pc = "answered"
BY DEF Basics, Fine

LEMMA NewRequest == NoRequest \in Request
BY DEF NoRequest, Request, Phases

(* What a step leaves of a request's record. *)
Keeps(f, r) == /\ f.sent = req[r].sent /\ f.shared = req[r].shared /\ f.late = req[r].late

(* Where a request goes with an access token. *)
LEMMA TokenFields ==
  ASSUME Basics, NEW r \in Requests, NEW g \in 0..Current, NEW c \in 0..Current
  PROVE  LET f == WithToken(r, g, c) IN
         /\ Fine(f, Current) /\ Keeps(f, r) /\ f.reply = req[r].reply
         /\ f.token = g /\ f.cookies = c /\ f.pc \in {"asking", "answered"}
         /\ f.pc = "asking" <=> FetchInfo
         /\ f.auth <=> f.pc = "answered"
<1>1. Fine(req[r], Current) /\ FetchInfo \in BOOLEAN /\ Current \in Nat /\ g \in Nat /\ c \in Nat
  BY UserDataAssumption DEF Basics
<1>2. CASE FetchInfo
  <2> DEFINE f == [req[r] EXCEPT !.token = g, !.cookies = c, !.auth = FALSE, !.pc = "asking"]
  <2>1. WithToken(r, g, c) = f
    BY <1>2 DEF WithToken
  <2>2. f \in Request /\ Keeps(f, r) /\ f.reply = req[r].reply /\ f.token = g /\ f.cookies = c
        /\ f.pc = "asking" /\ ~f.auth
    BY <1>1 DEF Request, Phases, Fine, Keeps
  <2> HIDE DEF f
  <2>3. QED  BY <1>1, <1>2, <2>1, <2>2 DEF Fine, Keeps, Early
<1>3. CASE ~FetchInfo
  <2> DEFINE f == [req[r] EXCEPT !.token = g, !.cookies = c, !.auth = TRUE, !.pc = "answered"]
  <2>1. WithToken(r, g, c) = f
    BY <1>3 DEF WithToken
  <2>2. f \in Request /\ Keeps(f, r) /\ f.reply = req[r].reply /\ f.token = g /\ f.cookies = c
        /\ f.pc = "answered" /\ f.auth
    BY <1>1 DEF Request, Phases, Fine, Keeps
  <2> HIDE DEF f
  <2>3. QED  BY <1>1, <1>3, <2>1, <2>2 DEF Fine, Keeps, Early
<1>4. QED  BY <1>2, <1>3

LEMMA RefusalFields ==
  ASSUME Basics, NEW r \in Requests
  PROVE  LET f == Answered(r, FALSE) IN
         /\ Fine(f, Current) /\ Keeps(f, r) /\ f.pc = "answered" /\ ~f.auth
         /\ f.cookies = req[r].cookies /\ f.reply = req[r].reply /\ f.token = req[r].token
<1> DEFINE f == [req[r] EXCEPT !.pc = "answered", !.auth = FALSE]
<1>1. Fine(req[r], Current)
  BY DEF Basics
<1>2. /\ f \in Request /\ Keeps(f, r) /\ f.reply = req[r].reply /\ f.token = req[r].token
      /\ f.cookies = req[r].cookies /\ f.pc = "answered" /\ ~f.auth
  BY <1>1 DEF Request, Phases, Fine, Keeps
<1> HIDE DEF f
<1>3. Answered(r, FALSE) = f
  BY DEF Answered, f
<1>4. QED  BY <1>1, <1>2, <1>3 DEF Fine, Keeps, Early

(* The phase of a request is all that changes of what the invariant reads. *)
Moves(f, r, pc) == /\ Fine(f, Current) /\ Keeps(f, r) /\ f.pc = pc
                   /\ f.cookies = req[r].cookies /\ ~f.auth

(* What accessTokenFromJwt makes of a request, when the access token was   *)
(* judged.                                                                 *)
LEMMA PopulateFields ==
  ASSUME Basics, Numbered, NEW r \in Requests, NEW ok \in BOOLEAN,
         req[r].pc \in {"checking", "introspecting"}, PopulateTokens(r, ok)
  PROVE  LET f == req'[r]  g == req[r].sent IN
         /\ Alone(r) /\ Fine(f, Current) /\ Keeps(f, r) /\ f.cookies = 0
         /\ \/ /\ f.pc \in {"asking", "answered"} /\ (f.auth <=> f.pc = "answered")
               /\ (f.pc = "asking" <=> FetchInfo) /\ tlock' = tlock
            \/ /\ f.pc = "answered" /\ ~f.auth /\ ~RefreshOK(g) /\ tlock' = tlock
            \/ /\ f.pc = "joining" /\ ~f.auth
               /\ g \in Sets /\ tlock[g] # None /\ f.on = tlock[g] /\ tlock' = tlock
            \/ /\ f.pc = "refreshing" /\ ~f.auth
               /\ g \in Sets /\ tlock[g] = None /\ tlock' = [tlock EXCEPT ![g] = r]
               /\ ~CacheLive(g) /\ (~ok \/ Eager(g))
<1> DEFINE g == req[r].sent
<1>1. /\ Fine(req[r], Current) /\ g \in 0..Current /\ Current \in Nat /\ 0 \in 0..Current
      /\ req[r].cookies = 0 /\ ~req[r].auth
  BY RequestFields DEF Early, Basics
<1>2. RefreshOK(g) => g \in Sets
  BY <1>1, Numbers DEF RefreshOK
<1>3. ASSUME NEW h \in 0..Current, req' = [req EXCEPT ![r] = WithToken(r, h, 0)], UNCHANGED tlock
      PROVE  /\ Alone(r) /\ Fine(req'[r], Current) /\ Keeps(req'[r], r) /\ req'[r].cookies = 0
             /\ req'[r].pc \in {"asking", "answered"} /\ (req'[r].auth <=> req'[r].pc = "answered")
             /\ (req'[r].pc = "asking" <=> FetchInfo) /\ tlock' = tlock
  <2> DEFINE f == WithToken(r, h, 0)
  <2>1. /\ Fine(f, Current) /\ Keeps(f, r) /\ f.cookies = 0 /\ f.pc \in {"asking", "answered"}
        /\ f.pc = "asking" <=> FetchInfo
        /\ f.auth <=> f.pc = "answered"
    BY <1>1, TokenFields
  <2> HIDE DEF f
  <2>2. f \in Request /\ req' = [req EXCEPT ![r] = f]
    BY <1>3, <2>1 DEF Fine, f
  <2>3. Alone(r) /\ req'[r] = f
    BY <2>2, OneRequest
  <2>4. QED  BY <1>3, <2>1, <2>3
<1>4. CASE ok /\ ~Eager(g) /\ req' = [req EXCEPT ![r] = WithToken(r, g, 0)] /\ UNCHANGED tlock
  BY <1>1, <1>3, <1>4
<1>5. CASE ~RefreshOK(g) /\ req' = [req EXCEPT ![r] = Answered(r, FALSE)] /\ UNCHANGED tlock
  <2> DEFINE f == Answered(r, FALSE)
  <2>1. Fine(f, Current) /\ Keeps(f, r) /\ f.pc = "answered" /\ ~f.auth /\ f.cookies = 0
    BY <1>1, RefusalFields
  <2> HIDE DEF f
  <2>2. f \in Request /\ req' = [req EXCEPT ![r] = f]
    BY <1>5, <2>1 DEF Fine, f
  <2>3. Alone(r) /\ req'[r] = f
    BY <2>2, OneRequest
  <2>4. QED  BY <1>5, <2>1, <2>3
<1>6. CASE (~ok \/ Eager(g)) /\ RefreshOK(g) /\ RefreshHit(r, g)
  <2>1. req' = [req EXCEPT ![r] = WithToken(r, tcache[g].set, 0)] /\ UNCHANGED tlock
    BY <1>6 DEF RefreshHit
  <2>2. tcache[g].set \in 0..Current
    BY <1>1, <1>2, <1>6 DEF Basics
  <2>3. QED  BY <1>3, <2>1, <2>2
<1>7. CASE (~ok \/ Eager(g)) /\ RefreshOK(g) /\ RefreshJoin(r, g)
  <2> DEFINE f == [req[r] EXCEPT !.pc = "joining", !.on = tlock[g]]
  <2>1. req' = [req EXCEPT ![r] = f] /\ tlock[g] # None /\ tlock' = tlock
    BY <1>1, <1>7 DEF RefreshJoin, Basics, Fine
  <2>2. tlock[g] \in Requests \cup {None}
    BY <1>2, <1>7 DEF Basics
  <2>3. /\ f \in Request /\ f.pc = "joining" /\ f.on = tlock[g] /\ Keeps(f, r)
        /\ f.token = req[r].token /\ f.cookies = 0 /\ f.reply = req[r].reply /\ ~f.auth
    BY <1>1, <2>2 DEF Request, Phases, Fine, Keeps
  <2> HIDE DEF f
  <2>4. Alone(r) /\ req'[r] = f
    BY <2>1, <2>3, OneRequest
  <2>5. Fine(f, Current)
    BY <1>1, <2>3 DEF Fine, Keeps
  <2>6. QED  BY <1>2, <1>7, <2>1, <2>3, <2>4, <2>5
<1>8. CASE /\ ~ok \/ Eager(g)
           /\ RefreshOK(g) /\ ~CacheLive(g) /\ tlock[g] = None
           /\ req' = [req EXCEPT ![r].pc = "refreshing"] /\ tlock' = [tlock EXCEPT ![g] = r]
  <2> DEFINE f == [req[r] EXCEPT !.pc = "refreshing"]
  <2>1. req' = [req EXCEPT ![r] = f]
    BY <1>8
  <2>2. /\ f \in Request /\ f.pc = "refreshing" /\ Keeps(f, r)
        /\ f.token = req[r].token /\ f.cookies = 0 /\ f.reply = req[r].reply /\ ~f.auth
    BY <1>1 DEF Request, Phases, Fine, Keeps
  <2> HIDE DEF f
  <2>3. Alone(r) /\ req'[r] = f
    BY <2>1, <2>2, OneRequest
  <2>4. Fine(f, Current)
    BY <1>1, <2>2 DEF Fine, Keeps
  <2>5. QED  BY <1>2, <1>8, <2>2, <2>3, <2>4
<1>9. QED
  BY <1>4, <1>5, <1>6, <1>7, <1>8 DEF PopulateTokens, Refresh
-----------------------------------------------------------------------------
(* What each step makes of the requests. *)
LEMMA SendMoves ==
  ASSUME Basics, Numbered, NEW r \in Requests, Send(r)
  PROVE  LET f == req'[r] IN
         /\ Alone(r) /\ Fine(f, Current) /\ req[r].pc = "idle" /\ f.pc = "sent" /\ f.sent = jar
         /\ f.cookies = 0 /\ f.shared = req[r].shared /\ f.late = req[r].late /\ ~f.auth
<1>1. PICK v \in BOOLEAN :
        req' = [req EXCEPT ![r] = [req[r] EXCEPT !.pc = "sent", !.sent = jar, !.verify = v]]
  BY DEF Send, Basics, Fine, Request
<1> DEFINE f == [req[r] EXCEPT !.pc = "sent", !.sent = jar, !.verify = v]
<1>2. Fine(req[r], Current) /\ req[r].cookies = 0 /\ ~req[r].auth /\ req[r].pc = "idle"
      /\ jar \in 0..Current /\ jar \in Nat
  <2>1. Fine(req[r], Current) /\ req[r].pc = "idle"
    BY DEF Send, Basics
  <2>2. req[r].cookies = 0 /\ ~req[r].auth
    BY <2>1 DEF Fine, Early
  <2>3. Current \in Nat /\ jar \in 1..Current
    BY Numbers DEF Basics
  <2>4. jar \in 0..Current /\ jar \in Nat
    BY <2>3
  <2>5. QED  BY <2>1, <2>2, <2>4
<1>3. /\ f \in Request /\ f.pc = "sent" /\ f.sent = jar /\ f.shared = req[r].shared
      /\ f.late = req[r].late /\ f.token = req[r].token /\ f.cookies = 0
      /\ f.reply = req[r].reply /\ ~f.auth
  BY <1>2 DEF Request, Phases, Fine
<1> HIDE DEF f
<1>4. Fine(f, Current)
  BY <1>2, <1>3 DEF Fine
<1>5. Alone(r) /\ req'[r] = f
  BY <1>1, <1>3, OneRequest DEF f
<1>6. QED  BY <1>2, <1>3, <1>4, <1>5

LEMMA ReceiveMoves ==
  ASSUME Basics, NEW r \in Requests, Receive(r)
  PROVE  LET f == req'[r] IN
         /\ Alone(r) /\ Fine(f, Current) /\ req[r].pc = "sent" /\ f.pc = "checking"
         /\ f.sent = req[r].sent /\ f.cookies = req[r].cookies /\ f.shared = req[r].shared
         /\ f.late = told /\ ~f.auth
<1> DEFINE f == [req[r] EXCEPT !.pc = "checking", !.late = told]
<1>1. Fine(req[r], Current) /\ ~req[r].auth /\ req[r].pc = "sent" /\ told \in BOOLEAN
      /\ req' = [req EXCEPT ![r] = f] /\ req[r].cookies = 0
  BY DEF Receive, Basics, Fine, Early
<1>2. /\ f \in Request /\ f.pc = "checking" /\ f.sent = req[r].sent /\ f.shared = req[r].shared
      /\ f.late = told /\ f.token = req[r].token /\ f.cookies = req[r].cookies
      /\ f.reply = req[r].reply /\ ~f.auth
  BY <1>1 DEF Request, Phases, Fine
<1> HIDE DEF f
<1>3. Fine(f, Current)
  BY <1>1, <1>2 DEF Fine
<1>4. Alone(r) /\ req'[r] = f
  BY <1>1, <1>2, OneRequest
<1>5. QED  BY <1>1, <1>2, <1>3, <1>4

(* The phases of the refresh: a judged token, a call of Keycloak. *)
LEMMA AskMoves ==
  ASSUME Basics, NEW r \in Requests, req[r].pc = "checking",
         req' = [req EXCEPT ![r].pc = "introspecting"]
  PROVE  LET f == req'[r] IN
         /\ Alone(r) /\ Fine(f, Current) /\ Keeps(f, r) /\ f.pc = "introspecting"
         /\ f.cookies = 0 /\ ~f.auth
<1> DEFINE f == [req[r] EXCEPT !.pc = "introspecting"]
<1>1. Fine(req[r], Current) /\ ~req[r].auth /\ req' = [req EXCEPT ![r] = f] /\ req[r].cookies = 0
  BY DEF Basics, Fine, Early
<1>2. /\ f \in Request /\ f.pc = "introspecting" /\ Keeps(f, r)
      /\ f.token = req[r].token /\ f.cookies = 0 /\ f.reply = req[r].reply /\ ~f.auth
  BY <1>1 DEF Request, Phases, Fine, Keeps
<1> HIDE DEF f
<1>3. Fine(f, Current)
  BY <1>1, <1>2 DEF Fine, Keeps
<1>4. Alone(r) /\ req'[r] = f
  BY <1>1, <1>2, OneRequest
<1>5. QED  BY <1>2, <1>3, <1>4

LEMMA ReplyMoves ==
  ASSUME Basics, NEW r \in Requests, NEW pc \in {"granted", "fetched"}, NEW n \in Nat,
         NEW m \in Nat, Current <= m, n <= m, req[r].pc = "refreshing" \/ pc = "fetched",
         pc = "fetched" /\ n = 1 => req[r].token # 0,
         ~req[r].auth, req' = [req EXCEPT ![r].pc = pc, ![r].reply = n]
  PROVE  LET f == req'[r] IN
         /\ Alone(r) /\ Fine(f, m) /\ Keeps(f, r) /\ f.pc = pc
         /\ f.cookies = req[r].cookies /\ f.token = req[r].token /\ f.tainted = req[r].tainted
         /\ f.reply = n /\ ~f.auth
<1> DEFINE f == [req[r] EXCEPT !.pc = pc, !.reply = n]
<1>1. Fine(req[r], Current) /\ req' = [req EXCEPT ![r] = f] /\ Current \in Nat
  BY DEF Basics, Fine, Request
<1>2. /\ f \in Request /\ f.pc = pc /\ Keeps(f, r) /\ f.tainted = req[r].tainted
      /\ f.token = req[r].token /\ f.cookies = req[r].cookies /\ f.reply = n /\ ~f.auth
  BY <1>1 DEF Request, Phases, Fine, Keeps
<1> HIDE DEF f
<1>3. Fine(f, m)
  BY <1>1, <1>2 DEF Fine, Keeps, Early
<1>4. Alone(r) /\ req'[r] = f
  BY <1>1, <1>2, OneRequest
<1>5. QED  BY <1>2, <1>3, <1>4

(* The request that ran a flight, and those that waited for it. *)
Flight(r, stored) == {r} \cup (IF stored THEN Waiting(r, "joining") ELSE {})

LEMMA GrantedMoves ==
  ASSUME Basics, NEW r \in Requests, Granted(r)
  PROVE  LET A == Flight(r, tlock[req[r].sent] \in {r, None}) IN
         /\ req' \in [Requests -> Request] /\ \A q \in Requests \ A : req'[q] = req[q]
         /\ r \in A /\ A \subseteq Requests
         /\ \A q \in A : req[q].pc \in {"granted", "joining"} /\ req[q].cookies = 0 /\ (q # r => Waiting(r, "joining") # {})
         /\ \A q \in A : LET f == req'[q] IN
              /\ Fine(f, Current) /\ f.sent = req[q].sent /\ f.late = req[q].late
              /\ f.pc \in {"asking", "answered"}
              /\ f.cookies = req[r].reply
              /\ req[r].reply = 0 => f.pc = "answered" /\ ~f.auth
              /\ req[r].reply # 0 => /\ f.shared = (Waiting(r, "joining") # {})
                                     /\ (f.auth <=> f.pc = "answered")
                                     /\ (f.pc = "asking" <=> FetchInfo)
<1> DEFINE stored == tlock[req[r].sent] \in {r, None}
           W == Waiting(r, "joining")
           A == Flight(r, stored)
           n == req[r].reply
           rec(q) == [WithToken(q, n, n) EXCEPT !.shared = W # {}]
<1>1. W \subseteq Requests /\ r \in A /\ A \subseteq Requests
      /\ \A q \in A : q = r \/ (stored /\ q \in W)
  BY DEF Flight, Waiting
<1>2. \A q \in A : /\ Fine(req[q], Current) /\ req[q].pc \in {"granted", "joining"}
                   /\ req[q].cookies = 0 /\ (q # r => W # {})
  <2>1. \A q \in A : req[q].pc \in {"granted", "joining"} /\ (q # r => W # {})
    BY <1>1 DEF Granted, Waiting
  <2>2. QED  BY <1>1, <2>1 DEF Basics, Fine, Early
<1>3. req' = [q \in Requests |-> IF q \in A THEN IF n = 0 THEN Answered(q, FALSE) ELSE rec(q)
                                 ELSE req[q]]
  BY <1>1 DEF Granted, Settle, Flight
<1>4. \A q \in Requests \ A : req'[q] = req[q] /\ req'[q] \in Request
  BY <1>3 DEF Basics
<1>5. n \in 0..Current
  BY DEF Basics, Fine
<1>6. ASSUME NEW q \in A
      PROVE  LET f == req'[q] IN
             /\ Fine(f, Current) /\ f.sent = req[q].sent /\ f.late = req[q].late
             /\ f.pc \in {"asking", "answered"}
             /\ f.cookies = n
             /\ n = 0 => f.pc = "answered" /\ ~f.auth
             /\ n # 0 => /\ f.shared = (W # {})
                         /\ (f.auth <=> f.pc = "answered")
                         /\ (f.pc = "asking" <=> FetchInfo)
  <2>1. CASE n = 0
    <3>1. req'[q] = Answered(q, FALSE) /\ q \in Requests
      BY <1>1, <1>3, <2>1
    <3>2. QED  BY <1>2, <2>1, <3>1, RefusalFields DEF Keeps
  <2>2. CASE n # 0
    <3> DEFINE e == WithToken(q, n, n)  f == [e EXCEPT !.shared = W # {}]
    <3>1. req'[q] = f /\ q \in Requests
      BY <1>1, <1>3, <2>2
    <3>2. /\ Fine(e, Current) /\ Keeps(e, q) /\ e.cookies = n /\ e.pc \in {"asking", "answered"}
          /\ e.pc = "asking" <=> FetchInfo
          /\ e.auth <=> e.pc = "answered"
      BY <1>5, <3>1, TokenFields
    <3> HIDE DEF e
    <3>3. (W # {}) \in BOOLEAN
      OBVIOUS
    <3>4. /\ f \in Request /\ f.shared = (W # {}) /\ f.sent = e.sent /\ f.late = e.late
          /\ f.cookies = e.cookies /\ f.pc = e.pc /\ f.auth = e.auth /\ f.token = e.token
          /\ f.reply = e.reply
      BY <3>2, <3>3 DEF Request, Fine
    <3> HIDE DEF f
    <3>5. Fine(f, Current)
      BY <3>2, <3>4 DEF Fine
    <3>6. QED  BY <2>2, <3>1, <3>2, <3>4, <3>5 DEF Keeps
  <2>3. QED  BY <2>1, <2>2
<1>7. req' \in [Requests -> Request]
  <2>1. \A q \in Requests : req'[q] \in Request
    BY <1>1, <1>4, <1>6 DEF Fine
  <2>2. QED  BY <1>3, <2>1
<1>8. QED  BY <1>1, <1>2, <1>4, <1>6, <1>7

LEMMA OverrunMoves ==
  ASSUME Basics, NEW r \in Requests, Overrun(r)
  PROVE  LET W == Waiting(r, "joining") IN
         /\ req' \in [Requests -> Request] /\ \A q \in Requests \ W : req'[q] = req[q]
         /\ \A q \in W : /\ q \in Requests /\ req[q].pc = "joining"
                         /\ Fine(req'[q], Current) /\ Keeps(req'[q], q) /\ req'[q].pc = "answered"
                         /\ ~req'[q].auth /\ req'[q].cookies = req[q].cookies
<1> DEFINE W == Waiting(r, "joining")
<1>1. req' = [q \in Requests |-> IF q \in W THEN Answered(q, FALSE) ELSE req[q]]
  BY DEF Overrun
<1>2. W \subseteq Requests /\ \A q \in W : req[q].pc = "joining"
  BY DEF Waiting
<1>3. \A q \in Requests \ W : req'[q] = req[q] /\ req[q] \in Request
  BY <1>1 DEF Basics
<1>4. \A q \in W : req'[q] = Answered(q, FALSE)
  BY <1>1, <1>2
<1>5. \A q \in W : /\ Fine(req'[q], Current) /\ Keeps(req'[q], q) /\ req'[q].pc = "answered"
                   /\ ~req'[q].auth /\ req'[q].cookies = req[q].cookies
  BY <1>2, <1>4, RefusalFields
<1>6. req' \in [Requests -> Request]
  <2>1. \A q \in Requests : req'[q] \in Request
    BY <1>3, <1>5 DEF Fine
  <2>2. QED  BY <1>1, <2>1
<1>7. QED  BY <1>2, <1>3, <1>5, <1>6

LEMMA GetUserInfoMoves ==
  ASSUME Basics, NEW r \in Requests, GetUserInfo(r)
  PROVE  LET f == req'[r] IN
         /\ Alone(r) /\ Fine(f, Current) /\ Keeps(f, r) /\ req[r].pc = "asking"
         /\ f.cookies = req[r].cookies
         /\ \/ f.pc = "answered" /\ f.auth /\ InfoLive /\ f.tainted = info.tainted /\ ilock' = ilock
            \/ f.pc = "awaiting" /\ ~f.auth /\ ilock' = ilock
            \/ f.pc = "fetching" /\ ~f.auth /\ ilock' = r
<1>1. Fine(req[r], Current) /\ ~req[r].auth /\ req[r].pc = "asking" /\ info.tainted \in BOOLEAN
      /\ ilock \in Requests \cup {None}
  BY DEF Basics, Fine, GetUserInfo
<1>2. CASE InfoLive /\ req' = [req EXCEPT ![r] = WithInfo(r, TRUE, info.tainted)] /\ UNCHANGED ilock
  <2> DEFINE f == [req[r] EXCEPT !.pc = "answered", !.auth = TRUE, !.tainted = info.tainted]
  <2>1. req' = [req EXCEPT ![r] = f]
    BY <1>2 DEF WithInfo, Answered
  <2>2. /\ f \in Request /\ f.pc = "answered" /\ f.auth /\ f.tainted = info.tainted /\ Keeps(f, r)
        /\ f.token = req[r].token /\ f.cookies = req[r].cookies /\ f.reply = req[r].reply
    BY <1>1 DEF Request, Phases, Fine, Keeps
  <2> HIDE DEF f
  <2>3. Fine(f, Current)
    BY <1>1, <2>2 DEF Fine, Keeps, Early
  <2>4. Alone(r) /\ req'[r] = f
    BY <2>1, <2>2, OneRequest
  <2>5. QED  BY <1>1, <1>2, <2>2, <2>3, <2>4
<1>3. CASE req' = [req EXCEPT ![r].pc = "awaiting", ![r].on = ilock] /\ UNCHANGED ilock
  <2> DEFINE f == [req[r] EXCEPT !.pc = "awaiting", !.on = ilock]
  <2>1. req' = [req EXCEPT ![r] = f]
    BY <1>3
  <2>2. /\ f \in Request /\ f.pc = "awaiting" /\ ~f.auth /\ Keeps(f, r)
        /\ f.token = req[r].token /\ f.cookies = req[r].cookies /\ f.reply = req[r].reply
    BY <1>1 DEF Request, Phases, Fine, Keeps
  <2> HIDE DEF f
  <2>3. Fine(f, Current)
    BY <1>1, <2>2 DEF Fine, Keeps, Early
  <2>4. Alone(r) /\ req'[r] = f
    BY <2>1, <2>2, OneRequest
  <2>5. QED  BY <1>1, <1>3, <2>2, <2>3, <2>4
<1>4. CASE req' = [req EXCEPT ![r].pc = "fetching", ![r].tainted = FALSE] /\ ilock' = r
  <2> DEFINE f == [req[r] EXCEPT !.pc = "fetching", !.tainted = FALSE]
  <2>1. req' = [req EXCEPT ![r] = f]
    BY <1>4
  <2>2. /\ f \in Request /\ f.pc = "fetching" /\ ~f.auth /\ Keeps(f, r)
        /\ f.token = req[r].token /\ f.cookies = req[r].cookies /\ f.reply = req[r].reply
    BY <1>1 DEF Request, Phases, Fine, Keeps
  <2> HIDE DEF f
  <2>3. Fine(f, Current)
    BY <1>1, <2>2 DEF Fine, Keeps, Early
  <2>4. Alone(r) /\ req'[r] = f
    BY <2>1, <2>2, OneRequest
  <2>5. QED  BY <1>1, <1>4, <2>2, <2>3, <2>4
<1>5. QED  BY <1>2, <1>3, <1>4 DEF GetUserInfo

(* The request whose fetch ended, and those that waited for it. *)
Sharing(r) == {r} \cup Waiting(r, "awaiting")

LEMMA FetchedMoves ==
  ASSUME Basics, NEW r \in Requests, Fetched(r)
  PROVE  LET A == Sharing(r)  ok == req[r].reply = 1 IN
         /\ req' \in [Requests -> Request] /\ \A q \in Requests \ A : req'[q] = req[q]
         /\ r \in A /\ A \subseteq Requests
         /\ \A q \in A : req[q].pc \in {"fetched", "awaiting"}
         /\ \A q \in A : LET f == req'[q] IN
              /\ Fine(f, Current) /\ Keeps(f, q) /\ f.pc \in {"answered", "checking"}
              /\ ok => f.auth /\ f.tainted = req[r].tainted
              /\ ~ok => ~f.auth /\ (f.expired \/ AccessOK(req[r].token))
              /\ f.cookies # req[q].cookies => f.cookies = 0 /\ req[q].cookies \in dropped'
         /\ dropped \subseteq dropped' /\ dropped' \subseteq 1..Current
<1> DEFINE ok == req[r].reply = 1
           A == Sharing(r)
           late == ~ok /\ ~AccessOK(req[r].token)
           rec(q) == [WithInfo(q, ok, req[r].tainted) EXCEPT !.expired = req[q].expired \/ late]
<1>1. r \in A /\ A \subseteq Requests /\ \A q \in A : req[q].pc \in {"fetched", "awaiting"}
  BY DEF Sharing, Waiting, Fetched
<1>2. \A q \in Requests : Fine(req[q], Current) /\ Current \in Nat
  BY DEF Basics
<1>3. /\ dropped \subseteq dropped' /\ dropped' \subseteq 1..Current
      /\ \A q \in A : LosesCookies(q, ok) => req[q].cookies \in dropped'
  <2> DEFINE L == {req[q].cookies : q \in {p \in A : LosesCookies(p, ok)}} \ {0}
  <2>1. dropped' = dropped \cup L
    BY DEF Fetched, Drop, Sharing
  <2>2. \A q \in A : req[q].cookies \in 0..Current
    BY <1>1, <1>2 DEF Fine
  <2>3. \A q \in A : LosesCookies(q, ok) => req[q].cookies # 0
    BY DEF LosesCookies
  <2>4. dropped \subseteq 1..Current /\ Current \in Nat
    BY DEF Basics
  <2>5. L \subseteq 1..Current
    BY <2>2, <2>4
  <2>6. \A q \in A : LosesCookies(q, ok) => req[q].cookies \in L
    BY <2>3
  <2> HIDE DEF L
  <2>7. QED  BY <2>1, <2>4, <2>5, <2>6
<1>4. \A q \in Requests : WithInfo(q, ok, req[r].tainted).expired = req[q].expired
  BY <1>2 DEF WithInfo, Answered, Fine, Request
<1>5. req' = [q \in Requests |-> IF q \in A THEN rec(q) ELSE req[q]]
  BY <1>1, <1>4 DEF Fetched, Sharing
<1>6. \A q \in Requests \ A : req'[q] = req[q] /\ req'[q] \in Request
  BY <1>2, <1>5 DEF Fine
<1>7. ASSUME NEW q \in A
      PROVE  LET f == req'[q] IN
             /\ Fine(f, Current) /\ Keeps(f, q) /\ f.pc \in {"answered", "checking"}
             /\ ok => f.auth /\ f.tainted = req[r].tainted
             /\ ~ok => ~f.auth /\ (f.expired \/ AccessOK(req[r].token))
             /\ f.cookies # req[q].cookies => f.cookies = 0 /\ req[q].cookies \in dropped'
  <2> DEFINE e == WithInfo(q, ok, req[r].tainted)  f == [e EXCEPT !.expired = req[q].expired \/ late]
  <2>1. q \in Requests /\ Fine(req[q], Current) /\ ~req[q].auth /\ req[r].tainted \in BOOLEAN
        /\ req[q].pc \notin Early
    BY <1>1, <1>2 DEF Fine, Request, Early
  <2>2. /\ e \in Request /\ Keeps(e, q) /\ e.pc \in {"answered", "checking"}
        /\ ok => e.auth /\ e.pc = "answered" /\ e.tainted = req[r].tainted
        /\ ~ok => ~e.auth
        /\ e.reply = req[q].reply /\ e.token \in {0, req[q].token}
        /\ e.cookies # req[q].cookies => e.cookies = 0 /\ LosesCookies(q, ok)
        /\ e.pc = "checking" => e.cookies = 0
    <3>1. CASE ok
      <4>1. e = [req[q] EXCEPT !.pc = "answered", !.auth = TRUE, !.tainted = req[r].tainted]
        BY <3>1 DEF WithInfo, Answered
      <4>2. QED  BY <2>1, <3>1, <4>1 DEF Fine, Request, Phases, Keeps
    <3>2. CASE ~ok /\ req[q].loop = 1
      <4>1. e = [req[q] EXCEPT !.pc = "answered", !.auth = FALSE]
        BY <3>2 DEF WithInfo, Answered
      <4>2. QED  BY <2>1, <3>2, <4>1 DEF Fine, Request, Phases, Keeps
    <3>3. CASE ~ok /\ req[q].loop # 1
      <4>1. e = [req[q] EXCEPT !.pc = "checking", !.loop = 1, !.token = 0, !.cookies = 0]
        BY <3>3 DEF WithInfo
      <4>2. req[q].loop = 0
        BY <2>1, <3>3 DEF Fine, Request
      <4>3. /\ e \in Request /\ Keeps(e, q) /\ e.pc = "checking" /\ ~e.auth /\ e.cookies = 0
            /\ e.reply = req[q].reply /\ e.token = 0
        <5> DEFINE h == [req[q] EXCEPT !.pc = "checking", !.loop = 1, !.token = 0, !.cookies = 0]
        <5>1. req[q] \in Request /\ ~req[q].auth
          BY <2>1 DEF Fine
        <5>2. h \in Request
          BY <5>1 DEF Request, Phases
        <5>3. Keeps(h, q) /\ h.pc = "checking" /\ ~h.auth /\ h.cookies = 0 /\ h.reply = req[q].reply
              /\ h.token = 0
          BY <5>1 DEF Request, Keeps
        <5>4. QED  BY <4>1, <5>2, <5>3
      <4>4. req[q].cookies # 0 => LosesCookies(q, ok)
        BY <3>3, <4>2 DEF LosesCookies
      <4>5. QED  BY <3>3, <4>3, <4>4
    <3>4. QED  BY <3>1, <3>2, <3>3
  <2> HIDE DEF e
  <2>3. (req[q].expired \/ late) \in BOOLEAN
    OBVIOUS
  <2>4. /\ f \in Request /\ f.sent = e.sent /\ f.shared = e.shared /\ f.late = e.late
        /\ f.pc = e.pc /\ f.auth = e.auth /\ f.tainted = e.tainted /\ f.cookies = e.cookies
        /\ f.reply = e.reply /\ f.token = e.token /\ f.expired = (req[q].expired \/ late)
    BY <2>2, <2>3 DEF Request
  <2> HIDE DEF f
  <2>5. req'[q] = f
    BY <1>5, <2>1 DEF e, f
  <2>6. Fine(f, Current)
    <3>1. Current \in Nat
      BY <1>2
    <3>2. /\ f.cookies \in 0..Current /\ f.reply \in 0..Current /\ f.token \in 0..Current
          /\ f.sent \in 0..Current
      BY <2>1, <2>2, <2>4, <3>1 DEF Fine, Keeps
    <3>3. f.pc \in Early => f.cookies = 0
      BY <2>2, <2>4 DEF Early
    <3>4. f.auth => f.pc = "answered"
      BY <2>2, <2>4
    <3>5. f.pc # "fetched"
      BY <2>2, <2>4
    <3>6. QED  BY <2>4, <3>2, <3>3, <3>4, <3>5 DEF Fine
  <2>7. f.cookies # req[q].cookies => f.cookies = 0 /\ req[q].cookies \in dropped'
    BY <1>3, <2>2, <2>4
  <2>8. ~ok => ~f.auth /\ (f.expired \/ AccessOK(req[r].token))
    BY <2>2, <2>4
  <2>9. QED  BY <2>2, <2>4, <2>5, <2>6, <2>7, <2>8 DEF Keeps
<1>8. req' \in [Requests -> Request]
  <2>1. \A q \in Requests : req'[q] \in Request
    BY <1>6, <1>7 DEF Fine
  <2>2. QED  BY <1>5, <2>1
<1>9. QED  BY <1>1, <1>3, <1>6, <1>7, <1>8

LEMMA DoneMoves ==
  ASSUME Basics, NEW r \in Requests, req' = [req EXCEPT ![r] = [NoRequest EXCEPT !.pc = "done"]]
  PROVE  LET f == req'[r] IN
         /\ Alone(r) /\ Fine(f, Current) /\ f.pc = "done" /\ f.sent = 0 /\ f.cookies = 0
         /\ ~f.auth /\ ~f.late
<1> DEFINE f == [NoRequest EXCEPT !.pc = "done"]
<1>1. /\ f \in Request /\ f.pc = "done" /\ f.sent = 0 /\ f.cookies = 0 /\ ~f.auth /\ ~f.late
      /\ f.token = 0 /\ f.reply = 0
  BY NewRequest DEF NoRequest, Request, Phases
<1> HIDE DEF f
<1>2. Alone(r) /\ req'[r] = f
  BY <1>1, OneRequest DEF f
<1>3. Fine(f, Current)
  BY <1>1 DEF Fine, Basics
<1>4. QED  BY <1>1, <1>2, <1>3

LEMMA LogoutMoves ==
  ASSUME Basics, HandleBackChannelLogout
  PROVE  /\ req' \in [Requests -> Request]
         /\ \A q \in Requests : LET f == req'[q] IN
              /\ Fine(f, Current) /\ Keeps(f, q) /\ f.pc = req[q].pc /\ f.auth = req[q].auth
              /\ f.cookies = req[q].cookies /\ f.reply = req[q].reply /\ f.on = req[q].on
              /\ f.token = req[q].token /\ f.expired = req[q].expired
              /\ req[q].tainted \/ req[q].pc = "fetched" => f.tainted
<1>1. ASSUME NEW q \in Requests
      PROVE  LET f == req'[q] IN
             /\ Fine(f, Current) /\ Keeps(f, q) /\ f.pc = req[q].pc /\ f.auth = req[q].auth
             /\ f.cookies = req[q].cookies /\ f.reply = req[q].reply /\ f.on = req[q].on
             /\ f.token = req[q].token /\ f.expired = req[q].expired
             /\ req[q].tainted \/ req[q].pc = "fetched" => f.tainted
  <2>1. Fine(req[q], Current)
    BY DEF Basics
  <2>2. CASE req[q].pc \in {"fetching", "fetched"}
    <3> DEFINE f == [req[q] EXCEPT !.tainted = TRUE]
    <3>1. req'[q] = f
      BY <2>2 DEF HandleBackChannelLogout
    <3>2. /\ f \in Request /\ Keeps(f, q) /\ f.pc = req[q].pc /\ f.auth = req[q].auth
          /\ f.cookies = req[q].cookies /\ f.reply = req[q].reply /\ f.token = req[q].token
          /\ f.expired = req[q].expired /\ f.tainted /\ f.on = req[q].on
      BY <2>1 DEF Fine, Request, Keeps
    <3> HIDE DEF f
    <3>3. QED  BY <2>1, <3>1, <3>2 DEF Fine, Keeps
  <2>3. CASE req[q].pc \notin {"fetching", "fetched"}
    <3>1. req'[q] = req[q]
      BY <2>3 DEF HandleBackChannelLogout
    <3>2. QED  BY <2>1, <2>3, <3>1 DEF Keeps
  <2>4. QED  BY <2>2, <2>3
<1>2. req' \in [Requests -> Request]
  <2>1. \A q \in Requests : req'[q] \in Request
    BY <1>1 DEF Fine
  <2>2. QED  BY <2>1 DEF HandleBackChannelLogout
<1>3. QED  BY <1>1, <1>2
LEMMA AloneFine ==
  ASSUME Basics, NEW r \in Requests, Alone(r), Fine(req'[r], Current)
  PROVE  req' \in [Requests -> Request] /\ \A q \in Requests : Fine(req'[q], Current)
BY DEF Alone, Basics

-----------------------------------------------------------------------------
(* Types, and the numbers of the token sets. *)
LEMMA Settled ==
  ASSUME Basics, req' \in [Requests -> Request], \A q \in Requests : Fine(req'[q], Current),
         issued' = issued, now' \in 0..MaxTime, now <= now', faults' \in 0..MaxFaults,
         session' \in {"live", "over"}, told' \in BOOLEAN, jar' \in 1..Current,
         tlock' \in [Sets -> Requests \cup {None}], tcache' = tcache,
         ilock' \in Requests \cup {None}, info' \in [till : Nat, tainted : BOOLEAN],
         info'.till <= MaxTime + AccessLife, dropped' \subseteq 1..Current
  PROVE  Basics'
<1>1. Current' = Current
  BY DEF Current
<1>2. \A i \in 1..Current : issued[i] <= now'
  <2>1. MaxTime \in Nat /\ Current \in Nat
    BY UserDataAssumption DEF Basics
  <2>2. \A i \in 1..Current : issued[i] \in 0..MaxTime
    BY ElementOfSeq DEF Basics, Current
  <2>3. QED  BY <2>1, <2>2 DEF Basics
<1>3. QED  BY <1>1, <1>2 DEF Basics

LEMMA BasicsStep ==
  ASSUME Basics, Numbered, [Next]_vars
  PROVE  Basics'
<1>1. /\ MaxTime \in Nat /\ MaxFaults \in Nat /\ now \in Nat /\ faults \in Nat /\ AccessLife \in Nat
      /\ Current \in Nat /\ now \in 0..MaxTime /\ faults \in 0..MaxFaults /\ Sets \subseteq Nat
  BY Numbers, UserDataAssumption DEF Basics
<1>2. /\ session \in {"live", "over"} /\ told \in BOOLEAN /\ jar \in 1..Current
      /\ tlock \in [Sets -> Requests \cup {None}] /\ ilock \in Requests \cup {None}
      /\ info \in [till : Nat, tainted : BOOLEAN] /\ info.till <= MaxTime + AccessLife
      /\ NoInfo \in [till : Nat, tainted : BOOLEAN] /\ NoInfo.till <= MaxTime + AccessLife
      /\ dropped \subseteq 1..Current /\ now <= now
      /\ req \in [Requests -> Request] /\ \A q \in Requests : Fine(req[q], Current)
  BY <1>1 DEF Basics, NoInfo
<1>3. ASSUME NEW r \in Requests, Send(r)  PROVE Basics'
  <2>1. Alone(r) /\ Fine(req'[r], Current)
    BY <1>3, SendMoves
  <2>2. QED  BY <1>1, <1>2, <1>3, <2>1, AloneFine, Settled DEF Send
<1>4. ASSUME NEW r \in Requests, Receive(r)  PROVE Basics'
  <2>1. Alone(r) /\ Fine(req'[r], Current)
    BY <1>4, ReceiveMoves
  <2>2. QED  BY <1>1, <1>2, <1>4, <2>1, AloneFine, Settled DEF Receive
<1>5. ASSUME NEW r \in Requests, NEW ok \in BOOLEAN, req[r].pc \in {"checking", "introspecting"},
             PopulateTokens(r, ok)
      PROVE  Alone(r) /\ Fine(req'[r], Current) /\ tlock' \in [Sets -> Requests \cup {None}]
  <2>1. Alone(r) /\ Fine(req'[r], Current)
    BY <1>5, PopulateFields
  <2>2. tlock' = tlock \/ \E g \in Sets : tlock' = [tlock EXCEPT ![g] = r]
    BY <1>5, PopulateFields
  <2>3. QED  BY <1>2, <2>1, <2>2
<1>6. ASSUME NEW r \in Requests, CheckAccess(r)  PROVE Basics'
  <2>1. Alone(r) /\ Fine(req'[r], Current) /\ tlock' \in [Sets -> Requests \cup {None}]
    <3>1. CASE req' = [req EXCEPT ![r].pc = "introspecting"] /\ UNCHANGED tlock
      BY <1>2, <1>6, <3>1, AskMoves DEF CheckAccess
    <3>2. CASE PopulateTokens(r, AccessOK(req[r].sent))
      BY <1>5, <1>6, <3>2 DEF CheckAccess, AccessOK
    <3>3. QED  BY <1>6, <3>1, <3>2 DEF CheckAccess
  <2>2. QED  BY <1>1, <1>2, <1>6, <2>1, AloneFine, Settled DEF CheckAccess
<1>7. ASSUME NEW r \in Requests, Introspect(r)  PROVE Basics'
  <2>1. PICK failed \in BOOLEAN :
          /\ failed => faults < MaxFaults
          /\ faults' = IF failed THEN faults + 1 ELSE faults
          /\ PopulateTokens(r, ~failed /\ session = "live" /\ AccessOK(req[r].sent))
    BY <1>7 DEF Introspect
  <2>2. Alone(r) /\ Fine(req'[r], Current) /\ tlock' \in [Sets -> Requests \cup {None}]
    BY <1>5, <1>7, <2>1 DEF Introspect
  <2>3. faults' \in 0..MaxFaults
    BY <1>1, <2>1
  <2>4. QED  BY <1>1, <1>2, <1>7, <2>2, <2>3, AloneFine, Settled DEF Introspect
<1>8. ASSUME issued' = issued \/ issued' = Append(issued, now), req' \in [Requests -> Request],
             \A q \in Requests : Fine(req'[q], Current'), now' = now, faults' \in 0..MaxFaults,
             UNCHANGED <<session, told, jar, tcache, tlock, info, ilock>>,
             dropped' \subseteq 1..Current'
      PROVE  Basics'
  <2>1. /\ issued' \in Seq(0..MaxTime) /\ Current' \in Nat /\ Current <= Current'
        /\ \A i \in 1..Current' : issued'[i] <= now
    <3>1. CASE issued' = issued
      BY <3>1, <1>1 DEF Basics, Current
    <3>2. CASE issued' = Append(issued, now)
      <4>1. \A i \in 1..Current' : i \in 1..Current \/ i = Current + 1
        BY <3>2, Issues, <1>1
      <4>2. \A i \in 1..Current : issued'[i] <= now
        BY <3>2, Issues DEF Basics
      <4>3. issued'[Current + 1] = now
        BY <3>2, Issues
      <4>4. issued' \in Seq(0..MaxTime) /\ Current' = Current + 1
        BY <3>2, Issues
      <4>5. QED  BY <1>1, <1>2, <4>1, <4>2, <4>3, <4>4
    <3>3. QED  BY <1>8, <3>1, <3>2
  <2>2. \A g \in Sets : tcache[g].set <= Current' /\ jar \in 1..Current'
    <3>1. \A g \in Sets : tcache[g].set \in Nat /\ tcache[g].set <= Current
      BY DEF Basics
    <3>2. QED  BY <1>1, <1>2, <2>1, <3>1
  <2>3. jar \in 1..Current'
    BY <1>1, <1>2, <2>1
  <2>4. QED  BY <1>1, <1>2, <1>8, <2>1, <2>2, <2>3 DEF Basics
<1>9. ASSUME NEW r \in Requests, NEW n \in Nat, Current <= Current', Current' \in Nat, n <= Current',
             req[r].pc = "refreshing", req' = [req EXCEPT ![r].pc = "granted", ![r].reply = n]
      PROVE  req' \in [Requests -> Request] /\ \A q \in Requests : Fine(req'[q], Current')
  <2>1. Alone(r) /\ Fine(req'[r], Current') /\ ~req[r].auth
    BY <1>2, <1>9, ReplyMoves DEF Fine
  <2>2. \A q \in Requests : Fine(req[q], Current')
    BY <1>1, <1>2, <1>9 DEF Fine
  <2>3. QED  BY <2>1, <2>2 DEF Alone
<1>10. ASSUME NEW r \in Requests, Grant(r)  PROVE Basics'
  <2>1. CASE Grantable(r)
    <3>1. issued' = Append(issued, now) /\ Current' = Current + 1 /\ Current <= Current' /\ Current' \in Nat
      BY <1>1, <1>10, <2>1, Issues DEF Grant
    <3>2. req' = [req EXCEPT ![r].pc = "granted", ![r].reply = Current + 1] /\ req[r].pc = "refreshing"
      BY <1>10, <2>1 DEF Grant
    <3> DEFINE n == Current + 1
    <3>n. n \in Nat /\ n <= Current' /\ req' = [req EXCEPT ![r].pc = "granted", ![r].reply = n]
      BY <1>1, <3>1, <3>2
    <3> HIDE DEF n
    <3>3. req' \in [Requests -> Request] /\ \A q \in Requests : Fine(req'[q], Current')
      BY <1>9, <3>1, <3>2, <3>n
    <3>4. dropped' \subseteq 1..Current'
      BY <1>1, <1>2, <1>10, <3>1 DEF Grant
    <3>5. QED  BY <1>1, <1>8, <1>10, <3>1, <3>3, <3>4 DEF Grant
  <2>2. CASE ~Grantable(r)
    <3>1. issued' = issued /\ Current' = Current
      BY <1>10, <2>2 DEF Grant, Current
    <3>2. req' = [req EXCEPT ![r].pc = "granted", ![r].reply = 0] /\ req[r].pc = "refreshing"
      BY <1>10, <2>2 DEF Grant
    <3> DEFINE n == 0
    <3>n. n \in Nat /\ Current \in Nat /\ Current <= Current /\ n <= Current
          /\ req' = [req EXCEPT ![r].pc = "granted", ![r].reply = n]
      BY <1>1, <3>2
    <3> HIDE DEF n
    <3>3. req' \in [Requests -> Request] /\ \A q \in Requests : Fine(req'[q], Current')
      BY <1>9, <3>1, <3>2, <3>n
    <3>4. QED  BY <1>1, <1>2, <1>8, <1>10, <3>1, <3>3 DEF Grant
  <2>3. QED  BY <2>1, <2>2
<1>11. ASSUME NEW r \in Requests, GrantFails(r)  PROVE Basics'
  <2>1. /\ req' = [req EXCEPT ![r].pc = "granted", ![r].reply = 0] /\ req[r].pc = "refreshing"
        /\ faults' \in 0..MaxFaults
    BY <1>1, <1>11 DEF GrantFails
  <2>n. ASSUME Current' \in Nat, Current <= Current'
        PROVE  req' \in [Requests -> Request] /\ \A q \in Requests : Fine(req'[q], Current')
    <3> DEFINE n == 0
    <3>1. n \in Nat /\ n <= Current' /\ req' = [req EXCEPT ![r].pc = "granted", ![r].reply = n]
      BY <2>1, <2>n
    <3> HIDE DEF n
    <3>2. QED  BY <1>9, <2>1, <2>n, <3>1
  <2>2. CASE UNCHANGED <<issued, dropped>>
    <3>1. Current' = Current
      BY <2>2 DEF Current
    <3>2. req' \in [Requests -> Request] /\ \A q \in Requests : Fine(req'[q], Current')
      BY <1>1, <2>n, <3>1
    <3>3. dropped' \subseteq 1..Current'
      BY <1>2, <2>2, <3>1
    <3>4. QED  BY <1>8, <1>11, <2>1, <2>2, <3>2, <3>3 DEF GrantFails
  <2>3. CASE Grantable(r) /\ issued' = Append(issued, now) /\ Drop({Current + 1})
    <3>1. Current' = Current + 1 /\ Current <= Current' /\ Current' \in Nat
      BY <1>1, <2>3, Issues
    <3>2. dropped' \subseteq 1..Current'
      BY <1>1, <1>2, <2>3, <3>1 DEF Drop
    <3>3. req' \in [Requests -> Request] /\ \A q \in Requests : Fine(req'[q], Current')
      BY <2>n, <3>1
    <3>4. QED  BY <1>8, <1>11, <2>1, <2>3, <3>2, <3>3 DEF GrantFails
  <2>4. QED  BY <1>11, <2>2, <2>3 DEF GrantFails
<1>12. ASSUME NEW r \in Requests, Granted(r)  PROVE Basics'
  <2> DEFINE g == req[r].sent  n == req[r].reply
  <2>1. /\ req' \in [Requests -> Request] /\ \A q \in Requests : Fine(req'[q], Current)
    BY <1>2, <1>12, GrantedMoves
  <2>2. tlock' \in [Sets -> Requests \cup {None}]
    BY <1>2, <1>12 DEF Granted
  <2>3. n \in Nat /\ n <= Current
    BY <1>1, <1>2 DEF Fine
  <2>4. /\ tcache' \in [Sets -> [set : Nat, at : Nat]]
        /\ \A h \in Sets : tcache'[h].set <= Current
    <3>1. tcache \in [Sets -> [set : Nat, at : Nat]] /\ \A h \in Sets : tcache[h].set <= Current
      BY DEF Basics
    <3>2. CASE tcache' = tcache
      BY <3>1, <3>2
    <3>3. CASE tcache' = [tcache EXCEPT ![g] = [set |-> n, at |-> now]]
      BY <1>1, <2>3, <3>1, <3>3
    <3>4. QED  BY <1>12, <3>2, <3>3 DEF Granted
  <2>5. Current' = Current /\ issued' = issued /\ now' = now /\ faults' = faults
    BY <1>12 DEF Granted, Current
  <2>6. UNCHANGED <<now, session, told, issued, jar, info, ilock, dropped, faults>>
    BY <1>12 DEF Granted
  <2>7. \A i \in 1..Current' : issued'[i] <= now'
    BY <2>5 DEF Basics
  <2>8. issued' \in Seq(0..MaxTime) /\ Current' \in Nat
    BY <1>1, <2>5 DEF Basics
  <2>9. QED  BY <1>1, <1>2, <2>1, <2>2, <2>4, <2>5, <2>6, <2>7, <2>8 DEF Basics
<1>13. ASSUME NEW r \in Requests, Overrun(r)  PROVE Basics'
  <2>1. req' \in [Requests -> Request] /\ \A q \in Requests : Fine(req'[q], Current)
    BY <1>2, <1>13, OverrunMoves
  <2>2. tlock' \in [Sets -> Requests \cup {None}] /\ faults' \in 0..MaxFaults
    <3>1. tlock' = [tlock EXCEPT ![req[r].sent] = None]
      BY <1>13 DEF Overrun
    <3>2. faults' = faults + 1 /\ faults < MaxFaults
      BY <1>13 DEF Overrun
    <3>3. faults' \in 0..MaxFaults
      BY <1>1, <3>2
    <3>4. QED  BY <1>2, <3>1, <3>3
  <2>3. QED  BY <1>1, <1>2, <1>13, <2>1, <2>2, Settled DEF Overrun
<1>14. ASSUME NEW r \in Requests, GetUserInfo(r)  PROVE Basics'
  <2>1. Alone(r) /\ Fine(req'[r], Current) /\ ilock' \in Requests \cup {None}
    BY <1>2, <1>14, GetUserInfoMoves
  <2>2. info' \in [till : Nat, tainted : BOOLEAN] /\ info'.till <= MaxTime + AccessLife
    BY <1>2, <1>14 DEF GetUserInfo
  <2>3. QED  BY <1>1, <1>2, <1>14, <2>1, <2>2, AloneFine, Settled DEF GetUserInfo
<1>15. ASSUME NEW r \in Requests, FetchUserInfo(r)  PROVE Basics'
  <2>1. PICK failed \in BOOLEAN :
          /\ failed => faults < MaxFaults
          /\ faults' = IF failed THEN faults + 1 ELSE faults
          /\ req' = [req EXCEPT ![r].pc = "fetched",
               ![r].reply = IF ~failed /\ session = "live" /\ AccessOK(req[r].token) THEN 1 ELSE 0]
    BY <1>15 DEF FetchUserInfo
  <2> DEFINE n == IF ~failed /\ session = "live" /\ AccessOK(req[r].token) THEN 1 ELSE 0
  <2>2. req' = [req EXCEPT ![r].pc = "fetched", ![r].reply = n]
    BY <2>1
  <2>t. n = 1 => req[r].token # 0
    BY DEF AccessOK
  <2>m. n \in {0, 1}
    OBVIOUS
  <2> HIDE DEF n
  <2>3. faults' \in 0..MaxFaults /\ n \in Nat /\ n <= Current
    BY <1>1, <1>2, <2>1, <2>m
  <2>p. ~req[r].auth /\ Current <= Current
    BY <1>1, <1>2, <1>15 DEF Fine, FetchUserInfo
  <2>4. Alone(r) /\ Fine(req'[r], Current)
    BY <1>1, <2>2, <2>3, <2>p, <2>t, ReplyMoves
  <2>5. QED  BY <1>1, <1>2, <1>15, <2>3, <2>4, AloneFine, Settled DEF FetchUserInfo
<1>16. ASSUME NEW r \in Requests, Fetched(r)  PROVE Basics'
  <2>1. req' \in [Requests -> Request] /\ \A q \in Requests : Fine(req'[q], Current)
    BY <1>2, <1>16, FetchedMoves
  <2>2. dropped' \subseteq 1..Current
    BY <1>16, FetchedMoves
  <2>3. info' \in [till : Nat, tainted : BOOLEAN] /\ info'.till <= MaxTime + AccessLife
    <3>1. CASE req[r].reply = 1
      <4>1. info' = [till |-> Expires(req[r].token), tainted |-> req[r].tainted]
        BY <1>16, <3>1 DEF Fetched
      <4>2. req[r].tainted \in BOOLEAN /\ req[r].token \in 1..Current
        BY <1>1, <1>2, <1>16, <3>1 DEF Fine, Request, Fetched
      <4>3. issued[req[r].token] \in 0..MaxTime
        BY <4>2, Numbers
      <4>4. Expires(req[r].token) \in Nat /\ Expires(req[r].token) <= MaxTime + AccessLife
        BY <1>1, <4>3 DEF Expires
      <4>5. QED  BY <4>1, <4>2, <4>4
    <3>2. CASE req[r].reply # 1
      BY <1>2, <1>16, <3>2 DEF Fetched
    <3>3. QED  BY <3>1, <3>2
  <2>4. QED  BY <1>1, <1>2, <1>16, <2>1, <2>2, <2>3, Settled DEF Fetched
<1>17. ASSUME NEW r \in Requests, Deliver(r)  PROVE Basics'
  <2>1. Alone(r) /\ Fine(req'[r], Current)
    BY <1>17, DoneMoves DEF Deliver
  <2>2. jar' \in 1..Current
    BY <1>1, <1>2, <1>17 DEF Deliver, Fine
  <2>3. dropped' \subseteq 1..Current
    BY <1>1, <1>2, <1>17 DEF Deliver, Drop
  <2>4. QED  BY <1>1, <1>2, <1>17, <2>1, <2>2, <2>3, AloneFine, Settled DEF Deliver
<1>18. ASSUME NEW r \in Requests, LoseResponse(r)  PROVE Basics'
  <2>1. Alone(r) /\ Fine(req'[r], Current)
    BY <1>18, DoneMoves DEF LoseResponse
  <2>2. dropped' \subseteq 1..Current /\ faults' \in 0..MaxFaults
    BY <1>1, <1>2, <1>18 DEF LoseResponse, Drop, Fine
  <2>3. QED  BY <1>1, <1>2, <1>18, <2>1, <2>2, AloneFine, Settled DEF LoseResponse
<1>19. CASE EndSession
  BY <1>1, <1>2, <1>19, Settled DEF EndSession
<1>20. CASE HandleBackChannelLogout
  BY <1>1, <1>2, <1>20, LogoutMoves, Settled DEF HandleBackChannelLogout
<1>21. CASE Tick
  <2>1. now' \in 0..MaxTime /\ now <= now'
    BY <1>1, <1>21 DEF Tick
  <2>2. QED  BY <1>1, <1>2, <1>21, <2>1, Settled DEF Tick
<1>22. CASE UNCHANGED vars
  BY <1>1, <1>2, <1>22, Settled DEF vars
<1>23. QED
  BY <1>3, <1>4, <1>6, <1>7, <1>10, <1>11, <1>12, <1>13, <1>14, <1>15, <1>16, <1>17, <1>18,
     <1>19, <1>20, <1>21, <1>22 DEF Next, Step
-----------------------------------------------------------------------------
(* The judged token, the grant and the fetch, as the rest reads them. *)
LEMMA JudgeMoves ==
  ASSUME Basics, Numbered, NEW r \in Requests, CheckAccess(r) \/ Introspect(r)
  PROVE  LET f == req'[r]  g == req[r].sent IN
         /\ Alone(r) /\ Fine(f, Current) /\ Keeps(f, r) /\ f.cookies = 0 /\ req[r].cookies = 0
         /\ req[r].pc \in {"checking", "introspecting"}
         /\ faults' \in {faults, faults + 1}
         /\ \/ f.pc = "introspecting" /\ ~f.auth /\ tlock' = tlock
            \/ /\ f.pc \in {"asking", "answered"} /\ (f.auth <=> f.pc = "answered")
               /\ (f.pc = "asking" <=> FetchInfo) /\ tlock' = tlock
            \/ /\ f.pc = "answered" /\ ~f.auth /\ ~RefreshOK(g) /\ tlock' = tlock
            \/ /\ f.pc = "joining" /\ ~f.auth
               /\ g \in Sets /\ tlock[g] # None /\ f.on = tlock[g] /\ tlock' = tlock
            \/ /\ f.pc = "refreshing" /\ ~f.auth
               /\ g \in Sets /\ tlock[g] = None /\ tlock' = [tlock EXCEPT ![g] = r] /\ ~CacheLive(g)
               /\ g = Current /\ session = "live" /\ issued[g] = now => faults' = faults + 1
<1> DEFINE g == req[r].sent
<1>1. /\ Fine(req[r], Current) /\ req[r].pc \in {"checking", "introspecting"}
      /\ AccessLife \in Nat \ {0} /\ EagerTime \in Nat /\ now \in Nat /\ Current \in 1..Current
      /\ req[r].cookies = 0
  <2>1. Fine(req[r], Current) /\ req[r].pc \in {"checking", "introspecting"}
    BY DEF Basics, CheckAccess, Introspect
  <2>2. req[r].cookies = 0
    BY <2>1 DEF Fine, Early
  <2>3. AccessLife \in Nat \ {0} /\ EagerTime \in Nat /\ now \in Nat /\ Current \in Nat /\ 1 <= Current
    BY UserDataAssumption, Numbers
  <2>4. QED  BY <2>1, <2>2, <2>3
<1>2. g = Current /\ issued[g] = now => AccessOK(g) /\ ~Eager(g)
  BY <1>1 DEF AccessOK, Expires, Eager
<1>3. CASE req' = [req EXCEPT ![r].pc = "introspecting"] /\ UNCHANGED tlock /\ CheckAccess(r)
  <2>1. req[r].pc = "checking" /\ faults' = faults
    BY <1>3 DEF CheckAccess
  <2>2. QED  BY <1>1, <1>3, <2>1, AskMoves
<1>4. CASE CheckAccess(r) /\ PopulateTokens(r, AccessOK(g))
  <2>1. faults' = faults /\ AccessOK(g) \in BOOLEAN
    BY <1>4 DEF CheckAccess, AccessOK
  <2>2. g = Current /\ issued[g] = now => ~(~AccessOK(g) \/ Eager(g))
    BY <1>2
  <2> DEFINE ok == AccessOK(g)
  <2>3. ok \in BOOLEAN /\ PopulateTokens(r, ok) /\ (g = Current /\ issued[g] = now => ~(~ok \/ Eager(g)))
    BY <1>4, <2>1, <2>2
  <2> HIDE DEF ok
  <2>4. QED  BY <1>1, <2>1, <2>3, PopulateFields
<1>5. CASE Introspect(r)
  <2>1. PICK failed \in BOOLEAN :
          /\ faults' = IF failed THEN faults + 1 ELSE faults
          /\ PopulateTokens(r, ~failed /\ session = "live" /\ AccessOK(g))
    BY <1>5 DEF Introspect
  <2> DEFINE ok == ~failed /\ session = "live" /\ AccessOK(g)
  <2>2. /\ ok \in BOOLEAN /\ PopulateTokens(r, ok) /\ faults' \in {faults, faults + 1}
        /\ g = Current /\ session = "live" /\ issued[g] = now /\ (~ok \/ Eager(g)) => faults' = faults + 1
    BY <1>2, <2>1
  <2> HIDE DEF ok
  <2>3. QED  BY <1>1, <2>2, PopulateFields
<1>6. QED  BY <1>3, <1>4, <1>5 DEF CheckAccess

LEMMA GrantMoves ==
  ASSUME Basics, Numbered, NEW r \in Requests, Grant(r) \/ GrantFails(r)
  PROVE  LET f == req'[r] IN
         /\ Alone(r) /\ Keeps(f, r) /\ req[r].pc = "refreshing" /\ f.pc = "granted"
         /\ f.cookies = 0 /\ req[r].cookies = 0 /\ ~f.auth
         /\ faults' \in {faults, faults + 1}
         /\ \/ issued' = issued /\ dropped' = dropped /\ f.reply = 0
               /\ (faults' = faults => ~Grantable(r))
            \/ /\ Grantable(r) /\ issued' = Append(issued, now) /\ dropped' = dropped
               /\ f.reply = Current + 1
            \/ /\ Grantable(r) /\ issued' = Append(issued, now)
               /\ dropped' = dropped \cup {Current + 1} /\ f.reply = 0 /\ faults' = faults + 1
<1>1. /\ Fine(req[r], Current) /\ req[r].pc = "refreshing" /\ req[r].cookies = 0 /\ ~req[r].auth
      /\ Current \in Nat /\ Current + 1 \in Nat /\ faults \in Nat
  <2>1. Current \in Nat /\ Current + 1 \in Nat /\ faults \in Nat
    BY Numbers
  <2>2. req[r].pc = "refreshing"
    BY DEF Grant, GrantFails
  <2>3. QED  BY <2>1, <2>2 DEF Basics, Fine, Early
<1>2. ASSUME NEW n \in Nat, n <= Current + 1, req' = [req EXCEPT ![r].pc = "granted", ![r].reply = n]
      PROVE  LET f == req'[r] IN
             /\ Alone(r) /\ Keeps(f, r) /\ f.pc = "granted"
             /\ f.cookies = 0 /\ ~f.auth /\ f.reply = n
  <2> DEFINE m == Current + 1
  <2>1. m \in Nat /\ n <= m /\ Current <= m
    BY <1>1, <1>2
  <2> HIDE DEF m
  <2>2. QED  BY <1>1, <1>2, <2>1, ReplyMoves
<1>3. CASE Grant(r) /\ Grantable(r)
  <2> DEFINE n == Current + 1
  <2>1. n \in Nat /\ n <= Current + 1 /\ req' = [req EXCEPT ![r].pc = "granted", ![r].reply = n]
    BY <1>1, <1>3 DEF Grant
  <2> HIDE DEF n
  <2>2. /\ Alone(r) /\ Keeps(req'[r], r) /\ req'[r].pc = "granted"
        /\ req'[r].cookies = 0 /\ ~req'[r].auth /\ req'[r].reply = n
    BY <1>2, <2>1
  <2>3. QED  BY <1>1, <1>3, <2>2 DEF Grant, n
<1>4. ASSUME req' = [req EXCEPT ![r].pc = "granted", ![r].reply = 0]
      PROVE  /\ Alone(r) /\ Keeps(req'[r], r) /\ req'[r].pc = "granted"
             /\ req'[r].cookies = 0 /\ ~req'[r].auth /\ req'[r].reply = 0
  <2> DEFINE n == 0
  <2>1. n \in Nat /\ n <= Current + 1 /\ req' = [req EXCEPT ![r].pc = "granted", ![r].reply = n]
    BY <1>1, <1>4
  <2> HIDE DEF n
  <2>2. /\ Alone(r) /\ Keeps(req'[r], r) /\ req'[r].pc = "granted"
        /\ req'[r].cookies = 0 /\ ~req'[r].auth /\ req'[r].reply = n
    BY <1>2, <2>1
  <2>3. QED  BY <2>2 DEF n
<1>5. CASE Grant(r) /\ ~Grantable(r)
  BY <1>1, <1>4, <1>5 DEF Grant
<1>6. CASE GrantFails(r)
  <2>1. /\ Alone(r) /\ Keeps(req'[r], r) /\ req'[r].pc = "granted"
        /\ req'[r].cookies = 0 /\ ~req'[r].auth /\ req'[r].reply = 0
    BY <1>4, <1>6 DEF GrantFails
  <2>2. faults' = faults + 1 /\ faults' # faults
    BY <1>1, <1>6 DEF GrantFails
  <2>3. \/ issued' = issued /\ dropped' = dropped
        \/ Grantable(r) /\ issued' = Append(issued, now) /\ dropped' = dropped \cup {Current + 1}
    BY <1>1, <1>6 DEF GrantFails, Drop
  <2>4. QED  BY <1>1, <2>1, <2>2, <2>3
<1>7. QED  BY <1>3, <1>5, <1>6

LEMMA FetchMoves ==
  ASSUME Basics, Numbered, NEW r \in Requests, FetchUserInfo(r)
  PROVE  LET f == req'[r] IN
         /\ Alone(r) /\ Keeps(f, r) /\ req[r].pc = "fetching" /\ f.pc = "fetched"
         /\ f.cookies = req[r].cookies /\ f.token = req[r].token /\ f.tainted = req[r].tainted /\ ~f.auth
         /\ faults' \in {faults, faults + 1}
         /\ f.reply = 1 => session = "live"
         /\ f.reply # 1 /\ faults' = faults => session = "over" \/ ~AccessOK(req[r].token)
<1>1. Fine(req[r], Current) /\ req[r].pc = "fetching" /\ ~req[r].auth /\ Current \in Nat /\ 1 <= Current
      /\ Current <= Current /\ session \in {"live", "over"} /\ faults \in Nat
  BY Numbers DEF Basics, Fine, FetchUserInfo
<1>2. PICK failed \in BOOLEAN :
        /\ faults' = IF failed THEN faults + 1 ELSE faults
        /\ req' = [req EXCEPT ![r].pc = "fetched",
             ![r].reply = IF ~failed /\ session = "live" /\ AccessOK(req[r].token) THEN 1 ELSE 0]
  BY DEF FetchUserInfo
<1> DEFINE n == IF ~failed /\ session = "live" /\ AccessOK(req[r].token) THEN 1 ELSE 0
<1>3. req' = [req EXCEPT ![r].pc = "fetched", ![r].reply = n]
  BY <1>2
<1>4. n \in Nat /\ n <= Current /\ (n = 1 => session = "live") /\ (n = 1 => req[r].token # 0)
  BY <1>1 DEF AccessOK
<1>5. n # 1 /\ faults' = faults => session = "over" \/ ~AccessOK(req[r].token)
  BY <1>1, <1>2
<1> HIDE DEF n
<1>6. /\ Alone(r) /\ Keeps(req'[r], r) /\ req'[r].pc = "fetched" /\ req'[r].cookies = req[r].cookies
      /\ req'[r].token = req[r].token /\ req'[r].tainted = req[r].tainted /\ req'[r].reply = n
      /\ ~req'[r].auth
  BY <1>1, <1>3, <1>4, ReplyMoves
<1>7. QED  BY <1>1, <1>2, <1>4, <1>5, <1>6
-----------------------------------------------------------------------------
(* The token sets do not run out. *)
LEMMA NoNewSet ==
  ASSUME Basics, Numbered, issued' = issued, now' >= now, now' \in Nat, faults' >= faults, faults' \in Nat,
         session' = "live" => session = "live",
         \A q \in Requests :
           req'[q].pc = "refreshing" /\ req'[q].sent = Current /\ session = "live"
             /\ issued[Current] = now /\ now' = now /\ faults' = faults =>
           req[q].pc = "refreshing" /\ req[q].sent = Current
  PROVE  Numbered'
<1>1. Current' = Current /\ Current \in Nat /\ now \in Nat /\ faults \in Nat /\ issued[Current] \in Nat
      /\ issued[Current] <= now
  <2>1. Current' = Current
    BY DEF Current
  <2>2. /\ Current \in 1..Current /\ Current \in Nat /\ now \in Nat /\ faults \in Nat
        /\ \A i \in 1..Current : issued[i] \in 0..MaxTime
    BY Numbers
  <2>3. \A i \in 1..Current : issued[i] <= now
    BY DEF Basics
  <2>4. QED  BY <2>1, <2>2, <2>3
<1>2. Current <= issued[Current] + faults' + 1
  BY <1>1 DEF Numbered
<1>3. ASSUME NEW q \in Requests, Young(q)'  PROVE Current <= issued[Current] + faults'
  <2>1. /\ req'[q].pc = "refreshing" /\ req'[q].sent = Current /\ session = "live"
        /\ issued[Current] = now' /\ now' = now
    BY <1>1, <1>3 DEF Young
  <2>2. CASE faults' = faults
    BY <2>1, <2>2 DEF Numbered, Young
  <2>3. CASE faults' # faults
    BY <1>1, <1>2, <2>3 DEF Numbered
  <2>4. QED  BY <2>2, <2>3
<1>4. QED  BY <1>1, <1>2, <1>3 DEF Numbered

LEMMA NumberedStep ==
  ASSUME Basics, Numbered, [Next]_vars
  PROVE  Numbered'
<1>1. now \in Nat /\ faults \in Nat /\ now >= now /\ faults >= faults /\ faults + 1 >= faults
      /\ faults + 1 \in Nat /\ Current \in Nat /\ issued[Current] \in Nat /\ issued[Current] <= now
  BY Numbers DEF Basics
<1>2. ASSUME NEW r \in Requests, Alone(r), req'[r].pc # "refreshing", issued' = issued, now' = now,
             faults' \in {faults, faults + 1}, session' = session
      PROVE  Numbered'
  BY <1>1, <1>2, NoNewSet DEF Alone
<1>3. ASSUME NEW r \in Requests, Send(r)  PROVE Numbered'
  BY <1>2, <1>3, SendMoves DEF Send
<1>4. ASSUME NEW r \in Requests, Receive(r)  PROVE Numbered'
  BY <1>2, <1>4, ReceiveMoves DEF Receive
<1>5. ASSUME NEW r \in Requests, CheckAccess(r) \/ Introspect(r)  PROVE Numbered'
  <2>1. issued' = issued /\ now' = now /\ session' = session
    BY <1>5 DEF CheckAccess, Introspect
  <2>2. CASE req'[r].pc # "refreshing"
    BY <1>2, <1>5, <2>1, <2>2, JudgeMoves
  <2>3. CASE req'[r].pc = "refreshing"
    <3>1. /\ Alone(r) /\ Keeps(req'[r], r) /\ faults' \in {faults, faults + 1}
          /\ req[r].sent = Current /\ session = "live" /\ issued[Current] = now => faults' = faults + 1
      BY <1>5, <2>3, JudgeMoves
    <3>2. faults + 1 # faults
      BY <1>1
    <3>3. QED  BY <1>1, <2>1, <3>1, <3>2, NoNewSet DEF Alone, Keeps
  <2>4. QED  BY <2>2, <2>3
<1>6. ASSUME NEW r \in Requests, Grant(r) \/ GrantFails(r)  PROVE Numbered'
  <2>1. /\ Alone(r) /\ req'[r].pc = "granted" /\ req[r].pc = "refreshing" /\ faults' \in {faults, faults + 1}
        /\ now' = now /\ session' = session
    BY <1>6, GrantMoves DEF Grant, GrantFails
  <2>2. CASE issued' = issued
    BY <1>2, <2>1, <2>2
  <2>3. CASE Grantable(r) /\ issued' = Append(issued, now)
    <3>1. Current' = Current + 1 /\ issued'[Current + 1] = now
      BY <2>3, Issues
    <3>2. Current <= now + faults
      <4>1. CASE issued[Current] = now
        BY <1>1, <2>1, <2>3, <4>1 DEF Numbered, Young, Grantable
      <4>2. CASE issued[Current] # now
        BY <1>1, <4>2 DEF Numbered
      <4>3. QED  BY <4>1, <4>2
    <3>3. \A q \in Requests : req'[q].sent # Current + 1 \/ req'[q].pc = "granted"
      <4>1. \A q \in Requests : req[q].sent \in 0..Current
        BY DEF Basics, Fine
      <4>2. QED  BY <1>1, <2>1, <4>1 DEF Alone
    <3>4. Current' <= issued'[Current'] + faults' + 1
      <4>1. issued'[Current'] = now
        BY <3>1
      <4>2. faults' \in Nat /\ faults <= faults'
        BY <1>1, <2>1
      <4>3. Current + 1 <= now + faults' + 1
        <5>1. \A c, n, f, k \in Nat : c <= n + f /\ f <= k => c + 1 <= n + k + 1
          OBVIOUS
        <5>2. Current \in Nat /\ now \in Nat /\ faults \in Nat
          BY <1>1
        <5>3. QED  BY <3>2, <4>2, <5>1, <5>2
      <4>4. QED  BY <3>1, <4>1, <4>3
    <3>5. QED  BY <3>1, <3>3, <3>4 DEF Numbered, Young
  <2>4. QED  BY <1>6, <2>2, <2>3, GrantMoves
<1>7. ASSUME NEW r \in Requests, Granted(r)  PROVE Numbered'
  <2>1. \A q \in Requests : req'[q].pc = "refreshing" => req'[q] = req[q]
    BY <1>7, GrantedMoves
  <2>2. QED  BY <1>1, <1>7, <2>1, NoNewSet DEF Granted
<1>8. ASSUME NEW r \in Requests, Overrun(r)  PROVE Numbered'
  <2>1. \A q \in Requests : req'[q].pc = "refreshing" => req'[q] = req[q]
    BY <1>8, OverrunMoves
  <2>2. QED  BY <1>1, <1>8, <2>1, NoNewSet DEF Overrun
<1>9. ASSUME NEW r \in Requests, GetUserInfo(r)  PROVE Numbered'
  BY <1>2, <1>9, GetUserInfoMoves DEF GetUserInfo
<1>10. ASSUME NEW r \in Requests, FetchUserInfo(r)  PROVE Numbered'
  BY <1>2, <1>10, FetchMoves DEF FetchUserInfo
<1>11. ASSUME NEW r \in Requests, Fetched(r)  PROVE Numbered'
  <2>1. \A q \in Requests : req'[q].pc = "refreshing" => req'[q] = req[q]
    BY <1>11, FetchedMoves
  <2>2. QED  BY <1>1, <1>11, <2>1, NoNewSet DEF Fetched
<1>12. ASSUME NEW r \in Requests, Deliver(r)  PROVE Numbered'
  BY <1>2, <1>12, DoneMoves DEF Deliver
<1>13. ASSUME NEW r \in Requests, LoseResponse(r)  PROVE Numbered'
  BY <1>2, <1>13, DoneMoves DEF LoseResponse
<1>14. CASE EndSession
  BY <1>1, <1>14, NoNewSet DEF EndSession
<1>15. CASE HandleBackChannelLogout
  <2>1. \A q \in Requests : req'[q].pc = req[q].pc /\ req'[q].sent = req[q].sent
    BY <1>15, LogoutMoves DEF Keeps
  <2>2. QED  BY <1>1, <1>15, <2>1, NoNewSet DEF HandleBackChannelLogout
<1>16. CASE Tick
  BY <1>1, <1>16, NoNewSet DEF Tick
<1>17. CASE UNCHANGED vars
  BY <1>1, <1>17, NoNewSet DEF vars
<1>18. QED
  BY <1>3, <1>4, <1>5, <1>6, <1>7, <1>8, <1>9, <1>10, <1>11, <1>12, <1>13, <1>14, <1>15, <1>16,
     <1>17 DEF Next, Step

-----------------------------------------------------------------------------
(* The newest token set, and who has it. *)
Quiet(q) ==
  LET f == req'[q] IN
  /\ f.cookies = req[q].cookies
  /\ f.shared = req[q].shared \/ f.cookies = 0
  /\ f.sent \in {req[q].sent, jar}
  /\ f.pc = "granted" => req[q].pc = "granted" /\ f.reply = req[q].reply
  /\ req[q].pc = "granted" => f.pc = "granted"
  /\ f.pc = "done" => req[q].pc = "done"

LEMMA QuietStep ==
  ASSUME Basics, TokensReachBrowser, OwnedAlone, UNCHANGED <<issued, jar, dropped>>,
         \A q \in Requests : Quiet(q)
  PROVE  TokensReachBrowser' /\ OwnedAlone'
<1>1. Current' = Current
  BY DEF Current
<1>2. Carried \subseteq Carried'
  BY DEF Carried, Quiet
<1>3. TokensReachBrowser'
  BY <1>1, <1>2 DEF TokensReachBrowser
<1>4. \A q \in Requests, g \in Nat : g # 0 /\ HasAny(q, g)' => HasAny(q, g)
  BY DEF HasAny, Quiet
<1>5. \A q \in Requests, g \in Nat : Owns(q, g)' => Owns(q, g)
  BY DEF Owns, Quiet
<1>6. \A r \in Requests, g \in Nat : Owns(r, g) => g # 0
  BY DEF Owns
<1>7. ASSUME NEW r \in Requests, NEW g \in Nat, Owns(r, g)'
      PROVE  /\ g = Current' /\ jar' # g
             /\ \A q \in Requests : req'[q].sent # g /\ (q # r => ~HasAny(q, g)')
  <2>1. /\ Owns(r, g) /\ g # 0 /\ g = Current /\ jar # g
        /\ \A q \in Requests : req[q].sent # g /\ (q # r => ~HasAny(q, g))
    BY <1>5, <1>6, <1>7 DEF OwnedAlone
  <2>2. \A q \in Requests : req'[q].sent # g
    BY <2>1 DEF Quiet
  <2>3. QED  BY <1>1, <1>4, <2>1, <2>2
<1>8. QED  BY <1>3, <1>7 DEF OwnedAlone
(* A request that goes on with what it has, and gains no cookies. *)
LEMMA LessStep ==
  ASSUME Basics, OwnedAlone, Current' = Current, jar' = jar,
         \A q \in Requests : LET f == req'[q] IN
           /\ f.cookies \in {0, req[q].cookies}
           /\ f.shared = req[q].shared \/ f.cookies = 0
           /\ f.sent \in {0, req[q].sent}
           /\ f.pc = "granted" => f.reply = 0 \/ (req[q].pc = "granted" /\ f.reply = req[q].reply)
  PROVE  OwnedAlone'
<1>1. \A q \in Requests, g \in Nat : g # 0 /\ HasAny(q, g)' => HasAny(q, g)
  BY DEF HasAny
<1>2. \A q \in Requests, g \in Nat : Owns(q, g)' => Owns(q, g)
  BY DEF Owns
<1>3. ASSUME NEW r \in Requests, NEW g \in Nat, Owns(r, g)'
      PROVE  /\ g = Current' /\ jar' # g
             /\ \A q \in Requests : req'[q].sent # g /\ (q # r => ~HasAny(q, g)')
  <2>1. /\ Owns(r, g) /\ g # 0 /\ g = Current /\ jar # g
        /\ \A q \in Requests : req[q].sent # g /\ (q # r => ~HasAny(q, g))
    BY <1>2, <1>3 DEF OwnedAlone, Owns
  <2>2. \A q \in Requests : req'[q].sent # g
    BY <2>1
  <2>3. QED  BY <1>1, <2>1, <2>2
<1>4. QED  BY <1>3 DEF OwnedAlone

LEMMA GrantBrowser ==
  ASSUME Basics, Numbered, TokensReachBrowser, OwnedAlone, NEW r \in Requests, Grant(r) \/ GrantFails(r)
  PROVE  TokensReachBrowser' /\ OwnedAlone'
<1>1. /\ Alone(r) /\ Keeps(req'[r], r) /\ req[r].pc = "refreshing" /\ req'[r].pc = "granted"
      /\ req'[r].cookies = 0 /\ req[r].cookies = 0 /\ jar' = jar
      /\ Current \in Nat /\ Current >= 1 /\ jar <= Current
  <2>1. jar' = jar
    BY DEF Grant, GrantFails
  <2>2. Current \in Nat /\ Current >= 1 /\ jar <= Current
    BY Numbers DEF Basics
  <2>3. QED  BY <2>1, <2>2, GrantMoves
<1>2. CASE issued' = issued /\ dropped' = dropped /\ req'[r].reply = 0
  <2>1. Current' = Current
    BY <1>2 DEF Current
  <2>2. OwnedAlone'
    BY <1>1, <1>2, <2>1, LessStep DEF Alone, Keeps
  <2>3. Carried \subseteq Carried'
    <3>1. \A q \in Requests : req'[q].cookies = req[q].cookies /\ (req'[q].pc = "done" <=> req[q].pc = "done")
      BY <1>1 DEF Alone
    <3>2. \A q \in Requests : req[q].pc = "granted" => req'[q].pc = "granted" /\ req'[q].reply = req[q].reply
      BY <1>1 DEF Alone
    <3>3. QED  BY <3>1, <3>2 DEF Carried
  <2>4. QED  BY <1>1, <1>2, <2>1, <2>2, <2>3 DEF TokensReachBrowser
<1>3. CASE /\ Grantable(r) /\ issued' = Append(issued, now)
           /\ \/ req'[r].reply = Current + 1
              \/ req'[r].reply = 0 /\ Current + 1 \in dropped'
  <2>1. Current' = Current + 1 /\ req[r].sent = Current
    BY <1>3, Issues DEF Grantable
  <2>2. \A q \in Requests : /\ req[q].sent \in 0..Current /\ req[q].cookies \in 0..Current
                            /\ req[q].reply \in 0..Current
    BY DEF Basics, Fine
  <2>3. TokensReachBrowser'
    <3>1. CASE req'[r].reply = Current + 1
      BY <1>1, <2>1, <3>1 DEF TokensReachBrowser, Carried
    <3>2. CASE Current + 1 \in dropped'
      BY <2>1, <3>2 DEF TokensReachBrowser
    <3>3. QED  BY <1>3, <3>1, <3>2
  <2>4. \A q \in Requests, g \in Nat : ~Owns(q, g)
    BY <2>1 DEF OwnedAlone
  <2>5. \A q \in Requests, g \in Nat : Owns(q, g)' => q = r /\ g = Current + 1
    BY <1>1, <1>3, <2>4 DEF Owns, Alone
  <2>6. \A q \in Requests, g \in Nat : g = Current + 1 /\ q # r => ~HasAny(q, g)'
    BY <1>1, <2>2 DEF HasAny, Alone
  <2>7. \A q \in Requests : req'[q].sent # Current + 1 /\ jar' # Current + 1
    <3>1. \A q \in Requests : req'[q].sent = req[q].sent
      BY <1>1 DEF Alone, Keeps
    <3>2. QED  BY <1>1, <2>2, <3>1
  <2>8. ASSUME NEW q \in Requests, NEW g \in Nat, Owns(q, g)'
        PROVE  /\ g = Current' /\ jar' # g
               /\ \A p \in Requests : req'[p].sent # g /\ (p # q => ~HasAny(p, g)')
    BY <2>1, <2>5, <2>6, <2>7, <2>8
  <2>9. QED  BY <2>3, <2>8 DEF OwnedAlone
<1>4. QED
  BY <1>2, <1>3, GrantMoves

LEMMA GrantedBrowser ==
  ASSUME Basics, Numbered, TokensReachBrowser, OwnedAlone, NEW r \in Requests, Granted(r)
  PROVE  TokensReachBrowser' /\ OwnedAlone'
<1> DEFINE A == Flight(r, tlock[req[r].sent] \in {r, None})
           n == req[r].reply
           W == Waiting(r, "joining")
<1>1. /\ \A q \in Requests \ A : req'[q] = req[q]
      /\ r \in A /\ A \subseteq Requests /\ req[r].pc = "granted"
      /\ Current' = Current /\ Current \in Nat /\ Current >= 1 /\ jar' = jar /\ dropped' = dropped
  BY GrantedMoves, Numbers DEF Granted, Current
<1>2. \A q \in A : /\ req[q].pc \in {"granted", "joining"} /\ req[q].cookies = 0 /\ (q # r => W # {})
                   /\ req'[q].sent = req[q].sent /\ req'[q].pc \in {"asking", "answered"}
                   /\ req'[q].cookies = n
                   /\ n # 0 => req'[q].shared = (W # {})
  BY GrantedMoves
<1> HIDE DEF A, W
<1>3. TokensReachBrowser'
  <2>1. CASE Current \in {req[q].cookies : q \in {p \in Requests : req[p].pc # "done"}}
    <3>1. PICK q \in Requests : req[q].pc # "done" /\ req[q].cookies = Current
      BY <2>1
    <3>2. q \notin A
      BY <1>1, <1>2, <3>1
    <3>3. req'[q].pc # "done" /\ req'[q].cookies = Current
      BY <1>1, <3>1, <3>2
    <3>4. QED  BY <1>1, <3>3 DEF TokensReachBrowser, Carried
  <2>2. CASE Current \in {req[q].reply : q \in {p \in Requests : req[p].pc = "granted"}}
    <3>1. PICK q \in Requests : req[q].pc = "granted" /\ req[q].reply = Current
      BY <2>2
    <3>2. CASE q = r
      <4>1. req'[r].pc # "done" /\ req'[r].cookies = Current
        BY <1>1, <1>2, <3>1, <3>2
      <4>2. QED  BY <1>1, <4>1 DEF TokensReachBrowser, Carried
    <3>3. CASE q # r
      <4>1. q \notin A
        BY <3>1, <3>3 DEF A, Flight, Waiting
      <4>2. QED  BY <1>1, <3>1, <4>1 DEF TokensReachBrowser, Carried
    <3>4. QED  BY <3>2, <3>3
  <2>3. QED  BY <1>1, <2>1, <2>2 DEF TokensReachBrowser, Carried
<1>4. CASE n = 0
  <2>1. \A q \in Requests : LET f == req'[q] IN
          /\ f.cookies \in {0, req[q].cookies}
          /\ f.shared = req[q].shared \/ f.cookies = 0
          /\ f.sent \in {0, req[q].sent}
          /\ f.pc = "granted" => f.reply = 0 \/ (req[q].pc = "granted" /\ f.reply = req[q].reply)
    BY <1>1, <1>2, <1>4
  <2>2. QED  BY <1>1, <2>1, LessStep, <1>3
<1>5. CASE n # 0
  <2>1. Owns(r, n) /\ n \in Nat
    BY <1>1, <1>5 DEF Owns, Basics, Fine
  <2>2. /\ n = Current /\ jar # n
        /\ \A q \in Requests : req[q].sent # n /\ (q # r => ~HasAny(q, n))
    BY <2>1 DEF OwnedAlone
  <2>3. ASSUME NEW q \in Requests, NEW g \in Nat, Owns(q, g)'
        PROVE  q = r /\ g = n /\ W = {}
    <3>1. CASE q \notin A
      <4>1. Owns(q, g)
        BY <1>1, <2>3, <3>1 DEF Owns
      <4>2. \A p \in Requests : p # q => ~HasAny(p, g)
        BY <4>1 DEF OwnedAlone
      <4>3. g = Current /\ HasAny(r, n)
        BY <1>1, <4>1 DEF OwnedAlone, HasAny
      <4>4. QED  BY <1>1, <2>2, <3>1, <4>2, <4>3
    <3>2. CASE q \in A
      BY <1>2, <1>5, <2>3, <3>2 DEF Owns
    <3>3. QED  BY <3>1, <3>2
  <2>4. W = {} => \A q \in Requests, g \in Nat : g = n /\ q # r => ~HasAny(q, g)'
    BY <1>1, <1>2, <2>2 DEF HasAny
  <2>5. \A q \in Requests : req'[q].sent = req[q].sent
    BY <1>1, <1>2
  <2>6. ASSUME NEW q \in Requests, NEW g \in Nat, Owns(q, g)'
        PROVE  /\ g = Current' /\ jar' # g
               /\ \A p \in Requests : req'[p].sent # g /\ (p # q => ~HasAny(p, g)')
    BY <1>1, <2>2, <2>3, <2>4, <2>5, <2>6
  <2>7. QED  BY <1>3, <2>6 DEF OwnedAlone
<1>6. QED  BY <1>3, <1>4, <1>5

LEMMA FetchedBrowser ==
  ASSUME Basics, Numbered, TokensReachBrowser, OwnedAlone, NEW r \in Requests, Fetched(r)
  PROVE  TokensReachBrowser' /\ OwnedAlone'
<1>1. Current' = Current /\ jar' = jar
  BY DEF Fetched, Current
<1>2. \A q \in Requests : LET f == req'[q] IN
        \/ f = req[q]
        \/ /\ req[q].pc \in {"fetched", "awaiting"} /\ f.pc \in {"answered", "checking"} /\ Keeps(f, q)
           /\ f.cookies # req[q].cookies => f.cookies = 0 /\ req[q].cookies \in dropped'
  BY FetchedMoves
<1>3. dropped \subseteq dropped'
  BY FetchedMoves
<1>4. OwnedAlone'
  BY <1>1, <1>2, LessStep DEF Keeps
<1>5. \A g \in Carried : g \in Carried' \cup dropped'
  <2>1. ASSUME NEW q \in Requests, req[q].pc # "done"
        PROVE  req[q].cookies \in Carried' \cup dropped'
    BY <1>2, <2>1 DEF Carried
  <2>2. ASSUME NEW q \in Requests, req[q].pc = "granted"
        PROVE  req[q].reply \in Carried'
    BY <1>2, <2>2 DEF Carried
  <2>3. QED  BY <2>1, <2>2 DEF Carried
<1>6. QED  BY <1>1, <1>3, <1>4, <1>5 DEF TokensReachBrowser

LEMMA DoneBrowser ==
  ASSUME Basics, Numbered, TokensReachBrowser, OwnedAlone, NEW r \in Requests, Deliver(r) \/ LoseResponse(r)
  PROVE  /\ TokensReachBrowser' /\ OwnedAlone'
         /\ jar' < jar => Deliver(r) /\ req[r].shared /\ req[r].cookies = jar'
<1>1. /\ Alone(r) /\ req'[r].pc = "done" /\ req'[r].sent = 0 /\ req'[r].cookies = 0
      /\ Current' = Current /\ req[r].pc = "answered" /\ issued' = issued
  BY DoneMoves DEF Deliver, LoseResponse, Current
<1>2. /\ Current \in Nat /\ Current >= 1 /\ jar \in 1..Current /\ req[r].cookies \in 0..Current
      /\ dropped \subseteq dropped'
  BY Numbers DEF Basics, Fine, Deliver, LoseResponse, Drop
<1>3. \/ jar' = req[r].cookies /\ req[r].cookies # 0 /\ (jar' < jar => jar \in dropped') /\ Deliver(r)
      \/ jar' = jar /\ (req[r].cookies = 0 \/ req[r].cookies \in dropped')
  <2>1. CASE Deliver(r)
    <3>1. CASE req[r].cookies # 0
      BY <1>2, <2>1, <3>1 DEF Deliver, Drop
    <3>2. CASE req[r].cookies = 0
      BY <2>1, <3>2 DEF Deliver
    <3>3. QED  BY <3>1, <3>2
  <2>2. CASE LoseResponse(r)
    BY <2>2 DEF LoseResponse, Drop
  <2>3. QED  BY <2>1, <2>2
<1>4. jar' < jar => Deliver(r) /\ req[r].shared /\ req[r].cookies = jar'
  <2>1. SUFFICES ASSUME jar' < jar PROVE Deliver(r) /\ req[r].shared /\ req[r].cookies = jar'
    OBVIOUS
  <2>2. jar' = req[r].cookies /\ req[r].cookies # 0 /\ Deliver(r)
    BY <1>2, <1>3, <2>1
  <2>3. ~Owns(r, req[r].cookies)
    BY <1>2, <2>1, <2>2 DEF OwnedAlone
  <2>4. QED  BY <2>2, <2>3 DEF Owns
<1>5. TokensReachBrowser'
  <2>1. CASE jar = Current
    BY <1>1, <1>2, <1>3, <2>1 DEF TokensReachBrowser
  <2>2. CASE Current \in dropped
    BY <1>1, <1>2, <2>2 DEF TokensReachBrowser
  <2>3. CASE Current \in {req[q].cookies : q \in {p \in Requests : req[p].pc # "done"}}
    <3>1. PICK q \in Requests : req[q].pc # "done" /\ req[q].cookies = Current
      BY <2>3
    <3>2. CASE q = r
      BY <1>1, <1>2, <1>3, <3>1, <3>2 DEF TokensReachBrowser
    <3>3. CASE q # r
      BY <1>1, <3>1, <3>3 DEF TokensReachBrowser, Carried, Alone
    <3>4. QED  BY <3>2, <3>3
  <2>4. CASE Current \in {req[q].reply : q \in {p \in Requests : req[p].pc = "granted"}}
    <3>1. PICK q \in Requests : req[q].pc = "granted" /\ req[q].reply = Current
      BY <2>4
    <3>2. q # r
      BY <1>1, <3>1
    <3>3. QED  BY <1>1, <3>1, <3>2 DEF TokensReachBrowser, Carried, Alone
  <2>5. QED  BY <2>1, <2>2, <2>3, <2>4 DEF TokensReachBrowser, Carried
<1>6. \A q \in Requests, g \in Nat : g # 0 /\ HasAny(q, g)' => HasAny(q, g) /\ q # r
  BY <1>1 DEF HasAny, Alone
<1>7. \A q \in Requests, g \in Nat : Owns(q, g)' => Owns(q, g) /\ q # r
  BY <1>1 DEF Owns, Alone
<1>8. ASSUME NEW q \in Requests, NEW g \in Nat, Owns(q, g)'
      PROVE  /\ g = Current' /\ jar' # g
             /\ \A p \in Requests : req'[p].sent # g /\ (p # q => ~HasAny(p, g)')
  <2>1. /\ Owns(q, g) /\ q # r /\ g # 0 /\ g = Current /\ jar # g
        /\ \A p \in Requests : req[p].sent # g /\ (p # q => ~HasAny(p, g))
    BY <1>7, <1>8 DEF OwnedAlone, Owns
  <2>2. req[r].cookies # g
    BY <2>1 DEF HasAny
  <2>3. \A p \in Requests : req'[p].sent # g
    BY <1>1, <2>1 DEF Alone
  <2>4. QED  BY <1>1, <1>3, <1>6, <2>1, <2>2, <2>3
<1>9. QED  BY <1>4, <1>5, <1>8 DEF OwnedAlone

LEMMA BrowserStep ==
  ASSUME Basics, Numbered, TokensReachBrowser, OwnedAlone, [Next]_vars
  PROVE  /\ TokensReachBrowser' /\ OwnedAlone'
         /\ jar' < jar => \E r \in Requests : Deliver(r) /\ req[r].shared /\ req[r].cookies = jar'
<1> DEFINE Goal == /\ TokensReachBrowser' /\ OwnedAlone'
                   /\ jar' < jar => \E r \in Requests : Deliver(r) /\ req[r].shared /\ req[r].cookies = jar'
<1>1. ASSUME UNCHANGED <<issued, jar, dropped>>, \A q \in Requests : Quiet(q)
      PROVE  Goal
  <2>1. jar \in Nat /\ jar' = jar
    BY <1>1, Numbers DEF Basics
  <2>2. QED  BY <1>1, <2>1, QuietStep
<1>2. ASSUME NEW r \in Requests, Send(r)  PROVE Goal
  <2>1. UNCHANGED <<issued, jar, dropped>> /\ \A q \in Requests : q # r => req'[q] = req[q]
    BY <1>2, SendMoves DEF Send, Alone
  <2>2. Quiet(r)
    BY <1>2, SendMoves, RequestFields DEF Send, Quiet, Early
  <2>3. QED  BY <1>1, <2>1, <2>2, RequestFields DEF Quiet
<1>3. ASSUME NEW r \in Requests, Receive(r)  PROVE Goal
  BY <1>1, <1>3, ReceiveMoves DEF Receive, Alone, Quiet
<1>4. ASSUME NEW r \in Requests, CheckAccess(r) \/ Introspect(r)  PROVE Goal
  <2>1. \A q \in Requests : Quiet(q)
    BY <1>4, JudgeMoves DEF Alone, Quiet, Keeps
  <2>2. QED  BY <1>1, <1>4, <2>1 DEF CheckAccess, Introspect
<1>5. ASSUME NEW r \in Requests, Grant(r) \/ GrantFails(r)  PROVE Goal
  <2>1. jar \in Nat /\ jar' = jar
    BY <1>5, Numbers DEF Basics, Grant, GrantFails
  <2>2. QED  BY <1>5, <2>1, GrantBrowser
<1>6. ASSUME NEW r \in Requests, Granted(r)  PROVE Goal
  <2>1. jar \in Nat /\ jar' = jar
    BY <1>6, Numbers DEF Basics, Granted
  <2>2. QED  BY <1>6, <2>1, GrantedBrowser
<1>7. ASSUME NEW r \in Requests, Overrun(r)  PROVE Goal
  <2>1. \A q \in Requests : Quiet(q)
    BY <1>7, OverrunMoves DEF Quiet, Keeps
  <2>2. QED  BY <1>1, <1>7, <2>1 DEF Overrun
<1>8. ASSUME NEW r \in Requests, GetUserInfo(r)  PROVE Goal
  <2>1. \A q \in Requests : Quiet(q)
    BY <1>8, GetUserInfoMoves DEF Alone, Quiet, Keeps
  <2>2. QED  BY <1>1, <1>8, <2>1 DEF GetUserInfo
<1>9. ASSUME NEW r \in Requests, FetchUserInfo(r)  PROVE Goal
  <2>1. \A q \in Requests : Quiet(q)
    BY <1>9, FetchMoves DEF Alone, Quiet, Keeps
  <2>2. QED  BY <1>1, <1>9, <2>1 DEF FetchUserInfo
<1>10. ASSUME NEW r \in Requests, Fetched(r)  PROVE Goal
  <2>1. jar \in Nat /\ jar' = jar
    BY <1>10, Numbers DEF Basics, Fetched
  <2>2. QED  BY <1>10, <2>1, FetchedBrowser
<1>11. ASSUME NEW r \in Requests, Deliver(r) \/ LoseResponse(r)  PROVE Goal
  BY <1>11, DoneBrowser
<1>12. CASE EndSession
  BY <1>1, <1>12 DEF EndSession, Quiet
<1>13. CASE HandleBackChannelLogout
  <2>1. \A q \in Requests : Quiet(q)
    BY <1>13, LogoutMoves DEF Quiet, Keeps
  <2>2. QED  BY <1>1, <1>13, <2>1 DEF HandleBackChannelLogout
<1>14. CASE Tick
  BY <1>1, <1>14 DEF Tick, Quiet
<1>15. CASE UNCHANGED vars
  BY <1>1, <1>15 DEF vars, Quiet
<1>16. QED
  BY <1>2, <1>3, <1>4, <1>5, <1>6, <1>7, <1>8, <1>9, <1>10, <1>11, <1>12, <1>13, <1>14, <1>15
     DEF Next, Step
-----------------------------------------------------------------------------
(* What time and other requests do not undo. *)
Older == /\ Current' \in Nat /\ Current <= Current' /\ now \in Nat /\ now' \in Nat /\ now <= now'
         /\ \A i \in 1..Current : issued'[i] = issued[i] /\ issued[i] \in Nat
         /\ session = "over" => session' = "over"

LEMMA Ageing ==
  ASSUME Basics, Numbered, [Next]_vars
  PROVE  Older
<1>1. /\ issued' = issued \/ issued' = Append(issued, now)
      /\ now' = now \/ now' = now + 1
      /\ session' = session \/ session' = "over"
  <2> DEFINE Goal == /\ issued' = issued \/ issued' = Append(issued, now)
                     /\ now' = now \/ now' = now + 1
                     /\ session' = session \/ session' = "over"
  <2>1. ASSUME NEW r \in Requests, Send(r) \/ GrantFails(r) \/ Overrun(r) \/ LoseResponse(r)  PROVE Goal
    BY <2>1 DEF Send, GrantFails, Overrun, LoseResponse
  <2>2. ASSUME NEW r \in Requests, Step(r)  PROVE Goal
    BY <2>2 DEF Step, Receive, CheckAccess, Introspect, Grant, Granted, GetUserInfo, FetchUserInfo, Fetched, Deliver
  <2>3. CASE EndSession \/ HandleBackChannelLogout \/ Tick \/ UNCHANGED vars
    BY <2>3 DEF EndSession, HandleBackChannelLogout, Tick, vars
  <2>4. QED  BY <2>1, <2>2, <2>3 DEF Next
<1>2. Current \in Nat /\ now \in Nat /\ \A i \in 1..Current : issued[i] \in Nat
  BY Numbers
<1>3. CASE issued' = issued
  BY <1>1, <1>2, <1>3 DEF Older, Current
<1>4. CASE issued' = Append(issued, now)
  <2>1. Current' = Current + 1 /\ \A i \in 1..Current : issued'[i] = issued[i]
    BY <1>4, Issues
  <2>2. QED  BY <1>1, <1>2, <2>1 DEF Older
<1>5. QED  BY <1>1, <1>3, <1>4

LEMMA ExcuseStays ==
  ASSUME Basics, Numbered, Older, NEW g \in 0..Current
  PROVE  /\ Overtaken(g) => Overtaken(g)'
         /\ ~RefreshOK(g) => ~RefreshOK(g)'
         /\ ~AccessOK(g) => ~AccessOK(g)'
<1>1. Holdover \in Nat /\ RefreshLife \in Nat /\ AccessLife \in Nat /\ Current \in Nat
  BY UserDataAssumption, Numbers
<1>2. Overtaken(g) => Overtaken(g)'
  <2>1. CASE g < Current
    <3>1. g + 1 \in 1..Current
      BY <1>1, <2>1
    <3>2. issued'[g + 1] = issued[g + 1] /\ issued[g + 1] \in Nat
      BY <3>1 DEF Older
    <3>3. QED  BY <1>1, <2>1, <3>2 DEF Overtaken, Older
  <2>2. QED  BY <2>1 DEF Overtaken
<1>3. CASE g = 0
  BY <1>2, <1>3 DEF RefreshOK, AccessOK
<1>4. CASE g # 0
  <2>1. g \in 1..Current
    BY <1>1, <1>4
  <2>2. issued'[g] = issued[g] /\ issued[g] \in Nat
    BY <2>1 DEF Older
  <2>3. QED  BY <1>1, <1>2, <1>4, <2>2 DEF RefreshOK, AccessOK, Expires, Older
<1>5. QED  BY <1>3, <1>4

LEMMA ReasonStays ==
  ASSUME Basics, Numbered, Older, NEW q \in Requests, NoReason(q),
         LET f == req'[q] IN
           /\ f.pc = req[q].pc /\ f.sent = req[q].sent /\ f.reply = req[q].reply
           /\ f.token = req[q].token /\ f.auth = req[q].auth /\ f.expired = req[q].expired,
         req[q].pc = "refreshing" /\ req[q].sent < Current' => req[q].sent < Current
  PROVE  NoReason(q)'
<1>1. req[q].sent \in 0..Current /\ req[q].token \in 0..Current
  BY RequestFields
<1>2. Excuse(q) => Excuse(q)'
  BY <1>1, ExcuseStays DEF Excuse
<1>3. ~AccessOK(req[q].token) => ~AccessOK(req[q].token)'
  BY <1>1, ExcuseStays
<1>4. session = "over" => session' = "over"
  BY DEF Older
<1>5. req[q].pc = "refreshing" /\ req[q].sent < Current' => Excuse(q)'
  BY <1>2 DEF NoReason
<1>6. req[q].pc = "granted" /\ req[q].reply = 0 => session' = "over" \/ Excuse(q)'
  BY <1>2, <1>4 DEF NoReason
<1>7. req[q].pc = "fetched" /\ req[q].reply # 1 => session' = "over" \/ ~AccessOK(req[q].token)'
  BY <1>3, <1>4 DEF NoReason
<1>8. req[q].pc = "answered" /\ ~req[q].auth => session' = "over" \/ req[q].expired \/ Excuse(q)'
  BY <1>2, <1>4 DEF NoReason
<1>9. QED  BY <1>5, <1>6, <1>7, <1>8 DEF NoReason

LEMMA FlightStays ==
  ASSUME Basics, OneFlight, tlock' = tlock,
         \A q \in Requests : LET f == req'[q] IN
           /\ f.pc \in {"refreshing", "granted"} <=> Flying(q)
           /\ Flying(q) => f.sent = req[q].sent
           /\ f.pc = "joining" => req[q].pc = "joining" /\ f.sent = req[q].sent /\ f.on = req[q].on
  PROVE  OneFlight'
<1>1. \A q \in Requests : Flying(q)' <=> Flying(q)
  BY DEF Flying
<1>2. \A q \in Requests : Flying(q)' => req'[q].sent \in Sets /\ tlock'[req'[q].sent] = q
  BY <1>1 DEF OneFlight
<1>3. ASSUME NEW g \in Sets, tlock'[g] # None
      PROVE  Flying(tlock[g])' /\ req'[tlock[g]].sent = g
  <2>1. tlock[g] \in Requests /\ Flying(tlock[g]) /\ req[tlock[g]].sent = g
    BY <1>3 DEF OneFlight, Basics
  <2>2. QED  BY <1>1, <2>1
<1>4. ASSUME NEW q \in Requests, req'[q].pc = "joining"
      PROVE  req'[q].on \in Requests /\ Flying(req[q].on)' /\ req'[req'[q].on].sent = req'[q].sent
  <2>1. /\ req'[q].on = req[q].on /\ req'[q].sent = req[q].sent
        /\ req[q].on \in Requests /\ Flying(req[q].on) /\ req[req[q].on].sent = req[q].sent
    BY <1>4 DEF OneFlight
  <2>2. PICK p \in Requests : Flying(p) /\ req[p].sent = req[q].sent /\ req'[q].on = p
    BY <2>1
  <2>3. Flying(p)' /\ req'[p].sent = req'[q].sent
    BY <1>1, <2>1, <2>2
  <2>4. QED  BY <2>2, <2>3
<1>5. QED  BY <1>2, <1>3, <1>4 DEF OneFlight
LEMMA CacheStays ==
  ASSUME Basics, RotatedIsCached, UNCHANGED <<issued, tcache>>,
         \A q \in Requests : LET f == req'[q] IN
           req[q].pc = "granted" => f.pc = "granted" /\ f.sent = req[q].sent /\ f.reply = req[q].reply
  PROVE  RotatedIsCached'
BY DEF RotatedIsCached, Current

(* A request that answers, waits, or asks, and is not in flight. *)
Calm == OneFlight' /\ RotatedIsCached' /\ \A q \in Requests : NoReason(q)'

LEMMA AloneCalm ==
  ASSUME Basics, Numbered, Older, OneFlight, RotatedIsCached, \A q \in Requests : NoReason(q),
         NEW r \in Requests, Alone(r), req[r].pc \notin {"refreshing", "granted"},
         req'[r].pc \notin {"refreshing", "granted", "joining"}, NoReason(r)',
         UNCHANGED <<issued, tcache, tlock>>
  PROVE  Calm
<1>1. OneFlight'
  <2>1. \A q \in Requests : LET f == req'[q] IN
          /\ f.pc \in {"refreshing", "granted"} <=> Flying(q)
          /\ Flying(q) => f.sent = req[q].sent
          /\ f.pc = "joining" => req[q].pc = "joining" /\ f.sent = req[q].sent /\ f.on = req[q].on
    BY DEF Alone, Flying
  <2>2. QED  BY <2>1, FlightStays
<1>2. RotatedIsCached'
  BY CacheStays DEF Alone
<1>3. Current' = Current
  BY DEF Current
<1>4. \A q \in Requests \ {r} : NoReason(q)'
  BY <1>3, ReasonStays DEF Alone
<1>5. QED  BY <1>1, <1>2, <1>4 DEF Calm

LEMMA JudgeCalm ==
  ASSUME Basics, Numbered, Older, OneFlight, RotatedIsCached, \A q \in Requests : NoReason(q),
         NEW r \in Requests, CheckAccess(r) \/ Introspect(r)
  PROVE  Calm
<1> DEFINE g == req[r].sent
<1>1. /\ UNCHANGED <<now, issued, tcache>> /\ Current' = Current
      /\ req[r].pc \in {"checking", "introspecting"} /\ Alone(r) /\ Keeps(req'[r], r)
      /\ g \in 0..Current
  <2>1. UNCHANGED <<now, issued, tcache>> /\ Current' = Current
    BY DEF CheckAccess, Introspect, Current
  <2>2. QED  BY <2>1, JudgeMoves, RequestFields
<1>2. CASE req'[r].pc \in {"introspecting", "asking"} /\ tlock' = tlock
  <2>1. NoReason(r)'
    BY <1>2 DEF NoReason
  <2>2. QED  BY <1>1, <1>2, <2>1, AloneCalm
<1>3. CASE req'[r].pc = "answered" /\ tlock' = tlock /\ (req'[r].auth \/ ~RefreshOK(g))
  <2> PICK h \in 0..Current : h = g
    BY <1>1
  <2>1. ~RefreshOK(h) => ~RefreshOK(h)'
    BY ExcuseStays
  <2>2. req'[r].auth \/ Excuse(r)'
    BY <1>1, <1>3, <2>1 DEF Excuse, Keeps
  <2>3. NoReason(r)'
    BY <1>3, <2>2 DEF NoReason
  <2>4. QED  BY <1>1, <1>3, <2>3, AloneCalm
<1>4. CASE /\ req'[r].pc = "joining"
           /\ g \in Sets /\ tlock[g] # None /\ req'[r].on = tlock[g] /\ tlock' = tlock
  <2>1. PICK p \in Requests : p = tlock[g] /\ Flying(p) /\ req[p].sent = g
    BY <1>4 DEF OneFlight, Basics
  <2>2. p # r
    BY <1>1, <2>1 DEF Flying
  <2>3. \A q \in Requests : Flying(q)' <=> Flying(q)
    BY <1>1, <1>4 DEF Flying, Alone
  <2>4. \A q \in Requests : Flying(q) => req'[q] = req[q]
    BY <1>1 DEF Flying, Alone
  <2>5. OneFlight'
    <3>1. \A q \in Requests : Flying(q)' => req'[q].sent \in Sets /\ tlock'[req'[q].sent] = q
      BY <1>4, <2>3, <2>4 DEF OneFlight
    <3>2. ASSUME NEW h \in Sets, tlock'[h] # None
          PROVE  Flying(tlock[h])' /\ req'[tlock[h]].sent = h
      <4>1. tlock[h] \in Requests /\ Flying(tlock[h]) /\ req[tlock[h]].sent = h
        BY <1>4, <3>2 DEF OneFlight, Basics
      <4>2. PICK x \in Requests : x = tlock[h] /\ x = tlock'[h] /\ Flying(x) /\ req[x].sent = h
        BY <1>4, <4>1
      <4>3. QED  BY <2>3, <2>4, <4>2
    <3>3. ASSUME NEW q \in Requests, req'[q].pc = "joining"
          PROVE  \E x \in Requests : x = req'[q].on /\ Flying(x)' /\ req'[x].sent = req'[q].sent
      <4>1. CASE q = r
        BY <1>1, <1>4, <2>1, <2>3, <2>4, <4>1 DEF Keeps
      <4>2. CASE q # r
        <5>1. req'[q] = req[q]
          BY <1>1, <4>2 DEF Alone
        <5>2. PICK x \in Requests : x = req[q].on /\ Flying(x) /\ req[x].sent = req[q].sent
          BY <3>3, <5>1 DEF OneFlight
        <5>3. QED  BY <2>3, <2>4, <5>1, <5>2
      <4>3. QED  BY <4>1, <4>2
    <3>4. QED  BY <1>4, <3>1, <3>2, <3>3 DEF OneFlight
  <2>6. RotatedIsCached'
    BY <1>1, CacheStays DEF Alone
  <2>7. NoReason(r)'
    BY <1>4 DEF NoReason
  <2>8. \A q \in Requests \ {r} : NoReason(q)'
    BY <1>1, ReasonStays DEF Alone
  <2>9. QED  BY <2>5, <2>6, <2>7, <2>8 DEF Calm
<1>5. CASE /\ req'[r].pc = "refreshing"
           /\ g \in Sets /\ tlock[g] = None /\ tlock' = [tlock EXCEPT ![g] = r] /\ ~CacheLive(g)
  <2>1. /\ tlock'[g] = r /\ \A h \in Sets : h # g => tlock'[h] = tlock[h]
        /\ None \notin Requests
    BY <1>5, UserDataAssumption DEF Basics
  <2>2. \A q \in Requests : Flying(q) => req[q].sent \in Sets /\ tlock[req[q].sent] = q /\ req[q].sent # g
    BY <1>5, <2>1 DEF OneFlight
  <2>3. \A q \in Requests : Flying(q)' <=> Flying(q) \/ q = r
    BY <1>1, <1>5 DEF Flying, Alone
  <2>4. \A q \in Requests : Flying(q) => req'[q] = req[q]
    BY <1>1 DEF Flying, Alone
  <2>5. req'[r].sent = g
    BY <1>1 DEF Keeps
  <2>6. OneFlight'
    <3>1. \A q \in Requests : Flying(q)' => req'[q].sent \in Sets /\ tlock'[req'[q].sent] = q
      BY <1>5, <2>1, <2>2, <2>3, <2>4, <2>5
    <3>2. ASSUME NEW h \in Sets, tlock'[h] # None
          PROVE  \E x \in Requests : x = tlock'[h] /\ Flying(x)' /\ req'[x].sent = h
      <4>1. CASE h = g
        BY <2>1, <2>3, <2>5, <4>1
      <4>2. CASE h # g
        <5>1. PICK x \in Requests : x = tlock[h] /\ Flying(x) /\ req[x].sent = h
          BY <2>1, <3>2, <4>2 DEF OneFlight, Basics
        <5>2. QED  BY <2>1, <2>3, <2>4, <4>2, <5>1
      <4>3. QED  BY <4>1, <4>2
    <3>3. ASSUME NEW q \in Requests, req'[q].pc = "joining"
          PROVE  \E x \in Requests : x = req'[q].on /\ Flying(x)' /\ req'[x].sent = req'[q].sent
      <4>1. q # r
        BY <1>5, <3>3
      <4>2. req'[q] = req[q]
        BY <1>1, <4>1 DEF Alone
      <4>3. PICK x \in Requests : x = req[q].on /\ Flying(x) /\ req[x].sent = req[q].sent
        BY <3>3, <4>2 DEF OneFlight
      <4>4. QED  BY <2>3, <2>4, <4>2, <4>3
    <3>4. QED  BY <3>1, <3>2, <3>3 DEF OneFlight
  <2>7. RotatedIsCached'
    BY <1>1, CacheStays DEF Alone
  <2>8. g < Current => Overtaken(g)
    <3>1. SUFFICES ASSUME g < Current PROVE Overtaken(g)
      OBVIOUS
    <3>2. Current \in Nat /\ now \in Nat /\ Holdover \in Nat
      BY Numbers, UserDataAssumption
    <3>3. g \in 1..(Current - 1) /\ g + 1 \in 1..Current
      BY <1>1, <1>5, <3>1, <3>2 DEF Sets
    <3>4. tcache[g].set # 0 /\ tcache[g].at >= issued[g + 1]
      <4>1. \A q \in Requests : ~(req[q].pc = "granted" /\ req[q].sent = g)
        BY <2>2 DEF Flying
      <4>2. QED  BY <3>3, <4>1 DEF RotatedIsCached
    <3>5. now - tcache[g].at > Holdover
      BY <1>5, <3>2, <3>4 DEF CacheLive, Basics
    <3>6. tcache[g].at \in Nat /\ issued[g + 1] \in Nat
      <4>1. tcache[g].at \in Nat
        BY <1>5 DEF Basics
      <4>2. MaxTime \in Nat /\ issued[g + 1] \in 0..MaxTime
        BY <3>3, Numbers
      <4>3. QED  BY <4>1, <4>2
    <3>7. QED  BY <3>1, <3>2, <3>4, <3>5, <3>6 DEF Overtaken
  <2>9. NoReason(r)'
    <3> PICK h \in 0..Current : h = g
      BY <1>1
    <3>1. h < Current => Overtaken(h)'
      BY <2>8, ExcuseStays
    <3>2. req'[r].sent < Current' => Excuse(r)'
      BY <1>1, <2>5, <3>1 DEF Excuse
    <3>3. QED  BY <1>5, <3>2 DEF NoReason
  <2>10. \A q \in Requests \ {r} : NoReason(q)'
    BY <1>1, ReasonStays DEF Alone
  <2>11. QED  BY <2>6, <2>7, <2>9, <2>10 DEF Calm
<1>6. QED
  BY <1>2, <1>3, <1>4, <1>5, JudgeMoves
LEMMA GrantCalm ==
  ASSUME Basics, Numbered, Older, OneFlight, RotatedIsCached, \A q \in Requests : NoReason(q),
         NEW r \in Requests, Grant(r)
  PROVE  Calm
<1>1. /\ UNCHANGED <<now, session, tcache, tlock>> /\ faults' = faults /\ faults \in Nat
      /\ req[r].pc = "refreshing" /\ req'[r].pc = "granted" /\ Alone(r) /\ Keeps(req'[r], r)
      /\ req[r].sent \in 0..Current /\ Current \in Nat
  BY GrantMoves, Numbers, RequestFields DEF Grant
<1>2. OneFlight'
  <2>1. \A q \in Requests : LET f == req'[q] IN
          /\ f.pc \in {"refreshing", "granted"} <=> Flying(q)
          /\ Flying(q) => f.sent = req[q].sent
          /\ f.pc = "joining" => req[q].pc = "joining" /\ f.sent = req[q].sent /\ f.on = req[q].on
    BY <1>1 DEF Alone, Flying, Keeps
  <2>2. QED  BY <1>1, <2>1, FlightStays
<1>3. CASE issued' = issued /\ req'[r].reply = 0 /\ ~Grantable(r)
  <2>1. Current' = Current
    BY <1>3 DEF Current
  <2>2. RotatedIsCached'
    BY <1>1, <1>3, CacheStays DEF Alone
  <2>3. NoReason(r)'
    <3> PICK h \in 0..Current : h = req[r].sent
      BY <1>1
    <3>1. session = "over" \/ Excuse(r)
      <4>1. CASE h < Current
        BY <1>1, <4>1 DEF NoReason
      <4>2. CASE ~(h < Current)
        BY <1>1, <1>3, <4>2 DEF Grantable, Excuse, Basics
      <4>3. QED  BY <4>1, <4>2
    <3>2. Excuse(r) => Excuse(r)'
      BY <1>1, ExcuseStays DEF Excuse, Keeps
    <3>3. QED  BY <1>1, <3>1, <3>2 DEF NoReason
  <2>4. \A q \in Requests \ {r} : NoReason(q)'
    BY <1>1, <2>1, ReasonStays DEF Alone
  <2>5. QED  BY <1>2, <2>2, <2>3, <2>4 DEF Calm
<1>4. CASE Grantable(r) /\ issued' = Append(issued, now) /\ req'[r].reply = Current + 1
  <2>1. Current' = Current + 1 /\ req[r].sent = Current /\ \A i \in 1..Current : issued'[i] = issued[i]
    BY <1>4, Issues DEF Grantable
  <2>2. RotatedIsCached'
    <3>1. ASSUME NEW g \in 1..(Current - 1)
          PROVE  \/ tcache'[g].set # 0 /\ tcache'[g].at >= issued'[g + 1]
                 \/ \E q \in Requests : req'[q].pc = "granted" /\ req'[q].sent = g /\ req'[q].reply # 0
      <4>1. issued'[g + 1] = issued[g + 1]
        BY <1>1, <2>1
      <4>2. \A q \in Requests : req[q].pc = "granted" => req'[q] = req[q]
        BY <1>1 DEF Alone
      <4>3. QED  BY <1>1, <4>1, <4>2 DEF RotatedIsCached
    <3>2. req'[r].pc = "granted" /\ req'[r].sent = Current /\ req'[r].reply # 0
      BY <1>1, <1>4, <2>1 DEF Keeps
    <3>3. \A g \in 1..(Current' - 1) : g \in 1..(Current - 1) \/ g = Current
      BY <1>1, <2>1
    <3>4. QED  BY <3>1, <3>2, <3>3 DEF RotatedIsCached
  <2>3. NoReason(r)'
    BY <1>1, <1>4, <2>1 DEF NoReason
  <2>4. ASSUME NEW q \in Requests \ {r}
        PROVE  NoReason(q)'
    <3>1. req[q].pc = "refreshing" => req[q].sent # Current
      BY <1>1, <2>1 DEF OneFlight, Flying
    <3>2. req[q].sent \in 0..Current
      BY RequestFields
    <3>3. req[q].pc = "refreshing" /\ req[q].sent < Current' => req[q].sent < Current
      BY <1>1, <2>1, <3>1, <3>2
    <3>4. QED  BY <1>1, <3>3, ReasonStays DEF Alone
  <2>5. QED  BY <1>2, <2>2, <2>3, <2>4 DEF Calm
<1>5. QED
  BY <1>1, <1>3, <1>4, GrantMoves

LEMMA GrantedCalm ==
  ASSUME Basics, Numbered, Older, OneFlight, RotatedIsCached, \A q \in Requests : NoReason(q),
         NEW r \in Requests, Granted(r)
  PROVE  Calm
<1> DEFINE A == Flight(r, tlock[req[r].sent] \in {r, None})
           W == Waiting(r, "joining")
           n == req[r].reply
<1> PICK g \in Sets : g = req[r].sent /\ tlock[g] = r /\ Flying(r)
  BY DEF Granted, OneFlight, Flying
<1>1. /\ req[r].pc = "granted" /\ Current' = Current /\ g \in 0..Current
      /\ UNCHANGED <<issued, session, now>>
      /\ tlock' = [tlock EXCEPT ![g] = None]
      /\ tcache' = IF n # 0 THEN [tcache EXCEPT ![g] = [set |-> n, at |-> now]] ELSE tcache
  BY RequestFields DEF Granted, Current
<1>2. /\ A = {r} \cup W /\ W \subseteq Requests
      /\ \A q \in W : req[q].pc = "joining" /\ req[q].on = r /\ req[q].sent = g
  BY DEF Flight, Waiting, OneFlight
<1>3. /\ \A q \in Requests \ A : req'[q] = req[q]
      /\ \A q \in A : LET f == req'[q] IN
           /\ f.sent = req[q].sent /\ f.pc \in {"asking", "answered"}
           /\ n # 0 /\ f.pc = "answered" => f.auth
  BY GrantedMoves
<1> HIDE DEF A, W, n
<1>4. /\ tlock'[g] = None /\ \A h \in Sets : h # g => tlock'[h] = tlock[h]
      /\ r # None
  BY <1>1, UserDataAssumption DEF Basics
<1>5. \A q \in Requests : Flying(q)' <=> Flying(q) /\ q # r
  BY <1>2, <1>3 DEF Flying
<1>6. \A q \in Requests : Flying(q) /\ q # r => req'[q] = req[q] /\ req[q].sent # g
  BY <1>2, <1>3 DEF Flying, OneFlight
<1>7. OneFlight'
  <2>1. \A q \in Requests : Flying(q)' => req'[q].sent \in Sets /\ tlock'[req'[q].sent] = q
    BY <1>4, <1>5, <1>6 DEF OneFlight
  <2>2. ASSUME NEW h \in Sets, tlock'[h] # None
        PROVE  \E x \in Requests : x = tlock'[h] /\ Flying(x)' /\ req'[x].sent = h
    <3>1. h # g /\ tlock'[h] = tlock[h]
      BY <1>4, <2>2
    <3>2. PICK x \in Requests : x = tlock[h] /\ Flying(x) /\ req[x].sent = h
      BY <2>2, <3>1 DEF OneFlight, Basics
    <3>3. QED  BY <1>5, <1>6, <3>1, <3>2
  <2>3. ASSUME NEW q \in Requests, req'[q].pc = "joining"
        PROVE  \E x \in Requests : x = req'[q].on /\ Flying(x)' /\ req'[x].sent = req'[q].sent
    <3>1. q \notin A /\ req'[q] = req[q]
      BY <1>3, <2>3
    <3>2. PICK x \in Requests : x = req[q].on /\ Flying(x) /\ req[x].sent = req[q].sent
      BY <2>3, <3>1 DEF OneFlight
    <3>3. x # r
      BY <1>2, <2>3, <3>1, <3>2 DEF W, Waiting
    <3>4. QED  BY <1>5, <1>6, <3>1, <3>2, <3>3
  <2>4. QED  BY <2>1, <2>2, <2>3 DEF OneFlight
<1>8. RotatedIsCached'
  <2>1. ASSUME NEW h \in 1..(Current - 1)
        PROVE  \/ tcache'[h].set # 0 /\ tcache'[h].at >= issued[h + 1]
               \/ \E q \in Requests : req'[q].pc = "granted" /\ req'[q].sent = h /\ req'[q].reply # 0
    <3>1. h \in Sets /\ h + 1 \in 1..Current /\ Current \in Nat /\ now \in Nat
      BY Numbers
    <3>2. CASE n # 0 /\ h = g
      <4>1. tcache'[h] = [set |-> n, at |-> now]
        BY <1>1, <3>1, <3>2 DEF Basics
      <4>2. issued[h + 1] <= now /\ issued[h + 1] \in Nat
        <5>1. PICK i \in 1..Current : i = h + 1
          BY <3>1
        <5>2. \A x \in 1..Current : issued[x] <= now
          BY DEF Basics
        <5>3. \A x \in 1..Current : issued[x] \in Nat
          BY Numbers
        <5>4. QED  BY <5>1, <5>2, <5>3
      <4>3. QED  BY <3>1, <3>2, <4>1, <4>2
    <3>3. CASE ~(n # 0 /\ h = g)
      <4>1. tcache'[h] = tcache[h]
        BY <1>1, <3>1, <3>3 DEF Basics
      <4>2. ASSUME NEW q \in Requests, req[q].pc = "granted", req[q].sent = h, req[q].reply # 0
            PROVE  req'[q] = req[q]
        <5>1. q # r
          BY <3>3, <4>2 DEF n
        <5>2. QED  BY <1>6, <4>2, <5>1 DEF Flying
      <4>3. QED  BY <4>1, <4>2 DEF RotatedIsCached
    <3>4. QED  BY <3>2, <3>3
  <2>2. QED  BY <1>1, <2>1 DEF RotatedIsCached
<1>9. ASSUME NEW q \in Requests
      PROVE  NoReason(q)'
  <2>1. CASE q \notin A
    BY <1>1, <1>3, <2>1, ReasonStays
  <2>2. CASE q \in A
    <3>1. req'[q].sent = g /\ req'[q].pc \in {"asking", "answered"}
      BY <1>2, <1>3, <2>2
    <3>2. n # 0 /\ req'[q].pc = "answered" => req'[q].auth
      BY <1>3, <2>2
    <3>3. n = 0 => session' = "over" \/ Excuse(q)'
      <4>1. n = 0 => session = "over" \/ Overtaken(g) \/ ~RefreshOK(g)
        BY <1>1 DEF NoReason, Excuse, n
      <4>2. (Overtaken(g) => Overtaken(g)') /\ (~RefreshOK(g) => ~RefreshOK(g)')
        BY <1>1, ExcuseStays
      <4>3. QED  BY <1>1, <3>1, <4>1, <4>2 DEF Excuse
    <3>4. QED  BY <3>1, <3>2, <3>3 DEF NoReason
  <2>3. QED  BY <2>1, <2>2
<1>10. QED  BY <1>7, <1>8, <1>9 DEF Calm

LEMMA FetchedCalm ==
  ASSUME Basics, Numbered, Older, OneFlight, RotatedIsCached, \A q \in Requests : NoReason(q),
         NEW r \in Requests, Fetched(r)
  PROVE  Calm
<1>1. /\ UNCHANGED <<issued, tcache, tlock, session>> /\ Current' = Current /\ req[r].pc = "fetched"
  BY DEF Fetched, Current
<1>2. \A q \in Requests : LET f == req'[q] IN
        \/ f = req[q]
        \/ /\ req[q].pc \in {"fetched", "awaiting"} /\ f.pc \in {"answered", "checking"}
           /\ f.auth \/ (req[r].reply # 1 /\ (f.expired \/ AccessOK(req[r].token)))
  BY FetchedMoves
<1>3. OneFlight'
  <2>1. \A q \in Requests : LET f == req'[q] IN
          /\ f.pc \in {"refreshing", "granted"} <=> Flying(q)
          /\ Flying(q) => f.sent = req[q].sent
          /\ f.pc = "joining" => req[q].pc = "joining" /\ f.sent = req[q].sent /\ f.on = req[q].on
    BY <1>2 DEF Flying
  <2>2. QED  BY <1>1, <2>1, FlightStays
<1>4. RotatedIsCached'
  BY <1>1, <1>2, CacheStays
<1>5. ASSUME NEW q \in Requests
      PROVE  NoReason(q)'
  <2>1. CASE req'[q] = req[q]
    BY <1>1, <2>1, ReasonStays
  <2>2. CASE /\ req'[q].pc \in {"answered", "checking"}
             /\ req'[q].auth \/ (req[r].reply # 1 /\ (req'[q].expired \/ AccessOK(req[r].token)))
    <3>1. req'[q].auth \/ session' = "over" \/ req'[q].expired
      BY <1>1, <2>2 DEF NoReason
    <3>2. QED  BY <2>2, <3>1 DEF NoReason
  <2>3. QED  BY <1>2, <2>1, <2>2
<1>6. QED  BY <1>3, <1>4, <1>5 DEF Calm

LEMMA CalmStep ==
  ASSUME Basics, Numbered, Older, NothingFails, [Next]_vars
  PROVE  NothingFails'
<1> SUFFICES ASSUME faults' = 0  PROVE Calm
  BY DEF NothingFails, Calm
<1>1. faults \in Nat /\ faults' # faults + 1
  BY Numbers
<1>2. faults' = faults
  <2>1. ASSUME NEW r \in Requests, Send(r) \/ GrantFails(r) \/ Overrun(r) \/ LoseResponse(r)
        PROVE  faults' = faults
    BY <1>1, <2>1 DEF Send, GrantFails, Overrun, LoseResponse
  <2>2. ASSUME NEW r \in Requests, Step(r)  PROVE faults' = faults
    BY <1>1, <2>2 DEF Step, Receive, CheckAccess, Introspect, Grant, Granted, GetUserInfo, FetchUserInfo, Fetched, Deliver
  <2>3. CASE EndSession \/ HandleBackChannelLogout \/ Tick \/ UNCHANGED vars
    BY <1>1, <2>3 DEF EndSession, HandleBackChannelLogout, Tick, vars
  <2>4. QED  BY <2>1, <2>2, <2>3 DEF Next
<1>3. OneFlight /\ RotatedIsCached /\ \A q \in Requests : NoReason(q)
  BY <1>2 DEF NothingFails
<1>4. ASSUME UNCHANGED <<issued, tcache, tlock>>,
             \A q \in Requests : LET f == req'[q] IN
               /\ f.pc = req[q].pc /\ f.sent = req[q].sent /\ f.reply = req[q].reply /\ f.on = req[q].on
               /\ f.token = req[q].token /\ f.auth = req[q].auth /\ f.expired = req[q].expired
      PROVE  Calm
  <2>1. Current' = Current
    BY <1>4 DEF Current
  <2>2. OneFlight'
    <3>1. \A q \in Requests : LET f == req'[q] IN
            /\ f.pc \in {"refreshing", "granted"} <=> Flying(q)
            /\ Flying(q) => f.sent = req[q].sent
            /\ f.pc = "joining" => req[q].pc = "joining" /\ f.sent = req[q].sent /\ f.on = req[q].on
      BY <1>4 DEF Flying
    <3>2. QED  BY <1>3, <1>4, <3>1, FlightStays
  <2>3. RotatedIsCached'
    BY <1>3, <1>4, CacheStays
  <2>4. \A q \in Requests : NoReason(q)'
    BY <1>3, <1>4, <2>1, ReasonStays
  <2>5. QED  BY <2>2, <2>3, <2>4 DEF Calm
<1>5. ASSUME NEW r \in Requests, Alone(r), req[r].pc \notin {"refreshing", "granted"},
             req'[r].pc \notin {"refreshing", "granted", "joining", "fetched", "answered"},
             UNCHANGED <<issued, tcache, tlock>>
      PROVE  Calm
  <2>1. NoReason(r)'
    BY <1>5 DEF NoReason
  <2>2. QED  BY <1>3, <1>5, <2>1, AloneCalm
<1>6. ASSUME NEW r \in Requests, Send(r)  PROVE Calm
  BY <1>5, <1>6, SendMoves DEF Send
<1>7. ASSUME NEW r \in Requests, Receive(r)  PROVE Calm
  BY <1>5, <1>7, ReceiveMoves DEF Receive
<1>8. ASSUME NEW r \in Requests, CheckAccess(r) \/ Introspect(r)  PROVE Calm
  BY <1>3, <1>8, JudgeCalm
<1>9. ASSUME NEW r \in Requests, Grant(r)  PROVE Calm
  BY <1>3, <1>9, GrantCalm
<1>10. ASSUME NEW r \in Requests, Granted(r)  PROVE Calm
  BY <1>3, <1>10, GrantedCalm
<1>11. ASSUME NEW r \in Requests, GetUserInfo(r)  PROVE Calm
  <2>1. /\ Alone(r) /\ req[r].pc = "asking" /\ UNCHANGED <<issued, tcache, tlock>>
        /\ \/ req'[r].pc = "answered" /\ req'[r].auth
           \/ req'[r].pc \in {"awaiting", "fetching"}
    BY <1>11, GetUserInfoMoves DEF GetUserInfo
  <2>2. NoReason(r)'
    BY <2>1 DEF NoReason
  <2>3. QED  BY <1>3, <2>1, <2>2, AloneCalm
<1>12. ASSUME NEW r \in Requests, FetchUserInfo(r)  PROVE Calm
  <2>1. /\ Alone(r) /\ req[r].pc = "fetching" /\ UNCHANGED <<now, issued, tcache, tlock, session>>
        /\ req'[r].pc = "fetched" /\ req'[r].token = req[r].token
        /\ req'[r].reply # 1 => session = "over" \/ ~AccessOK(req[r].token)
    BY <1>2, <1>12, FetchMoves DEF FetchUserInfo
  <2> PICK h \in 0..Current : h = req[r].token
    BY RequestFields
  <2>2. ~AccessOK(h) => ~AccessOK(h)'
    BY ExcuseStays
  <2>3. NoReason(r)'
    BY <2>1, <2>2 DEF NoReason
  <2>4. QED  BY <1>3, <2>1, <2>3, AloneCalm
<1>13. ASSUME NEW r \in Requests, Fetched(r)  PROVE Calm
  BY <1>3, <1>13, FetchedCalm
<1>14. ASSUME NEW r \in Requests, Deliver(r)  PROVE Calm
  BY <1>5, <1>14, DoneMoves DEF Deliver
<1>15. ASSUME NEW r \in Requests, GrantFails(r) \/ Overrun(r) \/ LoseResponse(r)  PROVE FALSE
  BY <1>1, <1>15 DEF GrantFails, Overrun, LoseResponse
<1>16. CASE EndSession
  BY <1>4, <1>16 DEF EndSession
<1>17. CASE HandleBackChannelLogout
  BY <1>4, <1>17, LogoutMoves DEF HandleBackChannelLogout, Keeps
<1>18. CASE Tick
  BY <1>4, <1>18 DEF Tick
<1>19. CASE UNCHANGED vars
  BY <1>4, <1>19 DEF vars
<1>20. QED
  BY <1>6, <1>7, <1>8, <1>9, <1>10, <1>11, <1>12, <1>13, <1>14, <1>15, <1>16, <1>17, <1>18, <1>19
     DEF Next, Step
-----------------------------------------------------------------------------
(* The logout, where user info is fetched. *)
LEMMA LogoutStep ==
  ASSUME FetchInfo, Basics, Numbered, LogoutMarks, LoggedOutMeansOut, [Next]_vars
  PROVE  LogoutMarks' /\ LoggedOutMeansOut'
<1> DEFINE Goal == LogoutMarks' /\ LoggedOutMeansOut'
<1>1. ASSUME NEW r \in Requests, Alone(r), UNCHANGED <<session, told, info>>,
             req'[r].late => told, ~req'[r].auth, req'[r].pc # "fetched" \/ (req'[r].reply = 1 => session # "over")
      PROVE  Goal
  <2>1. req'[r].pc = "fetched" /\ req'[r].reply = 1 => session # "over"
    BY <1>1
  <2>2. ASSUME NEW q \in Requests, req'[q].late, req'[q].auth  PROVE req'[q].tainted
    <3>1. q # r /\ req'[q] = req[q]
      BY <1>1, <2>2 DEF Alone
    <3>2. QED  BY <2>2, <3>1 DEF LoggedOutMeansOut
  <2>3. ASSUME NEW q \in Requests
        PROVE  /\ req'[q].late => told
               /\ told /\ req'[q].pc = "fetched" /\ req'[q].reply = 1 => req'[q].tainted
    <3>1. CASE q = r
      BY <1>1, <2>1, <3>1 DEF LogoutMarks
    <3>2. CASE q # r
      BY <1>1, <3>2 DEF LogoutMarks, Alone
    <3>3. QED  BY <3>1, <3>2
  <2>4. QED  BY <1>1, <2>2, <2>3 DEF LogoutMarks, LoggedOutMeansOut
<1>2. \A q \in Requests : req[q].late => told
  BY DEF LogoutMarks
<1>3. ASSUME NEW r \in Requests, Send(r)  PROVE Goal
  BY <1>1, <1>2, <1>3, SendMoves DEF Send
<1>4. ASSUME NEW r \in Requests, Receive(r)  PROVE Goal
  BY <1>1, <1>4, ReceiveMoves DEF Receive
<1>5. ASSUME NEW r \in Requests, CheckAccess(r) \/ Introspect(r)  PROVE Goal
  <2>1. UNCHANGED <<session, told, info>>
    BY <1>5 DEF CheckAccess, Introspect
  <2>2. /\ Alone(r) /\ Keeps(req'[r], r) /\ ~req'[r].auth
        /\ req'[r].pc \in {"introspecting", "asking", "answered", "joining", "refreshing"}
    BY <1>5, JudgeMoves
  <2>3. QED  BY <1>1, <1>2, <2>1, <2>2 DEF Keeps
<1>6. ASSUME NEW r \in Requests, Grant(r) \/ GrantFails(r)  PROVE Goal
  <2>1. UNCHANGED <<session, told, info>>
    BY <1>6 DEF Grant, GrantFails
  <2>2. Alone(r) /\ Keeps(req'[r], r) /\ ~req'[r].auth /\ req'[r].pc = "granted"
    BY <1>6, GrantMoves
  <2>3. QED  BY <1>1, <1>2, <2>1, <2>2 DEF Keeps
<1>7. ASSUME UNCHANGED <<session, told, info>>,
             \A q \in Requests : LET f == req'[q] IN
               \/ f = req[q]
               \/ f.late = req[q].late /\ ~f.auth /\ f.pc \in {"asking", "answered"}
      PROVE  Goal
  <2>1. ASSUME NEW q \in Requests, req'[q].late, req'[q].auth  PROVE req'[q].tainted
    BY <1>7, <2>1 DEF LoggedOutMeansOut
  <2>2. ASSUME NEW q \in Requests
        PROVE  /\ req'[q].late => told
               /\ told /\ req'[q].pc = "fetched" /\ req'[q].reply = 1 => req'[q].tainted
    BY <1>7 DEF LogoutMarks
  <2>3. QED  BY <1>7, <2>1, <2>2 DEF LogoutMarks, LoggedOutMeansOut
<1>8. ASSUME NEW r \in Requests, Granted(r)  PROVE Goal
  <2>1. \A q \in Requests : LET f == req'[q] IN
          \/ f = req[q]
          \/ f.late = req[q].late /\ ~f.auth /\ f.pc \in {"asking", "answered"}
    BY <1>8, GrantedMoves
  <2>2. QED  BY <1>7, <1>8, <2>1 DEF Granted
<1>9. ASSUME NEW r \in Requests, Overrun(r)  PROVE Goal
  <2>1. \A q \in Requests : LET f == req'[q] IN
          \/ f = req[q]
          \/ f.late = req[q].late /\ ~f.auth /\ f.pc \in {"asking", "answered"}
    BY <1>9, OverrunMoves DEF Keeps
  <2>2. QED  BY <1>7, <1>9, <2>1 DEF Overrun
<1>10. ASSUME NEW r \in Requests, GetUserInfo(r)  PROVE Goal
  <2>1. /\ UNCHANGED <<session, told>> /\ (info' = info \/ info' = NoInfo)
        /\ Alone(r) /\ Keeps(req'[r], r) /\ req'[r].pc # "fetched"
        /\ req'[r].auth => InfoLive /\ req'[r].tainted = info.tainted
    BY <1>10, GetUserInfoMoves DEF GetUserInfo
  <2>2. InfoLive => info.till > 0
    BY Numbers DEF InfoLive, Basics
  <2>3. told' => session' = "over" /\ (info'.till > 0 => info'.tainted)
    BY <2>1 DEF LogoutMarks, NoInfo
  <2>4. ASSUME NEW q \in Requests, req'[q].late, req'[q].auth  PROVE req'[q].tainted
    <3>1. CASE q = r
      BY <1>2, <2>1, <2>2, <2>4, <3>1 DEF LogoutMarks, Keeps
    <3>2. CASE q # r
      BY <2>1, <2>4, <3>2 DEF LoggedOutMeansOut, Alone
    <3>3. QED  BY <3>1, <3>2
  <2>5. ASSUME NEW q \in Requests
        PROVE  /\ req'[q].late => told
               /\ told /\ req'[q].pc = "fetched" /\ req'[q].reply = 1 => req'[q].tainted
    <3>1. CASE q = r
      BY <1>2, <2>1, <3>1 DEF Keeps
    <3>2. CASE q # r
      BY <2>1, <3>2 DEF LogoutMarks, Alone
    <3>3. QED  BY <3>1, <3>2
  <2>6. QED  BY <2>1, <2>3, <2>4, <2>5 DEF LogoutMarks, LoggedOutMeansOut
<1>11. ASSUME NEW r \in Requests, FetchUserInfo(r)  PROVE Goal
  <2>1. UNCHANGED <<session, told, info>>
    BY <1>11 DEF FetchUserInfo
  <2>2. Alone(r) /\ Keeps(req'[r], r) /\ ~req'[r].auth /\ (req'[r].reply = 1 => session # "over")
    BY <1>11, FetchMoves
  <2>3. QED  BY <1>1, <1>2, <2>1, <2>2 DEF Keeps
<1>12. ASSUME NEW r \in Requests, Fetched(r)  PROVE Goal
  <2>1. /\ UNCHANGED <<session, told>> /\ req[r].pc = "fetched"
        /\ info' = IF req[r].reply = 1 THEN [till |-> Expires(req[r].token), tainted |-> req[r].tainted]
                   ELSE info
    BY <1>12 DEF Fetched
  <2>2. told /\ req[r].reply = 1 => req[r].tainted
    BY <2>1 DEF LogoutMarks
  <2>3. told' => session' = "over" /\ (info'.till > 0 => info'.tainted)
    BY <2>1, <2>2 DEF LogoutMarks
  <2>4. \A q \in Requests : LET f == req'[q] IN
          \/ f = req[q]
          \/ /\ Keeps(f, q) /\ f.pc \in {"answered", "checking"}
             /\ f.auth => req[r].reply = 1 /\ f.tainted = req[r].tainted
    BY <1>12, FetchedMoves
  <2>5. ASSUME NEW q \in Requests, req'[q].late, req'[q].auth  PROVE req'[q].tainted
    BY <1>2, <2>2, <2>4, <2>5 DEF LoggedOutMeansOut, Keeps
  <2>6. ASSUME NEW q \in Requests
        PROVE  /\ req'[q].late => told
               /\ told /\ req'[q].pc = "fetched" /\ req'[q].reply = 1 => req'[q].tainted
    BY <2>4 DEF LogoutMarks, Keeps
  <2>7. QED  BY <2>1, <2>3, <2>5, <2>6 DEF LogoutMarks, LoggedOutMeansOut
<1>13. ASSUME NEW r \in Requests, Deliver(r) \/ LoseResponse(r)  PROVE Goal
  <2>1. UNCHANGED <<session, told, info>>
    BY <1>13 DEF Deliver, LoseResponse
  <2>2. Alone(r) /\ ~req'[r].late /\ ~req'[r].auth /\ req'[r].pc = "done"
    BY <1>13, DoneMoves DEF Deliver, LoseResponse
  <2>3. QED  BY <1>1, <2>1, <2>2
<1>14. CASE EndSession
  BY <1>14 DEF EndSession, LogoutMarks, LoggedOutMeansOut
<1>15. CASE HandleBackChannelLogout
  <2>1. \A q \in Requests : LET f == req'[q] IN
          /\ Keeps(f, q) /\ f.pc = req[q].pc /\ f.auth = req[q].auth /\ f.reply = req[q].reply
          /\ req[q].tainted \/ req[q].pc = "fetched" => f.tainted
    BY <1>15, LogoutMoves
  <2>2. session' = "over" /\ told' /\ info' = NoInfo
    BY <1>15 DEF HandleBackChannelLogout
  <2>3. QED  BY <2>1, <2>2 DEF LogoutMarks, LoggedOutMeansOut, Keeps, NoInfo
<1>16. CASE Tick
  BY <1>16 DEF Tick, LogoutMarks, LoggedOutMeansOut
<1>17. CASE UNCHANGED vars
  BY <1>17 DEF vars, LogoutMarks, LoggedOutMeansOut
<1>18. QED
  BY <1>3, <1>4, <1>5, <1>6, <1>8, <1>9, <1>10, <1>11, <1>12, <1>13, <1>14, <1>15, <1>16, <1>17
     DEF Next, Step

-----------------------------------------------------------------------------
(* The invariant. *)
LEMMA UserInit ==
  ASSUME Init
  PROVE  UserInv
<1>1. /\ {AccessLife, RefreshLife, Holdover} \subseteq Nat \ {0} /\ MaxTime \in Nat /\ MaxFaults \in Nat
      /\ None \notin Requests
  BY UserDataAssumption
<1>2. /\ issued = <<0>> /\ Len(issued) = 1 /\ Current = 1 /\ issued[1] = 0
      /\ issued \in Seq(0..MaxTime)
  BY <1>1 DEF Init, Current
<1>3. \A r \in Requests :
        /\ Fine(req[r], Current) /\ req[r].pc = "idle" /\ req[r].sent = 0 /\ req[r].cookies = 0
        /\ ~req[r].late /\ ~req[r].auth
  <2>1. /\ NoRequest \in Request /\ NoRequest.pc = "idle" /\ NoRequest.sent = 0 /\ NoRequest.cookies = 0
        /\ NoRequest.token = 0 /\ NoRequest.reply = 0 /\ ~NoRequest.late /\ ~NoRequest.auth
    BY NewRequest DEF NoRequest
  <2>2. Fine(NoRequest, 1)
    BY <2>1 DEF Fine
  <2>3. \A r \in Requests : req[r] = NoRequest
    BY DEF Init
  <2>4. QED  BY <1>2, <2>1, <2>2, <2>3
<1>4. Basics
  <2>1. /\ req \in [Requests -> Request]
    BY NewRequest DEF Init
  <2>2. /\ tlock \in [Sets -> Requests \cup {None}]
        /\ tcache \in [Sets -> [set : Nat, at : Nat]] /\ \A g \in Sets : tcache[g].set <= 1
    BY DEF Init
  <2>3. info \in [till : Nat, tainted : BOOLEAN] /\ info.till <= MaxTime + AccessLife
    BY <1>1 DEF Init, NoInfo
  <2>4. \A i \in 1..Current : issued[i] <= now
    BY <1>2 DEF Init
  <2>5. /\ now \in 0..MaxTime /\ session \in {"live", "over"} /\ told \in BOOLEAN /\ jar \in 1..Current
        /\ ilock \in Requests \cup {None} /\ dropped \subseteq 1..Current /\ faults \in 0..MaxFaults
    <3>1. /\ now = 0 /\ session = "live" /\ told = FALSE /\ jar = 1 /\ ilock = None
          /\ dropped = {} /\ faults = 0
      BY DEF Init
    <3>2. 0 \in 0..MaxTime /\ 0 \in 0..MaxFaults /\ 1 \in 1..1
      BY <1>1
    <3>3. QED  BY <1>2, <3>1, <3>2
  <2>6. QED  BY <1>2, <1>3, <2>1, <2>2, <2>3, <2>4, <2>5 DEF Basics
<1>5. Numbered
  BY <1>2, <1>3 DEF Init, Numbered, Young
<1>6. TokensReachBrowser
  BY <1>2 DEF Init, TokensReachBrowser
<1>7. OwnedAlone
  BY <1>3 DEF OwnedAlone, Owns
<1>8. NothingFails
  <2>1. OneFlight
    BY <1>3 DEF OneFlight, Flying, Init
  <2>2. RotatedIsCached
    BY <1>2 DEF RotatedIsCached
  <2>3. \A r \in Requests : NoReason(r)
    BY <1>3 DEF NoReason
  <2>4. QED  BY <2>1, <2>2, <2>3 DEF NothingFails
<1>9. LogoutMarks /\ LoggedOutMeansOut
  BY <1>3 DEF Init, LogoutMarks, LoggedOutMeansOut
<1>10. QED  BY <1>4, <1>5, <1>6, <1>7, <1>8, <1>9 DEF UserInv

LEMMA UserStep ==
  ASSUME UserInv, [Next]_vars
  PROVE  UserInv'
<1>1. Basics' /\ Numbered'
  BY BasicsStep, NumberedStep DEF UserInv
<1>2. TokensReachBrowser' /\ OwnedAlone'
  BY BrowserStep DEF UserInv
<1>3. NothingFails'
  BY Ageing, CalmStep DEF UserInv
<1>4. FetchInfo => LogoutMarks' /\ LoggedOutMeansOut'
  BY LogoutStep DEF UserInv
<1>5. QED  BY <1>1, <1>2, <1>3, <1>4 DEF UserInv

(* The invariant: what the tokens, the caches and the requests have to do   *)
(* with each other (getUserData), whatever the order of the requests.      *)
THEOREM UserInvariant == Spec => []UserInv
<1>1. Init => UserInv
  BY UserInit
<1>2. UserInv /\ [Next]_vars => UserInv'
  BY UserStep
<1>3. QED  BY <1>1, <1>2, PTL DEF Spec

(* Every variable keeps its type: Keycloak issues no more token sets than *)
(* the clock and the faults allow, so that the numbers suffice.            *)
THEOREM UserDataTyping == Spec => []UserDataTypeOK
<1>1. UserInv => UserDataTypeOK
  <2>1. SUFFICES ASSUME UserInv  PROVE UserDataTypeOK
    OBVIOUS
  <2>2. Basics /\ Numbered
    BY <2>1 DEF UserInv
  <2>3. /\ Current \in Sets /\ 1..Current \subseteq Sets /\ Current \in Nat
        /\ MaxTime \in Nat /\ AccessLife \in Nat
    BY <2>2, Numbers, UserDataAssumption
  <2>4. \A r \in Requests :
          /\ {req[r].sent, req[r].token, req[r].cookies} \subseteq 0..Current
          /\ req[r].on \in Requests \cup {None} /\ req[r].pc \in Phases
    BY <2>2 DEF Basics, Fine, Request
  <2>5. info.till \in 0..(MaxTime + AccessLife)
    BY <2>2, <2>3 DEF Basics
  <2>6. \A g \in Sets : tlock[g] \in Requests \cup {None} /\ tcache[g].set \in 0..Current
    BY <2>2, <2>3 DEF Basics
  <2>7. QED  BY <2>2, <2>3, <2>4, <2>5, <2>6 DEF Basics, UserDataTypeOK, Phases
<1>2. QED  BY <1>1, UserInvariant, PTL

(* The newest token set is in the browser, on its way to it, or among the *)
(* four kinds of losses, after any number of requests (onRequest).         *)
THEOREM TokensSafe == Spec => []TokensReachBrowser
<1>1. UserInv => TokensReachBrowser
  BY DEF UserInv
<1>2. QED  BY <1>1, UserInvariant, PTL

(* The browser's cookies go back to an older set only by a shared refresh: *)
(* whoever alone obtained a token set has the newest (shouldUpdateCookies).*)
THEOREM JarSafe == Spec => JarGoesBackOnlyWhenShared
<1>1. UserInv /\ [Next]_vars =>
        [jar' < jar => \E r \in Requests : req[r].pc = "answered" /\ req[r].shared
                                            /\ req[r].cookies = jar' /\ req'[r].pc = "done"]_vars
  <2>1. SUFFICES ASSUME UserInv, [Next]_vars, jar' < jar
                 PROVE  \E r \in Requests : req[r].pc = "answered" /\ req[r].shared
                                             /\ req[r].cookies = jar' /\ req'[r].pc = "done"
    OBVIOUS
  <2>2. PICK r \in Requests : Deliver(r) /\ req[r].shared /\ req[r].cookies = jar'
    BY <2>1, BrowserStep DEF UserInv
  <2>3. req[r].pc = "answered" /\ req'[r].pc = "done"
    BY <2>1, <2>2, DoneMoves DEF Deliver, UserInv
  <2>4. QED  BY <2>2, <2>3
<1>2. QED  BY <1>1, UserInvariant, PTL DEF Spec, JarGoesBackOnlyWhenShared

(* While nothing fails, a browser with good cookies is answered as logged  *)
(* in, however many requests run side by side (getUserData).               *)
THEOREM LoggedInSafe == Spec => []LoggedInStaysIn
<1>1. UserInv => LoggedInStaysIn
  <2>1. SUFFICES ASSUME UserInv, NEW r \in Requests, req[r].pc = "answered", ~req[r].auth, ~(faults > 0)
                 PROVE  \/ session = "over" \/ req[r].expired
                        \/ Overtaken(req[r].sent) \/ ~RefreshOK(req[r].sent)
    BY DEF LoggedInStaysIn
  <2>2. Basics /\ Numbered /\ NothingFails
    BY <2>1 DEF UserInv
  <2>3. faults = 0
    BY <2>1, <2>2, Numbers
  <2>4. NoReason(r)
    BY <2>2, <2>3 DEF NothingFails
  <2>5. QED  BY <2>1, <2>4 DEF NoReason, Excuse
<1>2. QED  BY <1>1, UserInvariant, PTL

(* Where the connector fetches the user info (fetchUserInfo), a request    *)
(* that begins after the back-channel logout is logged out, unless its     *)
(* user info came from a fetch under way (handleBackChannelLogout).        *)
THEOREM LogoutOut ==
  ASSUME FetchInfo
  PROVE  Spec => []LoggedOutMeansOut
<1>1. UserInv => LoggedOutMeansOut
  BY FetchInfo DEF UserInv
<1>2. QED  BY <1>1, UserInvariant, PTL
=============================================================================
