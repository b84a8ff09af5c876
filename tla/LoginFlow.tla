------------------------------ MODULE LoginFlow ------------------------------
(***************************************************************************)
(* Logins, silent logins and logouts of one browser, by several tabs at    *)
(* once.  Each goes from a POST at the connector to Keycloak and back to a *)
(* callback, with the signed state in the URL and, in cookies named by its *)
(* nonce, the code verifier and the page to land on.                       *)
(*                                                                         *)
(* A request is sent and handled in one step and its response arrives, or  *)
(* is lost, in another.  A code verifier is the nonce that it belongs to.  *)
(* What the instances of a cluster know of the keys is in module           *)
(* ClusterKeys; here they have the same ones.  Nonces bounds the flows,    *)
(* MaxKey the signing keys, MaxFaults the lost responses and the errors; a *)
(* callback is tried again once.                                           *)
(***************************************************************************)
EXTENDS Naturals, FiniteSets

CONSTANTS Nonces, Pages,
          Foreign,        \* a page of an origin that is not allowed
          Home,           \* the default page
          None,
          Cluster,        \* keys of a cluster, or a key made at each start
          OtherOrigins,   \* validOrigins are configured
          KeycloakPages,  \* at logout Keycloak may show a page of its own
          MaxKey, MaxFaults

ASSUME LoginAssumption ==
  /\ {Cluster, OtherOrigins, KeycloakPages} \subseteq BOOLEAN
  /\ {MaxKey, MaxFaults} \subseteq Nat /\ MaxKey > 0
  /\ Home \notin Pages \cup {Foreign} /\ Foreign \notin Pages
  /\ None \notin Pages \cup Nonces \cup {Home, Foreign}

VARIABLES
  flow,      \* the flows: see NewFlow
  jar,       \* the flows' cookies in the browser
  tokens,    \* has the browser the cookies of a token set
  key,       \* the newest key
  started,   \* has its start come
  session,   \* is there a session at Keycloak
  expired,   \* flows begun authCookieTimeout ago
  faults

vars == <<flow, jar, tokens, key, started, session, expired, faults>>

Kinds == {"login", "silent", "logout"}
CookieNames == {"cv", "redirect", "logout"} \X Nonces

(* Mutant of CookieName: the name of the cookie has no nonce. *)
CookieName_Shared(base, n) == <<base, CHOOSE m \in Nonces : TRUE>>

CookieName(base, n) == <<base, n>>

Reply(drops, sets, go, posts) == [drops |-> drops, sets |-> sets, go |-> go, posts |-> posts]
NoReply == Reply({}, "keep", None, FALSE)

NewFlow == [kind |-> "login", at |-> "new", key |-> 1, want |-> None,
            answer |-> "none",   \* what Keycloak sent the browser back with
            asked  |-> FALSE,    \* Keycloak showed a page at logout
            used   |-> FALSE,    \* the code was redeemed
            again  |-> FALSE,    \* the callback was tried again
            reply  |-> NoReply,
            landed |-> None,     \* history: the page of the last response
            posted |-> FALSE,    \* history: the client was sent a message
            overtaken |-> FALSE, \* history: a login's tokens came before the response
            refused |-> FALSE,   \* history: it ended in a LoginError without a fault
            faulty |-> FALSE]    \* history: a fault met the flow

Init ==
  /\ flow = [n \in Nonces |-> NewFlow]
  /\ jar = [c \in CookieNames |-> None]
  /\ tokens \in BOOLEAN /\ session = tokens
  /\ key = 1 /\ started = TRUE /\ expired = {} /\ faults = 0

(* validateRedirectUriOrThrow *)
Allowed(uri) == uri # Foreign

(* getActiveKeys: a key signs from its start on. *)
SigningKey == IF started THEN key ELSE key - 1

(* The keys that verify: getPublicKeys gives the newest key, and while it  *)
(* is kept the whole record of the previous one, which is not a JWK.       *)
PublicKeys == {key}

(* validatedState: not expired, and signed by a key that verifies. *)
StateIsValid(n) == n \notin expired /\ flow[n].key \in PublicKeys

(* Mutant of FlowCookies: whatever their nonce is. *)
FlowCookies_All(n) == {c \in CookieNames : jar[c] # None}

(* The cookies that removeAuthFlowCookies finds in a request. *)
FlowCookies(n) == {c \in CookieNames : c[2] = n /\ jar[c] # None}

(* The browser keeps a cookie whose name asks for the attribute Secure     *)
(* from being replaced by one without it.                                  *)
Accepted(names, secure) == IF secure THEN names ELSE {}

(* buildRedirectCookie: there is none for a page that is not allowed. *)
RedirectCookie(want) == IF want # None /\ Allowed(want) THEN want ELSE None

LandingPage(uri) == IF uri = None THEN Home ELSE uri

Update(n, f) == flow' = [flow EXCEPT ![n] = f]
Answer(n, f, reply) == Update(n, [f EXCEPT !.at = "reply", !.reply = reply, !.overtaken = FALSE])

-----------------------------------------------------------------------------
(* handleLoginPost and redirectIfAuthenticated, by a tab or an iframe that *)
(* wants to land on page want.                                             *)
LoginPost(n, kind, want) ==
  /\ flow[n].at = "new"
  /\ LET f == [flow[n] EXCEPT !.kind = kind, !.want = want, !.key = SigningKey] IN
     IF tokens
     THEN /\ Answer(n, f, IF kind = "silent" THEN Reply({}, "keep", None, TRUE)
                          ELSE IF want # None /\ ~Allowed(want) THEN Reply({}, "keep", "login page", FALSE)
                          ELSE Reply({}, "keep", LandingPage(want), FALSE))
          /\ UNCHANGED jar
     ELSE /\ Update(n, [f EXCEPT !.at = "keycloak"])
          /\ jar' = [jar EXCEPT ![CookieName("cv", n)] = n,
                                ![CookieName("redirect", n)] = RedirectCookie(want)]
  /\ UNCHANGED <<tokens, key, started, session, expired, faults>>

HandleLogoutPost(n, want) ==
  /\ flow[n].at = "new"
  /\ Update(n, [flow[n] EXCEPT !.kind = "logout", !.want = want, !.key = SigningKey, !.at = "keycloak"])
  /\ jar' = [jar EXCEPT ![CookieName("logout", n)] = RedirectCookie(want)]
  /\ UNCHANGED <<tokens, key, started, session, expired, faults>>

(***************************************************************************)
(* Keycloak: a user logs in, a silent login needs the session, a logout    *)
(* ends it and may ask the user first.                                     *)
(***************************************************************************)
Back(n, answer) == Update(n, [flow[n] EXCEPT !.at = "back", !.answer = answer])

UserLogsIn(n) ==
  /\ flow[n].at = "keycloak" /\ flow[n].kind = "login"
  /\ Back(n, "code") /\ session' = TRUE
  /\ UNCHANGED <<jar, tokens, key, started, expired, faults>>

AnswersSilently(n) ==
  /\ flow[n].at = "keycloak" /\ flow[n].kind = "silent"
  /\ Back(n, IF session THEN "code" ELSE "login_required")
  /\ UNCHANGED <<jar, tokens, key, started, session, expired, faults>>

AnswersWithError(n) ==
  /\ flow[n].at = "keycloak" /\ flow[n].kind # "logout"
  /\ faults < MaxFaults /\ faults' = faults + 1
  /\ Update(n, [flow[n] EXCEPT !.at = "back", !.answer = "error", !.faulty = TRUE])
  /\ UNCHANGED <<jar, tokens, key, started, session, expired>>

EndsSession(n) ==
  /\ flow[n].at = "keycloak" /\ flow[n].kind = "logout"
  /\ \E asked \in BOOLEAN :
       (asked => KeycloakPages) /\ Update(n, [flow[n] EXCEPT !.at = "back", !.asked = asked])
  /\ session' = FALSE
  /\ UNCHANGED <<jar, tokens, key, started, expired, faults>>

(***************************************************************************)
(* handleCallback.  A LoginError goes to the login page, with no cookies.  *)
(***************************************************************************)
Verifier(n) == jar[CookieName("cv", n)]
Target(n) == LandingPage(jar[CookieName("redirect", n)])
CallbackValid(n) == StateIsValid(n) /\ Verifier(n) # None /\ Allowed(Target(n))

Refuse(n) == Answer(n, [flow[n] EXCEPT !.refused = TRUE], Reply({}, "keep", "login page", FALSE))

CallbackRefused(n) ==
  /\ flow[n].at = "back" /\ flow[n].kind # "logout"
  /\ \/ ~CallbackValid(n)
     \/ /\ flow[n].answer = "code" /\ (flow[n].used \/ Verifier(n) # n)
     \/ /\ flow[n].answer = "error"
     \/ /\ flow[n].answer = "login_required" /\ flow[n].kind # "silent"
  /\ Refuse(n)
  /\ UNCHANGED <<jar, tokens, key, started, session, expired, faults>>

CallbackNeedsLogin(n) ==
  /\ flow[n].at = "back" /\ flow[n].kind = "silent" /\ CallbackValid(n)
  /\ flow[n].answer = "login_required"
  /\ Answer(n, flow[n], Reply(Accepted(FlowCookies(n), TRUE), "keep", None, TRUE))
  /\ UNCHANGED <<jar, tokens, key, started, session, expired, faults>>

(* The code is redeemed; the grant may fail before or after that. *)
CallbackGrants(n) ==
  /\ flow[n].at = "back" /\ flow[n].kind # "logout" /\ CallbackValid(n)
  /\ flow[n].answer = "code" /\ ~flow[n].used /\ Verifier(n) = n
  /\ \/ /\ Answer(n, [flow[n] EXCEPT !.used = TRUE],
                  Reply(Accepted(FlowCookies(n), TRUE), "set",
                        IF flow[n].kind = "silent" THEN None ELSE Target(n),
                        flow[n].kind = "silent"))
        /\ UNCHANGED faults
     \/ /\ faults < MaxFaults /\ faults' = faults + 1
        /\ \E used \in BOOLEAN :
             Answer(n, [flow[n] EXCEPT !.used = used, !.faulty = TRUE],
                    Reply({}, "keep", "login page", FALSE))
  /\ UNCHANGED <<jar, tokens, key, started, session, expired>>

(***************************************************************************)
(* handleLogoutCallback removes the token cookies that came with the       *)
(* request: a strict cookie does not, when a page of Keycloak sent it.     *)
(***************************************************************************)
TokensSent(n) == tokens /\ (OtherOrigins \/ ~flow[n].asked)

(* Mutant of HandleLogoutCallback: the tokens go when the state is valid. *)
HandleLogoutCallback_Valid(n) ==
  /\ flow[n].at = "back" /\ flow[n].kind = "logout"
  /\ Answer(n, flow[n],
       IF StateIsValid(n)
       THEN Reply(Accepted(FlowCookies(n), FALSE), IF TokensSent(n) THEN "drop" ELSE "keep",
                  LandingPage(jar[CookieName("logout", n)]), FALSE)
       ELSE Reply({}, "keep", Home, FALSE))
  /\ UNCHANGED <<jar, tokens, key, started, session, expired, faults>>

HandleLogoutCallback(n) ==
  /\ flow[n].at = "back" /\ flow[n].kind = "logout"
  /\ LET sets == IF TokensSent(n) THEN "drop" ELSE "keep" IN
     Answer(n, flow[n],
       IF StateIsValid(n)
       THEN Reply(Accepted(FlowCookies(n), FALSE), sets,
                  LandingPage(jar[CookieName("logout", n)]), FALSE)
       ELSE Reply({}, sets, Home, FALSE))
  /\ UNCHANGED <<jar, tokens, key, started, session, expired, faults>>

(***************************************************************************)
(* The browser.                                                            *)
(***************************************************************************)
Deliver(n) ==
  /\ flow[n].at = "reply"
  /\ LET reply == flow[n].reply IN
     /\ jar' = [c \in CookieNames |-> IF c \in reply.drops THEN None ELSE jar[c]]
     /\ tokens' = CASE reply.sets = "set" -> TRUE [] reply.sets = "drop" -> FALSE [] OTHER -> tokens
     /\ flow' = [m \in Nonces |->
          IF m = n THEN [flow[n] EXCEPT !.at = "done", !.landed = reply.go, !.posted = @ \/ reply.posts]
          ELSE IF reply.sets = "set" /\ flow[m].at = "reply" THEN [flow[m] EXCEPT !.overtaken = TRUE]
          ELSE flow[m]]
  /\ UNCHANGED <<key, started, session, expired, faults>>

LoseReply(n) ==
  /\ flow[n].at = "reply" /\ faults < MaxFaults /\ faults' = faults + 1
  /\ Update(n, [flow[n] EXCEPT !.at = "done", !.faulty = TRUE])
  /\ UNCHANGED <<jar, tokens, key, started, session, expired>>

(* The user loads the callback's page again. *)
Reload(n) ==
  /\ flow[n].at = "done" /\ flow[n].answer # "none" /\ ~flow[n].again
  /\ Update(n, [flow[n] EXCEPT !.at = "back", !.again = TRUE])
  /\ UNCHANGED <<jar, tokens, key, started, session, expired, faults>>

(* The state and the cookies of a flow expire together. *)
Expire(n) ==
  /\ flow[n].at # "new" /\ n \notin expired /\ expired' = expired \cup {n}
  /\ jar' = [c \in CookieNames |-> IF c[2] = n THEN None ELSE jar[c]]
  /\ UNCHANGED <<flow, tokens, key, started, session, faults>>

(* A rotation of the cluster's keys, when the last one has started, or a   *)
(* restart with a key of its own.                                          *)
NewKey == /\ key < MaxKey /\ started
          /\ key' = key + 1 /\ started' = ~Cluster
          /\ UNCHANGED <<flow, jar, tokens, session, expired, faults>>

KeyStarts == /\ ~started /\ started' = TRUE
             /\ UNCHANGED <<flow, jar, tokens, key, session, expired, faults>>

TokensExpire == /\ tokens /\ tokens' = FALSE
                /\ UNCHANGED <<flow, jar, key, started, session, expired, faults>>

Next ==
  \/ \E n \in Nonces :
       \/ \E want \in Pages \cup {Foreign, None} :
            \/ LoginPost(n, "login", want) \/ HandleLogoutPost(n, want)
       \/ LoginPost(n, "silent", None)
       \/ UserLogsIn(n) \/ AnswersSilently(n) \/ AnswersWithError(n) \/ EndsSession(n)
       \/ CallbackRefused(n) \/ CallbackNeedsLogin(n) \/ CallbackGrants(n)
       \/ HandleLogoutCallback(n) \/ Deliver(n) \/ LoseReply(n) \/ Reload(n) \/ Expire(n)
  \/ NewKey \/ KeyStarts \/ TokensExpire

Spec == Init /\ [][Next]_vars

-----------------------------------------------------------------------------
Replies == [drops : SUBSET CookieNames, sets : {"keep", "set", "drop"},
            go : Pages \cup {Home, "login page", None}, posts : BOOLEAN]

(* Every variable has its type; no response sends the browser to a page    *)
(* that is not allowed.                                                    *)
LoginTypeOK ==
  /\ jar \in [CookieNames -> Nonces \cup Pages \cup {None}]
  /\ tokens \in BOOLEAN /\ session \in BOOLEAN
  /\ key \in 1..MaxKey /\ started \in BOOLEAN /\ (~started => key > 1)
  /\ expired \subseteq Nonces /\ faults \in 0..MaxFaults
  /\ \A n \in Nonces :
       /\ flow[n].kind \in Kinds /\ flow[n].key \in 1..key
       /\ flow[n].at \in {"new", "keycloak", "back", "reply", "done"}
       /\ flow[n].answer \in {"none", "code", "login_required", "error"}
       /\ flow[n].reply \in Replies

(* The login of a tab is refused only when it took too long, there is a    *)
(* newer key than the one that signed it, its code was redeemed already,   *)
(* or a call failed: not because of what other tabs do (handleCallback,    *)
(* getPublicKeys).                                                         *)
RefusedForReason ==
  \A n \in Nonces : flow[n].refused =>
    \/ n \in expired \/ flow[n].used \/ flow[n].faulty \/ flow[n].again
    \/ flow[n].key < key

(* A tab lands on the page that it asked for, whatever other tabs asked    *)
(* for (buildRedirectCookie, handleCallback, handleLogoutCallback).        *)
LandsWhereItAsked ==
  \A n \in Nonces : flow[n].at = "done" /\ flow[n].landed \notin {None, "login page"} =>
    \/ flow[n].landed = LandingPage(RedirectCookie(flow[n].want))
    \/ flow[n].kind = "logout" /\ flow[n].landed = Home
         /\ (n \in expired \/ flow[n].key < key)

(* The browser has no tokens when a logout comes back, unless a login's    *)
(* tokens came while the response was under way: "Strip auth cookies".     *)
LogoutStripsTokens ==
  [][\A n \in Nonces : flow[n].kind = "logout" /\ flow[n].at = "reply" /\ flow'[n].at = "done"
                         /\ faults' = faults /\ tokens'
       => flow[n].overtaken]_vars

(* A flow is signed with a key that verifies it: "Add the previous key" of *)
(* getPublicKeys, for the time until the new one starts.                   *)
SignedToVerify ==
  [][\A n \in Nonces : flow[n].at = "new" /\ flow'[n].at = "keycloak"
       => flow'[n].key \in PublicKeys]_vars

(* A silent login ends with a message to the client, when no response was  *)
(* lost: "Silent, return data via silent login response" of                *)
(* handleCallbackWrapped.                                                  *)
SilentFlowsPost ==
  \A n \in Nonces : flow[n].kind = "silent" /\ flow[n].at = "done" /\ flow[n].landed # None
                      => flow[n].posted

(* The cookie of a logout is gone when the logout has come back: "This     *)
(* nonce will ensure authorization cookies are cleared automatically when  *)
(* KC returns".                                                            *)
LogoutCookieGone ==
  \A n \in Nonces : flow[n].kind = "logout" /\ flow[n].at = "done" /\ ~flow[n].faulty
                      => FlowCookies(n) = {}
=============================================================================
