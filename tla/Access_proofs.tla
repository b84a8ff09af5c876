---------------------------- MODULE Access_proofs ----------------------------
(***************************************************************************)
(* Who gets in and what he may do: login flows for any tabs, pages, keys   *)
(* and faults; then, for any plugins, routes, rules and trees, the auth    *)
(* plugin manager, the role helper, the search of the group auth plugin    *)
(* and that plugin's verdict on a user's groups.                           *)
(***************************************************************************)
EXTENDS LoginFlow, AuthPlugins, RoleRules, GroupAuth, SequenceTheorems, WellFoundedInduction, TLAPS

-----------------------------------------------------------------------------
(***************************************************************************)
(* Logins, silent logins and logouts: a tab's flow is not disturbed by the *)
(* others'.                                                                *)
(***************************************************************************)
Targets == Pages \cup {Foreign, None}
Landings == Pages \cup {Home, "login page", None}

Flows == [kind : Kinds, at : {"new", "keycloak", "back", "reply", "done"},
          key : 1..MaxKey, want : Targets,
          answer : {"none", "code", "login_required", "error"},
          asked : BOOLEAN, used : BOOLEAN, again : BOOLEAN, reply : Replies,
          landed : Landings, posted : BOOLEAN, overtaken : BOOLEAN,
          refused : BOOLEAN, faulty : BOOLEAN]

FlowsTyped == /\ flow \in [Nonces -> Flows] /\ jar \in [CookieNames -> Nonces \cup Pages \cup {None}]
              /\ LoginTypeOK

(* There is a newer key than the one that signed the state of flow n. *)
KeyGone(n) == flow[n].key < key

(* A page that a response of flow n may send the browser to. *)
RightPage(n, page) ==
  \/ page \in {None, "login page"} \/ page = LandingPage(RedirectCookie(flow[n].want))
  \/ flow[n].kind = "logout" /\ page = Home /\ (n \in expired \/ KeyGone(n))

(* Nothing has happened to a flow that has not begun. *)
NewIsNew(n) == flow[n].at = "new" => flow[n] = NewFlow /\ \A c \in FlowCookies(n) : FALSE

(* The cookies of a flow are its own, together or not at all. *)
OwnCookies(n) ==
  /\ jar[<<"cv", n>>] # None => /\ jar[<<"cv", n>>] = n
                                /\ jar[<<"redirect", n>>] = RedirectCookie(flow[n].want)
  /\ flow[n].kind = "logout" /\ n \notin expired
       => jar[<<"logout", n>>] = RedirectCookie(flow[n].want)

(* They are there until the first callback of the flow. *)
CookiesLast(n) ==
  flow[n].kind # "logout" /\ flow[n].at \in {"keycloak", "back"} /\ ~flow[n].again /\ n \notin expired
    => jar[<<"cv", n>>] # None

(* A response drops cookies of its flow only, and all of them. *)
OwnDrops(n) ==
  /\ \A c \in flow[n].reply.drops : c[2] = n
  /\ flow[n].kind = "logout" => flow[n].reply.drops = {} /\ flow[n].reply.sets # "set"
  /\ flow[n].at = "reply" /\ flow[n].reply.drops # {} => FlowCookies(n) \subseteq flow[n].reply.drops

(* What Keycloak answers, and why. *)
AnswersRight(n) ==
  /\ flow[n].answer = "error" => flow[n].faulty
  /\ flow[n].answer = "login_required" => flow[n].kind = "silent"
  /\ flow[n].asked => KeycloakPages

PagesRight(n) == RightPage(n, flow[n].landed) /\ RightPage(n, flow[n].reply.go)

Reason(n) ==
  flow[n].refused =>
    n \in expired \/ flow[n].used \/ flow[n].faulty \/ flow[n].again \/ KeyGone(n)

(* The response of a logout that leaves the tokens has none to take. *)
NoneLeft(n) ==
  flow[n].kind = "logout" /\ flow[n].at = "reply" /\ flow[n].reply.sets = "keep" /\ ~flow[n].overtaken
    => ~tokens \/ ~(OtherOrigins \/ ~KeycloakPages)

FlowInv(n) ==
  /\ NewIsNew(n) /\ OwnCookies(n) /\ CookiesLast(n) /\ OwnDrops(n)
  /\ AnswersRight(n) /\ PagesRight(n) /\ Reason(n) /\ NoneLeft(n)

LoginInv == FlowsTyped /\ \A n \in Nonces : FlowInv(n)

-----------------------------------------------------------------------------
(* What is left to say of the types after a step. *)
LEMMA Typed ==
  ASSUME flow' \in [Nonces -> Flows], jar' \in [CookieNames -> Nonces \cup Pages \cup {None}],
         tokens' \in BOOLEAN, session' \in BOOLEAN, key' \in 1..MaxKey, expired' \subseteq Nonces,
         started' \in BOOLEAN, ~started' => key' > 1, faults' \in 0..MaxFaults, \A n \in Nonces : flow'[n].key <= key'
  PROVE  FlowsTyped'
<1>1. ASSUME NEW n \in Nonces
      PROVE  /\ flow'[n].kind \in Kinds /\ flow'[n].key \in 1..key'
             /\ flow'[n].at \in {"new", "keycloak", "back", "reply", "done"}
             /\ flow'[n].answer \in {"none", "code", "login_required", "error"}
             /\ flow'[n].reply \in Replies
  <2>1. flow'[n] \in Flows /\ flow'[n].key <= key'
    BY <1>1
  <2>2. QED  BY <2>1, LoginAssumption DEF Flows
<1>2. QED  BY <1>1 DEF FlowsTyped, LoginTypeOK

LEMMA CookieFacts ==
  ASSUME NEW n \in Nonces
  PROVE  /\ \A kind \in {"cv", "redirect", "logout"} : <<kind, n>> \in CookieNames
         /\ \A c \in CookieNames : c[2] = n <=> c \in {<<"cv", n>>, <<"redirect", n>>, <<"logout", n>>}
BY DEF CookieNames

LEMMA FlowFacts ==
  ASSUME FlowsTyped, NEW n \in Nonces
  PROVE  /\ flow[n] \in Flows /\ flow[n].key \in Nat /\ flow[n].key <= key
         /\ key \in Nat /\ key \in 1..MaxKey /\ flow[n].key \in 1..MaxKey
         /\ SigningKey \in 1..MaxKey /\ SigningKey \in Nat /\ SigningKey <= key
BY LoginAssumption DEF FlowsTyped, LoginTypeOK, Flows, SigningKey

(* A flow keeps what it has when a step leaves it and its cookies alone,   *)
(* or notes that tokens came before its response.                          *)
LEMMA Frame ==
  ASSUME FlowsTyped, FlowsTyped', NEW m \in Nonces, FlowInv(m),
         flow'[m] = flow[m] \/ (flow[m].at = "reply" /\ flow'[m] = [flow[m] EXCEPT !.overtaken = TRUE]),
         \A c \in CookieNames : c[2] = m => jar'[c] = jar[c],
         m \in expired' <=> m \in expired, key' >= key,
         tokens' => tokens \/ flow'[m].overtaken \/ flow[m].at # "reply"
  PROVE  FlowInv(m)'
<1>0. /\ flow'[m].kind = flow[m].kind /\ flow'[m].at = flow[m].at /\ flow'[m].key = flow[m].key
      /\ flow'[m].want = flow[m].want /\ flow'[m].answer = flow[m].answer /\ flow'[m].asked = flow[m].asked
      /\ flow'[m].used = flow[m].used /\ flow'[m].again = flow[m].again /\ flow'[m].reply = flow[m].reply
      /\ flow'[m].landed = flow[m].landed /\ flow'[m].refused = flow[m].refused
      /\ flow'[m].faulty = flow[m].faulty /\ (flow[m].overtaken => flow'[m].overtaken)
  BY FlowFacts DEF Flows
<1>1. \A kind \in {"cv", "redirect", "logout"} : jar'[<<kind, m>>] = jar[<<kind, m>>]
  BY CookieFacts
<1>2. \A c : c \in FlowCookies(m)' <=> c \in FlowCookies(m)
  BY DEF FlowCookies
<1>3. KeyGone(m) => KeyGone(m)'
  <2>1. key \in Nat /\ key' \in Nat /\ flow[m].key \in Nat
    BY FlowFacts DEF FlowsTyped, LoginTypeOK
  <2>2. QED  BY <1>0, <2>1 DEF KeyGone
<1>4. NewIsNew(m)' /\ OwnDrops(m)'
  BY <1>0, <1>2 DEF FlowInv, NewIsNew, OwnDrops
<1>5. OwnCookies(m)' /\ CookiesLast(m)' /\ AnswersRight(m)' /\ NoneLeft(m)'
  BY <1>0, <1>1 DEF FlowInv, OwnCookies, CookiesLast, AnswersRight, NoneLeft
<1>6. PagesRight(m)'
  BY <1>0, <1>3 DEF FlowInv, PagesRight, RightPage
<1>7. Reason(m)'
  BY <1>0, <1>3 DEF FlowInv, Reason
<1>8. QED  BY <1>4, <1>5, <1>6, <1>7 DEF FlowInv

(* One flow of the many changes. *)
LEMMA Updated ==
  ASSUME FlowsTyped, NEW n \in Nonces, NEW f \in Flows, Update(n, f)
  PROVE  /\ flow' \in [Nonces -> Flows] /\ flow'[n] = f
         /\ \A m \in Nonces \ {n} : flow'[m] = flow[m]
BY DEF Update, FlowsTyped

(* A step of one flow, which touches no other's cookies, has only its own  *)
(* flow to answer for.                                                     *)
LEMMA OneFlow ==
  ASSUME LoginInv, NEW n \in Nonces, NEW f \in Flows, Update(n, f), f.key <= key,
         jar' \in [CookieNames -> Nonces \cup Pages \cup {None}],
         \A c \in CookieNames : c[2] # n => jar'[c] = jar[c],
         session' \in BOOLEAN, faults' \in 0..MaxFaults, UNCHANGED <<tokens, key, started, expired>>,
         FlowsTyped' => FlowInv(n)'
  PROVE  LoginInv'
<1>1. /\ flow' \in [Nonces -> Flows] /\ flow'[n] = f
      /\ \A m \in Nonces \ {n} : flow'[m] = flow[m]
  BY Updated DEF LoginInv
<1>2. FlowsTyped'
  <2>1. \A m \in Nonces : flow[m].key <= key
    BY FlowFacts DEF LoginInv
  <2>2. \A m \in Nonces : flow'[m].key <= key'
    BY <1>1, <2>1
  <2>3. /\ tokens' \in BOOLEAN /\ key' \in 1..MaxKey /\ expired' \subseteq Nonces
        /\ started' \in BOOLEAN /\ (~started' => key' > 1)
    BY DEF LoginInv, FlowsTyped, LoginTypeOK
  <2>4. QED  BY <1>1, <2>2, <2>3, Typed
<1>3. ASSUME NEW m \in Nonces \ {n} PROVE FlowInv(m)'
  <2>1. key' >= key /\ (tokens' => tokens)
    BY FlowFacts DEF LoginInv
  <2>2. QED  BY <1>1, <1>2, <2>1, Frame DEF LoginInv
<1>4. QED  BY <1>2, <1>3 DEF LoginInv

(* The same for a step that answers a flow's request. *)
LEMMA AnswerFacts ==
  ASSUME FlowsTyped, NEW n \in Nonces, NEW f \in Flows, NEW reply \in Replies, Answer(n, f, reply)
  PROVE  /\ [f EXCEPT !.at = "reply", !.reply = reply, !.overtaken = FALSE] \in Flows
         /\ Update(n, [f EXCEPT !.at = "reply", !.reply = reply, !.overtaken = FALSE])
         /\ flow'[n] = [f EXCEPT !.at = "reply", !.reply = reply, !.overtaken = FALSE]
<1>1. [f EXCEPT !.at = "reply", !.reply = reply, !.overtaken = FALSE] \in Flows
  BY DEF Flows
<1>2. QED  BY <1>1, Updated DEF Answer

-----------------------------------------------------------------------------
(* The actions, one by one. *)
LEMMA CookieTyped ==
  ASSUME NEW want \in Targets
  PROVE  RedirectCookie(want) \in Pages \cup {None}
BY DEF RedirectCookie, Allowed, Targets

LEMMA LoginPostStep ==
  ASSUME LoginInv, NEW n \in Nonces, NEW kind \in {"login", "silent"}, NEW want \in Targets,
         LoginPost(n, kind, want)
  PROVE  LoginInv'
<1> DEFINE f == [flow[n] EXCEPT !.kind = kind, !.want = want, !.key = SigningKey]
<1>1. /\ FlowsTyped /\ FlowInv(n) /\ flow[n] \in Flows /\ SigningKey \in 1..MaxKey /\ SigningKey <= key
      /\ flow[n] = NewFlow /\ flow[n].at = "new" /\ \A c \in FlowCookies(n) : FALSE
  BY FlowFacts DEF LoginInv, LoginPost, FlowInv, NewIsNew
<1>2. f \in Flows /\ f.key <= key
  <2>1. flow[n] \in Flows /\ kind \in Kinds /\ want \in Targets /\ SigningKey \in 1..MaxKey
    BY <1>1 DEF Kinds
  <2>2. f \in Flows /\ f.key = SigningKey
    BY <2>1 DEF Flows
  <2>3. QED  BY <1>1, <2>2
<1>3. /\ f.kind = kind /\ f.want = want /\ f.answer = "none" /\ ~f.asked /\ ~f.refused /\ f.landed = None
  BY <1>1 DEF NewFlow, NoReply, Reply
<1>4. CASE tokens
  <2> DEFINE page == IF kind = "silent" THEN None
                     ELSE IF want # None /\ ~Allowed(want) THEN "login page" ELSE LandingPage(want)
             posts == kind = "silent"
             reply == Reply({}, "keep", page, posts)
             g == [f EXCEPT !.at = "reply", !.reply = reply, !.overtaken = FALSE]
  <2>1. Answer(n, f, reply) /\ UNCHANGED jar
    BY <1>4 DEF LoginPost
  <2>2. page \in Landings
    BY DEF Landings, Targets, LandingPage, Allowed
  <2>3. reply \in Replies /\ reply.drops = {} /\ reply.sets = "keep" /\ reply.go = page
    <3>1. {} \in SUBSET CookieNames /\ posts \in BOOLEAN
      OBVIOUS
    <3> HIDE DEF page, posts
    <3>2. QED  BY <2>2, <3>1 DEF Reply, Replies, Landings
  <2>4. page \in {None, "login page"} \/ page = LandingPage(RedirectCookie(want))
    BY DEF LandingPage, RedirectCookie
  <2> HIDE DEF page, reply, f
  <2>5. g \in Flows /\ Update(n, g) /\ flow'[n] = g
    BY <1>1, <1>2, <2>1, <2>3, AnswerFacts
  <2>6. /\ g.kind = kind /\ g.want = want /\ g.at = "reply" /\ g.reply = reply /\ g.landed = None
        /\ g.answer = "none" /\ ~g.asked /\ ~g.refused /\ g.key <= key
    BY <1>2, <1>3, <2>5 DEF Flows
  <2>7. FlowInv(n)'
    <3>1. jar' = jar /\ jar[<<"cv", n>>] = None
      BY <1>1, <2>1, CookieFacts DEF FlowCookies
    <3> HIDE DEF g
    <3>2. PagesRight(n)'
      BY <2>3, <2>4, <2>5, <2>6 DEF PagesRight, RightPage
    <3>3. NewIsNew(n)' /\ OwnCookies(n)' /\ CookiesLast(n)'
      BY <2>5, <2>6, <3>1 DEF NewIsNew, OwnCookies, CookiesLast
    <3>4. OwnDrops(n)' /\ AnswersRight(n)' /\ Reason(n)' /\ NoneLeft(n)'
      BY <2>3, <2>5, <2>6 DEF OwnDrops, AnswersRight, Reason, NoneLeft
    <3>5. QED  BY <3>2, <3>3, <3>4 DEF FlowInv
  <2>8. QED
    BY <2>1, <2>5, <2>6, <2>7, OneFlow DEF LoginPost, LoginInv, FlowsTyped, LoginTypeOK
<1>5. CASE ~tokens
  <2> DEFINE g == [f EXCEPT !.at = "keycloak"]
  <2>1. /\ Update(n, g)
        /\ jar' = [jar EXCEPT ![<<"cv", n>>] = n, ![<<"redirect", n>>] = RedirectCookie(want)]
    BY <1>5 DEF LoginPost, CookieName
  <2>2. g \in Flows /\ g.key <= key
    <3> HIDE DEF f
    <3>1. QED  BY <1>2 DEF Flows
  <2>3. flow'[n] = g
    BY <1>1, <2>1, <2>2, Updated
  <2>4. /\ g.kind = kind /\ g.want = want /\ g.at = "keycloak" /\ g.reply = NoReply /\ g.landed = None
        /\ g.answer = "none" /\ ~g.asked /\ ~g.refused
    BY <1>1 DEF NewFlow
  <2>5. /\ jar' \in [CookieNames -> Nonces \cup Pages \cup {None}]
        /\ jar'[<<"cv", n>>] = n /\ jar'[<<"redirect", n>>] = RedirectCookie(want)
        /\ \A c \in CookieNames : c[2] # n => jar'[c] = jar[c]
    BY <1>1, <2>1, CookieFacts, CookieTyped DEF FlowsTyped
  <2> HIDE DEF f, g
  <2>6. FlowInv(n)'
    <3>1. None \notin Nonces /\ NoReply.drops = {} /\ NoReply.go = None
      BY LoginAssumption DEF NoReply, Reply
    <3>2. NewIsNew(n)' /\ OwnCookies(n)' /\ CookiesLast(n)'
      BY <2>3, <2>4, <2>5, <3>1 DEF NewIsNew, OwnCookies, CookiesLast
    <3>3. OwnDrops(n)' /\ AnswersRight(n)' /\ Reason(n)' /\ NoneLeft(n)'
      BY <2>3, <2>4, <3>1 DEF OwnDrops, AnswersRight, Reason, NoneLeft
    <3>4. PagesRight(n)'
      BY <2>3, <2>4, <3>1 DEF PagesRight, RightPage
    <3>5. QED  BY <3>2, <3>3, <3>4 DEF FlowInv
  <2>7. QED
    BY <2>1, <2>2, <2>5, <2>6, OneFlow DEF LoginPost, LoginInv, FlowsTyped, LoginTypeOK
<1>6. QED  BY <1>4, <1>5

LEMMA HandleLogoutPostStep ==
  ASSUME LoginInv, NEW n \in Nonces, NEW want \in Targets, HandleLogoutPost(n, want)
  PROVE  LoginInv'
<1> DEFINE g == [flow[n] EXCEPT !.kind = "logout", !.want = want, !.key = SigningKey, !.at = "keycloak"]
<1>1. /\ FlowsTyped /\ FlowInv(n) /\ flow[n] \in Flows /\ SigningKey \in 1..MaxKey /\ SigningKey <= key
      /\ flow[n] = NewFlow /\ \A c \in FlowCookies(n) : FALSE
  BY FlowFacts DEF LoginInv, HandleLogoutPost, FlowInv, NewIsNew
<1>2. g \in Flows /\ g.key <= key
  <2>1. flow[n] \in Flows /\ "logout" \in Kinds /\ want \in Targets /\ SigningKey \in 1..MaxKey
    BY <1>1 DEF Kinds
  <2>2. g \in Flows /\ g.key = SigningKey
    BY <2>1 DEF Flows
  <2>3. QED  BY <1>1, <2>2
<1>3. Update(n, g) /\ jar' = [jar EXCEPT ![<<"logout", n>>] = RedirectCookie(want)]
  BY DEF HandleLogoutPost, CookieName
<1>4. flow'[n] = g
  BY <1>1, <1>2, <1>3, Updated
<1>5. /\ g.kind = "logout" /\ g.want = want /\ g.at = "keycloak" /\ g.reply = NoReply /\ g.landed = None
      /\ g.answer = "none" /\ ~g.asked /\ ~g.refused
  BY <1>1 DEF NewFlow
<1>6. /\ jar' \in [CookieNames -> Nonces \cup Pages \cup {None}]
      /\ jar'[<<"cv", n>>] = jar[<<"cv", n>>] /\ jar'[<<"logout", n>>] = RedirectCookie(want)
      /\ \A c \in CookieNames : c[2] # n => jar'[c] = jar[c]
  BY <1>1, <1>3, CookieFacts, CookieTyped DEF FlowsTyped
<1>7. jar[<<"cv", n>>] = None
  BY <1>1, CookieFacts DEF FlowCookies
<1> HIDE DEF g
<1>8. FlowInv(n)'
  BY <1>4, <1>5, <1>6, <1>7
     DEF FlowInv, NewIsNew, OwnCookies, CookiesLast, OwnDrops, AnswersRight, PagesRight, RightPage,
         Reason, NoneLeft, NoReply, Reply
<1>9. QED
  BY <1>2, <1>3, <1>6, <1>8, OneFlow DEF HandleLogoutPost, LoginInv, FlowsTyped, LoginTypeOK

(* A step of Keycloak, or one that brings the browser back to a callback:  *)
(* the flow keeps its cookies, its pages and what was said of it.          *)
LEMMA BackStep ==
  ASSUME LoginInv, NEW n \in Nonces, NEW f \in Flows, Update(n, f), f.at = "back",
         flow[n].at # "new", f.key = flow[n].key, f.kind = flow[n].kind, f.want = flow[n].want,
         f.landed = flow[n].landed, f.reply = flow[n].reply, f.refused = flow[n].refused,
         flow[n].used => f.used, flow[n].faulty => f.faulty, flow[n].again => f.again,
         flow[n].at \notin {"keycloak", "back"} => f.again,
         f.answer = "error" => f.faulty, f.answer = "login_required" => f.kind = "silent",
         f.asked => KeycloakPages,
         session' \in BOOLEAN, faults' \in 0..MaxFaults, UNCHANGED <<jar, tokens, key, started, expired>>
  PROVE  LoginInv'
<1>1. FlowsTyped /\ FlowInv(n) /\ f.key <= key
  BY FlowFacts DEF LoginInv
<1>2. flow'[n] = f
  BY <1>1, Updated
<1>3. FlowInv(n)'
  <2>1. OwnCookies(n)' /\ CookiesLast(n)'
    BY <1>1, <1>2 DEF FlowInv, OwnCookies, CookiesLast
  <2>2. NewIsNew(n)' /\ AnswersRight(n)' /\ OwnDrops(n)' /\ NoneLeft(n)'
    BY <1>1, <1>2 DEF FlowInv, NewIsNew, AnswersRight, OwnDrops, NoneLeft
  <2>3. PagesRight(n)' /\ Reason(n)'
    BY <1>1, <1>2 DEF FlowInv, PagesRight, RightPage, KeyGone, Reason
  <2>4. QED  BY <2>1, <2>2, <2>3 DEF FlowInv
<1>4. QED
  BY <1>1, <1>3, OneFlow DEF LoginInv, FlowsTyped

LEMMA KeycloakStep ==
  ASSUME LoginInv, NEW n \in Nonces,
         UserLogsIn(n) \/ AnswersSilently(n) \/ AnswersWithError(n) \/ EndsSession(n) \/ Reload(n)
  PROVE  LoginInv'
<1>1. /\ FlowsTyped /\ FlowInv(n) /\ flow[n] \in Flows
      /\ session \in BOOLEAN /\ faults \in 0..MaxFaults
  BY FlowFacts DEF LoginInv, FlowsTyped, LoginTypeOK
<1>2. CASE UserLogsIn(n)
  <2> DEFINE f == [flow[n] EXCEPT !.at = "back", !.answer = "code"]
  <2>1. f \in Flows
    BY <1>1 DEF Flows
  <2>2. Update(n, f)
    BY <1>2 DEF UserLogsIn, Back
  <2>3. /\ flow[n].at = "keycloak" /\ session' \in BOOLEAN /\ faults' \in 0..MaxFaults
        /\ UNCHANGED <<jar, tokens, key, started, expired>>
    BY <1>1, <1>2 DEF UserLogsIn
  <2>4. /\ f.at = "back" /\ f.answer = "code" /\ f.kind = flow[n].kind /\ f.key = flow[n].key
        /\ f.want = flow[n].want /\ f.landed = flow[n].landed /\ f.reply = flow[n].reply
        /\ f.refused = flow[n].refused /\ f.used = flow[n].used /\ f.faulty = flow[n].faulty
        /\ f.again = flow[n].again /\ f.asked = flow[n].asked
    BY <1>1 DEF Flows
  <2> HIDE DEF f
  <2>5. QED  BY <1>1, <2>1, <2>2, <2>3, <2>4, BackStep DEF FlowInv, AnswersRight
<1>3. CASE AnswersSilently(n)
  <2> DEFINE a == IF session THEN "code" ELSE "login_required"
             f == [flow[n] EXCEPT !.at = "back", !.answer = a]
  <2>1. f \in Flows
    BY <1>1 DEF Flows
  <2>2. Update(n, f)
    BY <1>3 DEF AnswersSilently, Back
  <2>3. /\ flow[n].kind = "silent" /\ flow[n].at = "keycloak" /\ a # "error"
        /\ UNCHANGED <<jar, tokens, key, started, session, expired, faults>>
    BY <1>3 DEF AnswersSilently
  <2>4. /\ f.at = "back" /\ f.answer = a /\ f.kind = flow[n].kind /\ f.key = flow[n].key
        /\ f.want = flow[n].want /\ f.landed = flow[n].landed /\ f.reply = flow[n].reply
        /\ f.refused = flow[n].refused /\ f.used = flow[n].used /\ f.faulty = flow[n].faulty
        /\ f.again = flow[n].again /\ f.asked = flow[n].asked
    BY <1>1 DEF Flows
  <2> HIDE DEF f, a
  <2>5. QED  BY <1>1, <2>1, <2>2, <2>3, <2>4, BackStep DEF FlowInv, AnswersRight
<1>4. CASE AnswersWithError(n)
  <2> DEFINE f == [flow[n] EXCEPT !.at = "back", !.answer = "error", !.faulty = TRUE]
  <2>1. f \in Flows
    BY <1>1 DEF Flows
  <2>2. Update(n, f) /\ faults' \in 0..MaxFaults
    BY <1>1, <1>4, LoginAssumption DEF AnswersWithError
  <2>3. flow[n].at = "keycloak" /\ UNCHANGED <<jar, tokens, key, started, session, expired>>
    BY <1>4 DEF AnswersWithError
  <2>4. /\ f.at = "back" /\ f.answer = "error" /\ f.kind = flow[n].kind /\ f.key = flow[n].key
        /\ f.want = flow[n].want /\ f.landed = flow[n].landed /\ f.reply = flow[n].reply
        /\ f.refused = flow[n].refused /\ f.used = flow[n].used /\ f.faulty
        /\ f.again = flow[n].again /\ f.asked = flow[n].asked
    BY <1>1 DEF Flows
  <2> HIDE DEF f
  <2>5. QED  BY <1>1, <2>1, <2>2, <2>3, <2>4, BackStep DEF FlowInv, AnswersRight
<1>5. CASE EndsSession(n)
  <2>1. PICK asked \in BOOLEAN : /\ asked => KeycloakPages
                                 /\ Update(n, [flow[n] EXCEPT !.at = "back", !.asked = asked])
    BY <1>5 DEF EndsSession
  <2> DEFINE f == [flow[n] EXCEPT !.at = "back", !.asked = asked]
  <2>2. f \in Flows
    BY <1>1 DEF Flows
  <2>3. /\ flow[n].at = "keycloak" /\ session' = FALSE
        /\ UNCHANGED <<jar, tokens, key, started, expired, faults>>
    BY <1>5 DEF EndsSession
  <2>4. /\ f.at = "back" /\ f.answer = flow[n].answer /\ f.kind = flow[n].kind /\ f.key = flow[n].key
        /\ f.want = flow[n].want /\ f.landed = flow[n].landed /\ f.reply = flow[n].reply
        /\ f.refused = flow[n].refused /\ f.used = flow[n].used /\ f.faulty = flow[n].faulty
        /\ f.again = flow[n].again /\ f.asked = asked
    BY <1>1 DEF Flows
  <2>5. f.asked => KeycloakPages
    BY <2>1, <2>4
  <2>6. session' \in BOOLEAN /\ faults' \in 0..MaxFaults
    BY <1>1, <2>3
  <2>7. Update(n, f)
    BY <2>1
  <2>8. /\ f.answer = "error" => f.faulty
        /\ f.answer = "login_required" => f.kind = "silent"
    BY <1>1, <2>4 DEF FlowInv, AnswersRight
  <2> HIDE DEF f
  <2>9. QED  BY <2>2, <2>3, <2>4, <2>5, <2>6, <2>7, <2>8, BackStep
<1>6. CASE Reload(n)
  <2> DEFINE f == [flow[n] EXCEPT !.at = "back", !.again = TRUE]
  <2>1. f \in Flows
    BY <1>1 DEF Flows
  <2>2. Update(n, f)
    BY <1>6 DEF Reload
  <2>3. flow[n].at = "done" /\ UNCHANGED <<jar, tokens, key, started, session, expired, faults>>
    BY <1>6 DEF Reload
  <2>4. /\ f.at = "back" /\ f.answer = flow[n].answer /\ f.kind = flow[n].kind /\ f.key = flow[n].key
        /\ f.want = flow[n].want /\ f.landed = flow[n].landed /\ f.reply = flow[n].reply
        /\ f.refused = flow[n].refused /\ f.used = flow[n].used /\ f.faulty = flow[n].faulty
        /\ f.again /\ f.asked = flow[n].asked
    BY <1>1 DEF Flows
  <2> HIDE DEF f
  <2>5. QED  BY <1>1, <2>1, <2>2, <2>3, <2>4, BackStep DEF FlowInv, AnswersRight
<1>7. QED  BY <1>2, <1>3, <1>4, <1>5, <1>6

(* A callback that is answered: the cookies stay in the browser for now.   *)
LEMMA CallbackStep ==
  ASSUME LoginInv, NEW n \in Nonces, NEW f \in Flows, NEW reply \in Replies, Answer(n, f, reply),
         flow[n].at = "back",
         f.key = flow[n].key, f.kind = flow[n].kind, f.want = flow[n].want, f.answer = flow[n].answer,
         f.landed = flow[n].landed, f.asked = flow[n].asked, f.again = flow[n].again,
         flow[n].used => f.used, flow[n].faulty => f.faulty,
         f.refused => flow[n].refused \/ n \in expired \/ f.used \/ f.faulty \/ f.again \/ KeyGone(n),
         RightPage(n, reply.go),
         reply.drops \in {{}, FlowCookies(n)},
         f.kind = "logout" => /\ reply.drops = {} /\ reply.sets # "set"
                              /\ reply.sets = "keep" => ~tokens \/ ~(OtherOrigins \/ ~KeycloakPages),
         faults' \in 0..MaxFaults, UNCHANGED <<jar, tokens, key, started, session, expired>>
  PROVE  LoginInv'
<1> DEFINE g == [f EXCEPT !.at = "reply", !.reply = reply, !.overtaken = FALSE]
<1>1. FlowsTyped /\ FlowInv(n) /\ f.key <= key
  BY FlowFacts DEF LoginInv
<1>2. g \in Flows /\ Update(n, g) /\ flow'[n] = g
  BY <1>1, AnswerFacts
<1>3. /\ g.at = "reply" /\ g.reply = reply /\ g.key = f.key /\ g.kind = f.kind /\ g.want = f.want
      /\ g.answer = f.answer /\ g.landed = f.landed /\ g.asked = f.asked /\ g.again = f.again
      /\ g.used = f.used /\ g.faulty = f.faulty /\ g.refused = f.refused /\ ~g.overtaken
  BY DEF Flows
<1> HIDE DEF g
<1>4. FlowInv(n)'
  <2>1. OwnCookies(n)' /\ CookiesLast(n)' /\ NewIsNew(n)'
    BY <1>1, <1>2, <1>3 DEF FlowInv, OwnCookies, CookiesLast, NewIsNew
  <2>2. FlowCookies(n)' = FlowCookies(n) /\ \A c \in FlowCookies(n) : c[2] = n
    BY DEF FlowCookies
  <2>3. OwnDrops(n)' /\ AnswersRight(n)' /\ NoneLeft(n)'
    BY <1>1, <1>2, <1>3, <2>2 DEF FlowInv, OwnDrops, AnswersRight, NoneLeft
  <2>4. KeyGone(n)' = KeyGone(n)
    BY <1>2, <1>3 DEF KeyGone
  <2>5. PagesRight(n)'
    BY <1>1, <1>2, <1>3, <2>4 DEF FlowInv, PagesRight, RightPage
  <2>6. Reason(n)'
    BY <1>1, <1>2, <1>3, <2>4 DEF FlowInv, Reason
  <2>7. QED  BY <2>1, <2>3, <2>5, <2>6 DEF FlowInv
<1>5. QED
  BY <1>1, <1>2, <1>3, <1>4, OneFlow DEF LoginInv, FlowsTyped, LoginTypeOK

(* What a callback with a valid state finds, or one without it. *)
LEMMA CallbackFacts ==
  ASSUME LoginInv, NEW n \in Nonces, flow[n].kind # "logout"
  PROVE  /\ Verifier(n) # None => /\ Verifier(n) = n /\ Allowed(Target(n))
                                  /\ Target(n) = LandingPage(RedirectCookie(flow[n].want))
                                  /\ Target(n) \in Landings
         /\ ~StateIsValid(n) => n \in expired \/ KeyGone(n)
<1>1. FlowInv(n) /\ jar \in [CookieNames -> Nonces \cup Pages \cup {None}]
  BY DEF LoginInv, FlowsTyped
<1>2. flow[n].key \in Nat /\ key \in Nat /\ flow[n].key <= key /\ flow[n].want \in Targets
  BY FlowFacts DEF LoginInv, Flows
<1>3. RedirectCookie(flow[n].want) \in Pages \cup {None}
  BY <1>2, CookieTyped
<1>4. Verifier(n) # None => /\ Verifier(n) = n
                            /\ Target(n) = LandingPage(RedirectCookie(flow[n].want))
  BY <1>1 DEF FlowInv, OwnCookies, Verifier, Target, CookieName
<1>5. ~StateIsValid(n) => n \in expired \/ KeyGone(n)
  BY <1>2 DEF StateIsValid, PublicKeys, KeyGone
<1>6. LandingPage(RedirectCookie(flow[n].want)) \in Pages \cup {Home}
  BY <1>3 DEF LandingPage
<1>7. QED
  BY <1>4, <1>5, <1>6, LoginAssumption DEF Allowed, Landings

LEMMA CallbackRefusedStep ==
  ASSUME LoginInv, NEW n \in Nonces, CallbackRefused(n)
  PROVE  LoginInv'
<1> DEFINE f == [flow[n] EXCEPT !.refused = TRUE]
           reply == Reply({}, "keep", "login page", FALSE)
<1>1. FlowInv(n) /\ flow[n] \in Flows /\ faults \in 0..MaxFaults
  BY FlowFacts DEF LoginInv, FlowsTyped, LoginTypeOK
<1>2. /\ flow[n].at = "back" /\ flow[n].kind # "logout" /\ Answer(n, f, reply)
      /\ UNCHANGED <<jar, tokens, key, started, session, expired, faults>>
  BY DEF CallbackRefused, Refuse
<1>3. f \in Flows
  BY <1>1 DEF Flows
<1>4. reply \in Replies /\ reply.drops = {} /\ reply.go = "login page"
  BY DEF Reply, Replies
<1>5. /\ f.key = flow[n].key /\ f.kind = flow[n].kind /\ f.want = flow[n].want /\ f.answer = flow[n].answer
      /\ f.landed = flow[n].landed /\ f.asked = flow[n].asked /\ f.again = flow[n].again
      /\ f.used = flow[n].used /\ f.faulty = flow[n].faulty
  BY <1>1 DEF Flows
<1>6. n \in expired \/ f.used \/ f.faulty \/ f.again \/ KeyGone(n)
  <2>1. CASE ~CallbackValid(n)
    <3>1. Verifier(n) = None \/ ~StateIsValid(n)
      BY <1>2, <2>1, CallbackFacts DEF CallbackValid
    <3>2. Verifier(n) = None => f.again \/ n \in expired
      BY <1>1, <1>2, <1>5 DEF FlowInv, CookiesLast, Verifier, CookieName
    <3>3. QED  BY <1>2, <3>1, <3>2, CallbackFacts
  <2>2. CASE flow[n].answer = "code" /\ (flow[n].used \/ Verifier(n) # n) /\ CallbackValid(n)
    BY <1>2, <1>5, <2>2, CallbackFacts DEF CallbackValid
  <2>3. CASE flow[n].answer = "error"
    BY <1>1, <1>5, <2>3 DEF FlowInv, AnswersRight
  <2>4. CASE flow[n].answer = "login_required" /\ flow[n].kind # "silent"
    BY <1>1, <2>4 DEF FlowInv, AnswersRight
  <2>5. QED  BY <2>1, <2>2, <2>3, <2>4 DEF CallbackRefused
<1>7. RightPage(n, reply.go)
  BY <1>4 DEF RightPage
<1> HIDE DEF f, reply
<1>8. QED
  BY <1>1, <1>2, <1>3, <1>4, <1>5, <1>6, <1>7, CallbackStep

LEMMA CallbackAnsweredStep ==
  ASSUME LoginInv, NEW n \in Nonces, CallbackNeedsLogin(n) \/ CallbackGrants(n)
  PROVE  LoginInv'
<1>1. FlowInv(n) /\ flow[n] \in Flows /\ faults \in 0..MaxFaults
  BY FlowFacts DEF LoginInv, FlowsTyped, LoginTypeOK
<1>2. /\ flow[n].at = "back" /\ flow[n].kind # "logout" /\ CallbackValid(n)
      /\ UNCHANGED <<jar, tokens, key, started, session, expired>>
  BY DEF CallbackNeedsLogin, CallbackGrants
<1>3. Target(n) \in Landings /\ Target(n) = LandingPage(RedirectCookie(flow[n].want))
  BY <1>2, CallbackFacts DEF CallbackValid
<1>4. Accepted(FlowCookies(n), TRUE) = FlowCookies(n) /\ FlowCookies(n) \in SUBSET CookieNames
  BY DEF Accepted, FlowCookies
<1>5. ASSUME NEW used \in BOOLEAN, NEW faulty \in BOOLEAN, NEW drops \in {{}, FlowCookies(n)},
             NEW sets \in {"keep", "set"}, NEW go \in {None, Target(n), "login page"}, NEW posts \in BOOLEAN,
             flow[n].used => used, flow[n].faulty => faulty, faults' \in 0..MaxFaults,
             Answer(n, [flow[n] EXCEPT !.used = used, !.faulty = faulty], Reply(drops, sets, go, posts))
      PROVE  LoginInv'
  <2> DEFINE f == [flow[n] EXCEPT !.used = used, !.faulty = faulty]
             reply == Reply(drops, sets, go, posts)
  <2>1. f \in Flows
    BY <1>1 DEF Flows
  <2>2. go \in Landings /\ drops \in SUBSET CookieNames
    BY <1>3, <1>4 DEF Landings
  <2>3. reply \in Replies /\ reply.drops = drops /\ reply.go = go
    BY <2>2 DEF Reply, Replies, Landings
  <2>4. RightPage(n, go)
    BY <1>3 DEF RightPage
  <2>5. /\ f.key = flow[n].key /\ f.kind = flow[n].kind /\ f.want = flow[n].want /\ f.answer = flow[n].answer
        /\ f.landed = flow[n].landed /\ f.asked = flow[n].asked /\ f.again = flow[n].again
        /\ f.used = used /\ f.faulty = faulty /\ f.refused = flow[n].refused
    BY <1>1 DEF Flows
  <2>6. f.refused => flow[n].refused
    BY <2>5
  <2>7. Answer(n, f, reply)
    BY <1>5
  <2> HIDE DEF f, reply
  <2>8. QED
    BY <1>1, <1>2, <1>5, <2>1, <2>3, <2>4, <2>5, <2>6, <2>7, CallbackStep
<1>6. CASE CallbackNeedsLogin(n)
  <2>1. flow[n] = [flow[n] EXCEPT !.used = flow[n].used, !.faulty = flow[n].faulty]
        /\ flow[n].used \in BOOLEAN /\ flow[n].faulty \in BOOLEAN
    BY <1>1 DEF Flows
  <2>2. Answer(n, [flow[n] EXCEPT !.used = flow[n].used, !.faulty = flow[n].faulty],
               Reply(FlowCookies(n), "keep", None, TRUE)) /\ faults' = faults
    BY <1>4, <1>6, <2>1 DEF CallbackNeedsLogin
  <2>3. QED  BY <1>1, <1>5, <2>1, <2>2
<1>7. CASE CallbackGrants(n)
  <2>1. CASE /\ Answer(n, [flow[n] EXCEPT !.used = TRUE],
                       Reply(Accepted(FlowCookies(n), TRUE), "set",
                             IF flow[n].kind = "silent" THEN None ELSE Target(n),
                             flow[n].kind = "silent"))
             /\ UNCHANGED faults
    <3> DEFINE posts == flow[n].kind = "silent"
               go == IF flow[n].kind = "silent" THEN None ELSE Target(n)
    <3>1. [flow[n] EXCEPT !.used = TRUE] = [flow[n] EXCEPT !.used = TRUE, !.faulty = flow[n].faulty]
          /\ flow[n].faulty \in BOOLEAN
      BY <1>1 DEF Flows
    <3>2. Answer(n, [flow[n] EXCEPT !.used = TRUE, !.faulty = flow[n].faulty],
                 Reply(FlowCookies(n), "set", go, posts)) /\ faults' = faults
      BY <1>4, <2>1, <3>1
    <3>3. posts \in BOOLEAN /\ go \in {None, Target(n), "login page"}
      OBVIOUS
    <3> HIDE DEF posts, go
    <3>4. QED  BY <1>1, <1>5, <3>1, <3>2, <3>3
  <2>2. CASE /\ faults < MaxFaults /\ faults' = faults + 1
             /\ \E used \in BOOLEAN :
                  Answer(n, [flow[n] EXCEPT !.used = used, !.faulty = TRUE],
                         Reply({}, "keep", "login page", FALSE))
    <3>1. PICK used \in BOOLEAN : Answer(n, [flow[n] EXCEPT !.used = used, !.faulty = TRUE],
                                         Reply({}, "keep", "login page", FALSE))
      BY <2>2
    <3>2. ~flow[n].used
      BY <1>7 DEF CallbackGrants
    <3>3. faults' \in 0..MaxFaults
      <4>1. faults < MaxFaults /\ faults' = faults + 1 /\ MaxFaults \in Nat
        BY <2>2, LoginAssumption
      <4>2. QED  BY <1>1, <4>1
    <3>4. QED  BY <1>5, <3>1, <3>2, <3>3
  <2>3. QED  BY <1>7, <2>1, <2>2 DEF CallbackGrants
<1>8. QED  BY <1>6, <1>7

LEMMA LogoutCallbackStep ==
  ASSUME LoginInv, NEW n \in Nonces, HandleLogoutCallback(n)
  PROVE  LoginInv'
<1> DEFINE sets == IF TokensSent(n) THEN "drop" ELSE "keep"
           page == IF StateIsValid(n) THEN LandingPage(jar[CookieName("logout", n)]) ELSE Home
           reply == Reply({}, sets, page, FALSE)
<1>1. FlowInv(n) /\ flow[n] \in Flows /\ faults \in 0..MaxFaults
  BY FlowFacts DEF LoginInv, FlowsTyped, LoginTypeOK
<1>2. /\ flow[n].at = "back" /\ flow[n].kind = "logout" /\ Answer(n, flow[n], reply)
      /\ UNCHANGED <<jar, tokens, key, started, session, expired, faults>>
  BY DEF HandleLogoutCallback, Accepted
<1>3. flow[n].key \in Nat /\ key \in Nat /\ flow[n].key <= key /\ flow[n].want \in Targets
  BY FlowFacts DEF LoginInv, Flows
<1>4. page \in Landings /\ RightPage(n, page)
  <2>1. CASE StateIsValid(n)
    <3>1. jar[CookieName("logout", n)] = RedirectCookie(flow[n].want)
      BY <1>1, <1>2, <2>1 DEF FlowInv, OwnCookies, StateIsValid, CookieName
    <3>2. QED  BY <1>3, <2>1, <3>1, CookieTyped DEF LandingPage, Landings, RightPage
  <2>2. CASE ~StateIsValid(n)
    <3>1. n \in expired \/ KeyGone(n)
      BY <1>3, <2>2 DEF StateIsValid, PublicKeys, KeyGone
    <3>2. QED  BY <1>2, <2>2, <3>1 DEF Landings, RightPage
  <2>3. QED  BY <2>1, <2>2
<1>5. reply \in Replies /\ reply.drops = {} /\ reply.sets = sets /\ reply.go = page
  <2>1. sets \in {"keep", "set", "drop"} /\ {} \in SUBSET CookieNames
    OBVIOUS
  <2> HIDE DEF sets, page
  <2>2. QED  BY <1>4, <2>1 DEF Reply, Replies, Landings
<1>6. sets # "set" /\ (sets = "keep" => ~tokens \/ ~(OtherOrigins \/ ~KeycloakPages))
  BY <1>1 DEF TokensSent, FlowInv, AnswersRight
<1> HIDE DEF sets, page, reply
<1>7. QED
  BY <1>1, <1>2, <1>4, <1>5, <1>6, CallbackStep

LEMMA DeliverStep ==
  ASSUME LoginInv, NEW n \in Nonces, Deliver(n)
  PROVE  LoginInv'
<1> DEFINE reply == flow[n].reply
           g == [flow[n] EXCEPT !.at = "done", !.landed = reply.go, !.posted = @ \/ reply.posts]
<1>1. /\ FlowsTyped /\ FlowInv(n) /\ flow[n] \in Flows /\ reply \in Replies /\ flow[n].at = "reply"
      /\ UNCHANGED <<key, started, session, expired, faults>>
  BY FlowFacts DEF LoginInv, Deliver, Flows
<1>2. /\ jar' = [c \in CookieNames |-> IF c \in reply.drops THEN None ELSE jar[c]]
      /\ tokens' = CASE reply.sets = "set" -> TRUE [] reply.sets = "drop" -> FALSE [] OTHER -> tokens
      /\ flow' = [m \in Nonces |->
           IF m = n THEN g
           ELSE IF reply.sets = "set" /\ flow[m].at = "reply" THEN [flow[m] EXCEPT !.overtaken = TRUE]
           ELSE flow[m]]
  BY DEF Deliver
<1>3. /\ flow'[n] = g
      /\ \A m \in Nonces \ {n} : flow'[m] = IF reply.sets = "set" /\ flow[m].at = "reply"
                                           THEN [flow[m] EXCEPT !.overtaken = TRUE] ELSE flow[m]
  BY <1>2
<1>4. reply.go \in Landings
  BY <1>1 DEF Replies, Landings
<1>5. g \in Flows
  <2>1. (flow[n].posted \/ reply.posts) \in BOOLEAN
    OBVIOUS
  <2>2. QED  BY <1>1, <1>4, <2>1 DEF Flows
<1>6. FlowsTyped'
  <2>1. \A m \in Nonces : flow'[m] \in Flows /\ flow'[m].key = flow[m].key
    <3>1. g.key = flow[n].key
      BY <1>1 DEF Flows
    <3>2. ASSUME NEW m \in Nonces
          PROVE  [flow[m] EXCEPT !.overtaken = TRUE] \in Flows
                 /\ [flow[m] EXCEPT !.overtaken = TRUE].key = flow[m].key
      BY <1>1, FlowFacts DEF Flows
    <3> HIDE DEF g, reply
    <3>3. QED  BY <1>1, <1>3, <1>5, <3>1, <3>2, FlowFacts
  <2>2. flow' \in [Nonces -> Flows] /\ \A m \in Nonces : flow'[m].key <= key'
    <3> HIDE DEF g, reply
    <3>1. QED  BY <1>1, <1>2, <2>1, FlowFacts
  <2>3. tokens' \in BOOLEAN
    BY <1>1, <1>2 DEF FlowsTyped, LoginTypeOK
  <2>4. jar' \in [CookieNames -> Nonces \cup Pages \cup {None}]
    BY <1>1, <1>2 DEF FlowsTyped
  <2>5. /\ session' \in BOOLEAN /\ key' \in 1..MaxKey /\ expired' \subseteq Nonces /\ faults' \in 0..MaxFaults
        /\ started' \in BOOLEAN /\ (~started' => key' > 1)
    BY <1>1 DEF FlowsTyped, LoginTypeOK
  <2>6. QED  BY <2>2, <2>3, <2>4, <2>5, Typed
<1>7. ASSUME NEW m \in Nonces \ {n} PROVE FlowInv(m)'
  <2>1. \A c \in CookieNames : c[2] = m => jar'[c] = jar[c]
    BY <1>1, <1>2 DEF FlowInv, OwnDrops
  <2>2. flow'[m] = flow[m] \/ (flow[m].at = "reply" /\ flow'[m] = [flow[m] EXCEPT !.overtaken = TRUE])
    BY <1>3
  <2>3. tokens' => tokens \/ flow'[m].overtaken \/ flow[m].at # "reply"
    <3>1. CASE reply.sets = "set" /\ flow[m].at = "reply"
      <4>1. flow'[m] = [flow[m] EXCEPT !.overtaken = TRUE] /\ flow[m] \in Flows
        BY <1>1, <1>3, <3>1, FlowFacts
      <4>2. QED  BY <4>1 DEF Flows
    <3>2. CASE reply.sets # "set"
      BY <1>2, <3>2
    <3>3. QED  BY <3>1, <3>2
  <2>4. FlowInv(m) /\ key' >= key
    BY <1>1, FlowFacts DEF LoginInv
  <2>5. QED  BY <1>1, <1>6, <2>1, <2>2, <2>3, <2>4, Frame
<1>8. FlowInv(n)'
  <2>1. /\ g.at = "done" /\ g.landed = reply.go /\ g.reply = reply /\ g.key = flow[n].key
        /\ g.kind = flow[n].kind /\ g.want = flow[n].want /\ g.answer = flow[n].answer
        /\ g.asked = flow[n].asked /\ g.again = flow[n].again /\ g.used = flow[n].used
        /\ g.faulty = flow[n].faulty /\ g.refused = flow[n].refused
    BY <1>1 DEF Flows
  <2>2. OwnCookies(n)'
    <3>1. CASE reply.drops = {}
      <4>1. \A c \in CookieNames : jar'[c] = jar[c]
        BY <1>2, <3>1
      <4>2. QED  BY <1>1, <1>3, <2>1, <4>1, CookieFacts DEF FlowInv, OwnCookies
    <3>2. CASE reply.drops # {}
      <4>1. flow[n].kind # "logout"
        BY <1>1, <3>2 DEF FlowInv, OwnDrops
      <4>2. jar'[<<"cv", n>>] = None
        <5>1. <<"cv", n>> \in CookieNames /\ <<"cv", n>>[2] = n
          BY CookieFacts
        <5>2. <<"cv", n>> \in FlowCookies(n) => <<"cv", n>> \in reply.drops
          BY <1>1, <3>2 DEF FlowInv, OwnDrops
        <5>3. QED  BY <1>2, <5>1, <5>2 DEF FlowCookies
      <4>3. QED  BY <1>3, <2>1, <4>1, <4>2 DEF OwnCookies
    <3>3. QED  BY <3>1, <3>2
  <2> HIDE DEF g
  <2>3. NewIsNew(n)' /\ CookiesLast(n)' /\ OwnDrops(n)' /\ AnswersRight(n)' /\ NoneLeft(n)'
    BY <1>1, <1>3, <2>1 DEF FlowInv, NewIsNew, CookiesLast, OwnDrops, AnswersRight, NoneLeft
  <2>4. KeyGone(n)' = KeyGone(n)
    BY <1>1, <1>3, <2>1 DEF KeyGone
  <2>5. PagesRight(n)' /\ Reason(n)'
    BY <1>1, <1>3, <2>1, <2>4 DEF FlowInv, PagesRight, RightPage, Reason
  <2>6. QED  BY <2>2, <2>3, <2>5 DEF FlowInv
<1>9. QED  BY <1>6, <1>7, <1>8 DEF LoginInv

LEMMA LoseReplyStep ==
  ASSUME LoginInv, NEW n \in Nonces, LoseReply(n)
  PROVE  LoginInv'
<1> DEFINE f == [flow[n] EXCEPT !.at = "done", !.faulty = TRUE]
<1>1. /\ FlowsTyped /\ FlowInv(n) /\ flow[n] \in Flows /\ flow[n].at = "reply" /\ Update(n, f)
      /\ UNCHANGED <<jar, tokens, key, started, session, expired>>
  BY FlowFacts DEF LoginInv, LoseReply
<1>2. faults' \in 0..MaxFaults /\ session' \in BOOLEAN
  <2>1. faults < MaxFaults /\ faults' = faults + 1 /\ MaxFaults \in Nat
    BY LoginAssumption DEF LoseReply
  <2>2. QED  BY <1>1, <2>1 DEF FlowsTyped, LoginTypeOK
<1>3. f \in Flows
  BY <1>1 DEF Flows
<1>4. /\ f.at = "done" /\ f.landed = flow[n].landed /\ f.reply = flow[n].reply /\ f.key = flow[n].key
      /\ f.kind = flow[n].kind /\ f.want = flow[n].want /\ f.answer = flow[n].answer
      /\ f.asked = flow[n].asked /\ f.again = flow[n].again /\ f.used = flow[n].used
      /\ f.faulty /\ f.refused = flow[n].refused
  BY <1>1 DEF Flows
<1>5. flow'[n] = f /\ f.key <= key
  BY <1>1, <1>3, <1>4, Updated, FlowFacts
<1> HIDE DEF f
<1>6. NewIsNew(n)' /\ OwnCookies(n)' /\ CookiesLast(n)' /\ OwnDrops(n)' /\ AnswersRight(n)' /\ NoneLeft(n)'
  BY <1>1, <1>4, <1>5 DEF FlowInv, NewIsNew, OwnCookies, CookiesLast, OwnDrops, AnswersRight, NoneLeft
<1>7. PagesRight(n)' /\ Reason(n)'
  BY <1>1, <1>4, <1>5 DEF FlowInv, PagesRight, RightPage, Reason, KeyGone
<1>8. QED
  BY <1>1, <1>2, <1>3, <1>5, <1>6, <1>7, OneFlow DEF FlowInv, FlowsTyped

LEMMA ExpireStep ==
  ASSUME LoginInv, NEW n \in Nonces, Expire(n)
  PROVE  LoginInv'
<1>1. /\ FlowsTyped /\ FlowInv(n) /\ flow[n].at # "new" /\ expired' = expired \cup {n}
      /\ jar' = [c \in CookieNames |-> IF c[2] = n THEN None ELSE jar[c]]
      /\ UNCHANGED <<flow, tokens, key, started, session, faults>>
  BY DEF LoginInv, Expire
<1>2. FlowsTyped'
  BY <1>1 DEF FlowsTyped, LoginTypeOK
<1>3. ASSUME NEW m \in Nonces \ {n} PROVE FlowInv(m)'
  <2>1. FlowInv(m) /\ key' >= key
    BY <1>1, FlowFacts DEF LoginInv
  <2>2. QED  BY <1>1, <1>2, <2>1, Frame
<1>4. FlowInv(n)'
  <2>1. jar'[<<"cv", n>>] = None /\ \A c : c \notin FlowCookies(n)'
    BY <1>1, CookieFacts DEF FlowCookies
  <2>2. NewIsNew(n)' /\ OwnCookies(n)' /\ CookiesLast(n)' /\ OwnDrops(n)' /\ AnswersRight(n)' /\ NoneLeft(n)'
    BY <1>1, <2>1 DEF FlowInv, NewIsNew, OwnCookies, CookiesLast, OwnDrops, AnswersRight, NoneLeft
  <2>3. PagesRight(n)' /\ Reason(n)'
    BY <1>1 DEF FlowInv, PagesRight, RightPage, Reason, KeyGone
  <2>4. QED  BY <2>2, <2>3 DEF FlowInv
<1>5. QED  BY <1>2, <1>3, <1>4 DEF LoginInv

LEMMA OutsideStep ==
  ASSUME LoginInv, NewKey \/ KeyStarts \/ TokensExpire \/ UNCHANGED vars
  PROVE  LoginInv'
<1>1. /\ UNCHANGED <<flow, jar, session, expired, faults>> /\ FlowsTyped
      /\ key' \in {key, key + 1} /\ (key' = key + 1 => key < MaxKey) /\ (tokens' => tokens) /\ tokens' \in BOOLEAN
      /\ started' \in BOOLEAN /\ (~started' => key' > 1)
  <2>1. /\ key \in Nat /\ tokens \in BOOLEAN /\ FlowsTyped /\ key >= 1 /\ Cluster \in BOOLEAN
        /\ started \in BOOLEAN /\ (~started => key > 1)
    BY LoginAssumption DEF LoginInv, FlowsTyped, LoginTypeOK
  <2>2. CASE NewKey
    BY <2>1, <2>2 DEF NewKey
  <2>6. CASE KeyStarts
    BY <2>1, <2>6 DEF KeyStarts
  <2>3. CASE TokensExpire
    <3>1. tokens' = FALSE /\ UNCHANGED <<flow, jar, key, started, session, expired, faults>>
      BY <2>3 DEF TokensExpire
    <3>2. key' = key /\ key # key + 1
      BY <2>1, <3>1
    <3>3. ~tokens' /\ tokens' \in BOOLEAN
      BY <3>1
    <3>4. QED  BY <2>1, <3>1, <3>2, <3>3
  <2>4. CASE UNCHANGED vars
    BY <2>1, <2>4 DEF vars
  <2>5. QED  BY <2>2, <2>3, <2>4, <2>6
<1>2. key \in 1..MaxKey /\ MaxKey \in Nat
  BY LoginAssumption DEF LoginInv, FlowsTyped, LoginTypeOK
<1>3. key' \in 1..MaxKey /\ key' >= key
  BY <1>1, <1>2
<1>4. FlowsTyped'
  <2>1. \A m \in Nonces : flow'[m].key <= key'
    BY <1>1, <1>2, <1>3, FlowFacts
  <2>2. QED  BY <1>1, <1>3, <2>1, Typed DEF FlowsTyped, LoginTypeOK
<1>5. ASSUME NEW m \in Nonces PROVE FlowInv(m)'
  <2>1. FlowInv(m) /\ (tokens' => tokens)
    BY <1>1 DEF LoginInv
  <2>2. QED  BY <1>1, <1>3, <1>4, <2>1, Frame
<1>6. QED  BY <1>4, <1>5 DEF LoginInv

-----------------------------------------------------------------------------
LEMMA LoginInvariant == Spec => []LoginInv
<1>1. Init => LoginInv
  <2> SUFFICES ASSUME Init PROVE LoginInv
    OBVIOUS
  <2>1. NewFlow \in Flows
    <3>1. 1 \in 1..MaxKey
      BY LoginAssumption
    <3>2. QED
      BY <3>1 DEF NewFlow, NoReply, Reply, Replies, Flows, Kinds, Targets, Landings
  <2>2. /\ flow \in [Nonces -> Flows] /\ \A n \in Nonces : flow[n] = NewFlow
        /\ jar = [c \in CookieNames |-> None] /\ key = 1 /\ started /\ expired = {} /\ faults = 0
        /\ tokens \in BOOLEAN /\ session \in BOOLEAN
    BY <2>1 DEF Init
  <2>3. key \in 1..MaxKey /\ faults \in 0..MaxFaults
    BY <2>2, LoginAssumption
  <2>4. FlowsTyped
    <3>1. ASSUME NEW n \in Nonces
          PROVE  /\ flow[n].kind \in Kinds /\ flow[n].key \in 1..key
                 /\ flow[n].at \in {"new", "keycloak", "back", "reply", "done"}
                 /\ flow[n].answer \in {"none", "code", "login_required", "error"}
                 /\ flow[n].reply \in Replies
      <4>1. flow[n] \in Flows /\ flow[n].key = 1
        BY <2>1, <2>2 DEF NewFlow
      <4>2. QED  BY <2>2, <4>1 DEF Flows
    <3>2. jar \in [CookieNames -> Nonces \cup Pages \cup {None}]
      BY <2>2
    <3>3. QED  BY <2>2, <2>3, <3>1, <3>2 DEF FlowsTyped, LoginTypeOK
  <2>5. ASSUME NEW n \in Nonces PROVE FlowInv(n)
    <3>1. flow[n] = NewFlow /\ \A c \in CookieNames : jar[c] = None
      BY <2>2
    <3>2. jar[<<"cv", n>>] = None /\ \A c \in FlowCookies(n) : FALSE
      BY <3>1, CookieFacts DEF FlowCookies
    <3>3. /\ NewFlow.kind = "login" /\ NewFlow.at = "new" /\ NewFlow.reply.drops = {} /\ NewFlow.reply.go = None
          /\ NewFlow.landed = None /\ NewFlow.answer = "none" /\ ~NewFlow.asked /\ ~NewFlow.refused
      BY DEF NewFlow, NoReply, Reply
    <3>4. QED
      BY <3>1, <3>2, <3>3 DEF FlowInv, NewIsNew, OwnCookies, CookiesLast, OwnDrops, AnswersRight,
                              PagesRight, RightPage, Reason, NoneLeft
  <2>6. QED  BY <2>4, <2>5 DEF LoginInv
<1>2. LoginInv /\ [Next]_vars => LoginInv'
  <2> SUFFICES ASSUME LoginInv, [Next]_vars PROVE LoginInv'
    OBVIOUS
  <2>1. ASSUME NEW n \in Nonces, NEW want \in Pages \cup {Foreign, None},
               LoginPost(n, "login", want) \/ HandleLogoutPost(n, want)
        PROVE  LoginInv'
    BY <2>1, LoginPostStep, HandleLogoutPostStep DEF Targets
  <2>2. ASSUME NEW n \in Nonces, LoginPost(n, "silent", None) PROVE LoginInv'
    BY <2>2, LoginPostStep DEF Targets
  <2>3. ASSUME NEW n \in Nonces,
               \/ UserLogsIn(n) \/ AnswersSilently(n) \/ AnswersWithError(n) \/ EndsSession(n)
               \/ CallbackRefused(n) \/ CallbackNeedsLogin(n) \/ CallbackGrants(n)
               \/ HandleLogoutCallback(n) \/ Deliver(n) \/ LoseReply(n) \/ Reload(n) \/ Expire(n)
        PROVE  LoginInv'
    BY <2>3, KeycloakStep, CallbackRefusedStep, CallbackAnsweredStep, LogoutCallbackStep,
       DeliverStep, LoseReplyStep, ExpireStep
  <2>4. CASE NewKey \/ KeyStarts \/ TokensExpire \/ UNCHANGED vars
    BY <2>4, OutsideStep
  <2>5. QED  BY <2>1, <2>2, <2>3, <2>4 DEF Next
<1>3. QED  BY <1>1, <1>2, PTL DEF Spec

(* Only its delivery, or its loss, ends a flow whose response is under way. *)
LEMMA ReplyEnds ==
  ASSUME LoginInv, Next, NEW n \in Nonces, flow[n].at = "reply", flow'[n].at = "done", faults' = faults
  PROVE  Deliver(n)
<1>0. flow \in [Nonces -> Flows]
  BY DEF LoginInv, FlowsTyped
<1>1. ASSUME NEW m \in Nonces \ {n}, NEW f, Update(m, f) PROVE FALSE
  BY <1>0, <1>1 DEF Update
<1>2. ASSUME NEW m \in Nonces \ {n}, Deliver(m) PROVE FALSE
  <2>1. flow'[n] = flow[n] \/ flow'[n] = [flow[n] EXCEPT !.overtaken = TRUE]
    BY <1>2 DEF Deliver
  <2>2. flow'[n].at = flow[n].at
    BY <1>0, <2>1 DEF Flows
  <2>3. QED  BY <2>2
<1>3. flow' # flow
  OBVIOUS
<1>4. ASSUME NEW m \in Nonces,
             \/ \E want \in Pages \cup {Foreign, None} : LoginPost(m, "login", want) \/ HandleLogoutPost(m, want)
             \/ LoginPost(m, "silent", None)
             \/ UserLogsIn(m) \/ AnswersSilently(m) \/ AnswersWithError(m) \/ EndsSession(m)
             \/ CallbackRefused(m) \/ CallbackNeedsLogin(m) \/ CallbackGrants(m)
             \/ HandleLogoutCallback(m) \/ LoseReply(m) \/ Reload(m)
      PROVE  \E f : Update(m, f)
  BY <1>4 DEF LoginPost, HandleLogoutPost, UserLogsIn, AnswersSilently, AnswersWithError, EndsSession, Back,
              CallbackRefused, Refuse, CallbackNeedsLogin, CallbackGrants, HandleLogoutCallback, LoseReply,
              Reload, Answer
<1>5. ASSUME \/ \E want \in Pages \cup {Foreign, None} : LoginPost(n, "login", want) \/ HandleLogoutPost(n, want)
             \/ LoginPost(n, "silent", None)
             \/ UserLogsIn(n) \/ AnswersSilently(n) \/ AnswersWithError(n) \/ EndsSession(n)
             \/ CallbackRefused(n) \/ CallbackNeedsLogin(n) \/ CallbackGrants(n)
             \/ HandleLogoutCallback(n) \/ Reload(n)
      PROVE  FALSE
  BY <1>5 DEF LoginPost, HandleLogoutPost, UserLogsIn, AnswersSilently, AnswersWithError, EndsSession,
              CallbackRefused, CallbackNeedsLogin, CallbackGrants, HandleLogoutCallback, Reload
<1>6. ~LoseReply(n)
  BY DEF LoseReply, LoginInv, FlowsTyped, LoginTypeOK
<1>7. \A m \in Nonces : ~Expire(m)
  BY <1>3 DEF Expire
<1>8. ~NewKey /\ ~KeyStarts /\ ~TokensExpire
  BY <1>3 DEF NewKey, KeyStarts, TokensExpire
<1>9. QED  BY <1>1, <1>2, <1>4, <1>5, <1>6, <1>7, <1>8 DEF Next

(* Every variable has its type, for any number of tabs, pages, faults and  *)
(* keys; no response sends the browser to a page that is not allowed.      *)
THEOREM LoginTyping == Spec => []LoginTypeOK
<1>1. LoginInv => LoginTypeOK
  BY DEF LoginInv, FlowsTyped
<1>2. QED  BY <1>1, LoginInvariant, PTL

(* A login is refused for a reason of its own: what other tabs do, and in  *)
(* which order, is none (handleCallback, getPublicKeys).                   *)
THEOREM RefusalSafe == Spec => []RefusedForReason
<1>1. LoginInv => RefusedForReason
  BY DEF LoginInv, FlowInv, Reason, KeyGone, RefusedForReason
<1>2. QED  BY <1>1, LoginInvariant, PTL

(* A tab lands on the page that it asked for: the cookies of a flow are    *)
(* not mixed up with another's (buildRedirectCookie, handleCallback).      *)
THEOREM LandingSafe == Spec => []LandsWhereItAsked
<1>1. LoginInv => LandsWhereItAsked
  BY DEF LoginInv, FlowInv, PagesRight, RightPage, KeyGone, LandsWhereItAsked
<1>2. QED  BY <1>1, LoginInvariant, PTL

(* When a logout has come back there are no tokens, unless a login brought *)
(* them meanwhile: where the browser sends the connector its cookies, from *)
(* a page of Keycloak's too, or Keycloak shows none (handleLogoutCallback). *)
THEOREM LogoutSafe ==
  ASSUME OtherOrigins \/ ~KeycloakPages
  PROVE  Spec => LogoutStripsTokens
<1>1. LoginInv /\ [Next]_vars
        => [\A n \in Nonces : flow[n].kind = "logout" /\ flow[n].at = "reply" /\ flow'[n].at = "done"
                                /\ faults' = faults /\ tokens'
              => flow[n].overtaken]_vars
  <2> SUFFICES ASSUME LoginInv, Next, NEW n \in Nonces, flow[n].kind = "logout", flow[n].at = "reply",
                      flow'[n].at = "done", faults' = faults, tokens'
               PROVE  flow[n].overtaken
    OBVIOUS
  <2>1. FlowInv(n) /\ flow[n].reply \in Replies
    BY DEF LoginInv, FlowsTyped, LoginTypeOK
  <2>2. Deliver(n)
    BY ReplyEnds
  <2>3. flow[n].reply.sets \in {"keep", "drop"}
    BY <2>1 DEF FlowInv, OwnDrops, Replies
  <2>4. tokens /\ flow[n].reply.sets = "keep"
    BY <2>2, <2>3 DEF Deliver
  <2>5. QED  BY <2>1, <2>4 DEF FlowInv, NoneLeft
<1>2. QED  BY <1>1, LoginInvariant, PTL DEF Spec, LogoutStripsTokens

-----------------------------------------------------------------------------
(***************************************************************************)
(* The auth plugin manager.                                                *)
(***************************************************************************)

(* A decision is never behind the plugins it started with: the loop ends   *)
(* only when as many plugins answered as there were at its start.          *)
InStep(r) ==
  /\ seen[r] <= Len(plugins)
  /\ request[r] = "base" => Len(said[r]) >= seen[r]
  /\ request[r] = "decided" => /\ Len(said[r]) >= seen[r]
                               /\ \/ r \in base /\ Len(said[r]) > seen[r]
                                  \/ maxOverride # "none"

(* What OverrideIsStrongest needs of the override to be inductive. *)
OverrideIsOfPlugins ==
  /\ maxOverride = "none" <=> \A i \in DOMAIN plugins : Override[plugins[i]] \in {"undefined", "none"}
  /\ (\E i \in DOMAIN plugins : Override[plugins[i]] = "all")
       => Len(plugins) = 1 /\ maxOverride = "all"

AInv == PluginsTypeOK /\ OverrideIsOfPlugins /\ \A r \in Requests : InStep(r)

-----------------------------------------------------------------------------
(* The list of plugins, and what it says of the override, after a          *)
(* registration.                                                           *)
LEMMA Registers ==
  ASSUME PluginsTypeOK, NEW p \in Plugins, RegisterAuthPlugin(p)
  PROVE  /\ plugins' \in Seq(Plugins) /\ Len(plugins') = Len(plugins) + 1
         /\ \A i \in 1..Len(plugins) : plugins'[i] = plugins[i]
         /\ plugins'[Len(plugins) + 1] = p
         /\ maxOverride' \in {"none", "disable base", "all"}
         /\ UNCHANGED <<request, said, seen, base>>
<1>1. plugins \in Seq(Plugins) /\ plugins' = Append(plugins, p)
  BY DEF RegisterAuthPlugin, PluginsTypeOK
<1>2. NewMaxOverride(p) \in {"none", "disable base", "all"}
  BY PluginsAssumption DEF NewMaxOverride, Overrides, PluginsTypeOK
<1>3. /\ Append(plugins, p) \in Seq(Plugins) /\ Len(Append(plugins, p)) = Len(plugins) + 1
      /\ \A i \in 1..Len(plugins) : Append(plugins, p)[i] = plugins[i]
      /\ Append(plugins, p)[Len(plugins) + 1] = p
  BY <1>1
<1>4. QED  BY <1>1, <1>2, <1>3 DEF RegisterAuthPlugin, Decisions

(* A request's answers after one more, and where it goes from there. *)
LEMMA Answers ==
  ASSUME PluginsTypeOK, NEW r \in Requests, NEW answer \in BOOLEAN
  PROVE  LET responses == Append(said[r], answer) IN
         /\ responses \in Seq(BOOLEAN) /\ Len(responses) = Len(said[r]) + 1
         /\ Proceed(responses) \in {"plugin", "base", "decided"}
<1>1. said[r] \in Seq(BOOLEAN)
  BY DEF PluginsTypeOK
<1>2. Append(said[r], answer) \in Seq(BOOLEAN) /\ Len(Append(said[r], answer)) = Len(said[r]) + 1
  <2> DEFINE B == BOOLEAN
  <2>1. said[r] \in Seq(B) /\ answer \in B
    BY <1>1
  <2>2. Append(said[r], answer) \in Seq(B) /\ Len(Append(said[r], answer)) = Len(said[r]) + 1
    <3> HIDE DEF B
    <3>1. QED  BY <2>1, AppendProperties
  <2>3. QED  BY <2>2
<1>3. QED  BY <1>2 DEF Proceed

(* Type correctness of every variable, for any plugins and requests. *)
THEOREM PluginsTyping == PluginsSpec => []PluginsTypeOK
<1>1. PluginsInit => PluginsTypeOK
  BY DEF PluginsInit, PluginsTypeOK
<1>2. PluginsTypeOK /\ [PluginsNext]_pluginsVars => PluginsTypeOK'
  <2> SUFFICES ASSUME PluginsTypeOK, [PluginsNext]_pluginsVars PROVE PluginsTypeOK'
    OBVIOUS
  <2> USE DEF PluginsTypeOK, Decisions
  <2>1. ASSUME NEW p \in Plugins, RegisterAuthPlugin(p) PROVE PluginsTypeOK'
    BY <2>1, Registers DEF RegisterAuthPlugin
  <2>2. ASSUME NEW p \in Plugins, RegisterThrows(p) PROVE PluginsTypeOK'
    BY <2>2 DEF RegisterThrows
  <2>3. ASSUME NEW p \in Plugins, OnRegister(p) PROVE PluginsTypeOK'
    BY <2>3 DEF OnRegister
  <2>4. ASSUME NEW r \in Requests, Start(r) PROVE PluginsTypeOK'
    <3>1. Len(plugins) \in Nat
      BY LenProperties
    <3>2. Proceed(<<>>) \in {"plugin", "base", "decided"}
      BY DEF Proceed
    <3>3. QED  BY <2>4, <3>1, <3>2 DEF Start
  <2>5. ASSUME NEW r \in Requests, PluginAnswers(r) PROVE PluginsTypeOK'
    <3>1. PICK answer \in BOOLEAN :
            /\ said' = [said EXCEPT ![r] = Append(said[r], answer)]
            /\ request' = [request EXCEPT ![r] = Proceed(Append(said[r], answer))]
      BY <2>5 DEF PluginAnswers
    <3>2. QED  BY <2>5, <3>1, Answers DEF PluginAnswers
  <2>6. ASSUME NEW r \in Requests, BaseAnswers(r) PROVE PluginsTypeOK'
    <3>1. PICK answer \in BOOLEAN : said' = [said EXCEPT ![r] = Append(said[r], answer)]
      BY <2>6 DEF BaseAnswers
    <3>2. QED  BY <2>6, <3>1, Answers DEF BaseAnswers
  <2>7. ASSUME NEW r \in Requests, Throws(r) PROVE PluginsTypeOK'
    BY <2>7 DEF Throws
  <2>8. CASE UNCHANGED pluginsVars
    BY <2>8 DEF pluginsVars
  <2>9. QED  BY <2>1, <2>2, <2>3, <2>4, <2>5, <2>6, <2>7, <2>8 DEF PluginsNext
<1>3. QED  BY <1>1, <1>2, PTL DEF PluginsSpec

-----------------------------------------------------------------------------
(* No step disturbs what the override says of the plugins: only a          *)
(* registration changes either.                                            *)
LEMMA OverrideStep ==
  ASSUME PluginsTypeOK, OverrideIsOfPlugins, [PluginsNext]_pluginsVars
  PROVE  OverrideIsOfPlugins'
<1>1. ASSUME NEW p \in Plugins, RegisterAuthPlugin(p) PROVE OverrideIsOfPlugins'
  <2>1. /\ plugins' \in Seq(Plugins) /\ Len(plugins') = Len(plugins) + 1
        /\ \A i \in 1..Len(plugins) : plugins'[i] = plugins[i]
        /\ plugins'[Len(plugins) + 1] = p
    BY <1>1, Registers
  <2>2. plugins \in Seq(Plugins) /\ Len(plugins) \in Nat
        /\ DOMAIN plugins = 1..Len(plugins) /\ DOMAIN plugins' = 1..(Len(plugins) + 1)
    BY <2>1, LenProperties DEF PluginsTypeOK
  <2>3. /\ maxOverride' = NewMaxOverride(p) /\ maxOverride # "all"
        /\ Override[p] = "all" => plugins = <<>>
    BY <1>1 DEF RegisterAuthPlugin, MayRegister
  <2>4. maxOverride \in {"none", "disable base", "all"} /\ Override[p] \in Overrides
    BY PluginsAssumption DEF PluginsTypeOK
  <2>5. maxOverride' = "none" <=> maxOverride = "none" /\ Override[p] \in {"undefined", "none"}
    BY <2>3, <2>4 DEF NewMaxOverride, Overrides
  <2>6. (\A i \in DOMAIN plugins' : Override[plugins'[i]] \in {"undefined", "none"})
          <=> /\ \A i \in DOMAIN plugins : Override[plugins[i]] \in {"undefined", "none"}
              /\ Override[p] \in {"undefined", "none"}
    BY <2>1, <2>2
  <2>7. ASSUME NEW i \in DOMAIN plugins', Override[plugins'[i]] = "all"
        PROVE  Len(plugins') = 1 /\ maxOverride' = "all"
    <3>1. i = Len(plugins) + 1
      BY <2>1, <2>2, <2>3, <2>7 DEF OverrideIsOfPlugins
    <3>2. Override[p] = "all" /\ plugins = <<>>
      BY <2>1, <2>3, <2>7, <3>1
    <3>3. maxOverride = "none"
      BY <3>2 DEF OverrideIsOfPlugins
    <3>4. QED  BY <2>1, <2>3, <3>2, <3>3 DEF NewMaxOverride
  <2>8. QED  BY <2>5, <2>6, <2>7 DEF OverrideIsOfPlugins
<1>2. ASSUME UNCHANGED <<plugins, maxOverride>> PROVE OverrideIsOfPlugins'
  BY <1>2 DEF OverrideIsOfPlugins
<1>3. QED
  BY <1>1, <1>2 DEF PluginsNext, pluginsVars, RegisterThrows, OnRegister, Start, PluginAnswers, BaseAnswers, Throws

(* No step leaves a decision behind the plugins it started with, although  *)
(* the list that it loops over grows.                                      *)
LEMMA InStepStep ==
  ASSUME PluginsTypeOK, OverrideIsOfPlugins, NEW r \in Requests, InStep(r), [PluginsNext]_pluginsVars
  PROVE  InStep(r)'
<1> USE DEF InStep
<1>0. Len(plugins) \in Nat /\ seen[r] \in Nat /\ Len(said[r]) \in Nat
  <2>1. plugins \in Seq(Plugins) /\ said[r] \in Seq(BOOLEAN) /\ seen[r] \in Nat
    BY DEF PluginsTypeOK
  <2>2. QED  BY <2>1, LenProperties
<1>1. ASSUME NEW p \in Plugins, RegisterAuthPlugin(p) PROVE InStep(r)'
  <2>1. /\ Len(plugins') = Len(plugins) + 1 /\ maxOverride' = NewMaxOverride(p)
        /\ UNCHANGED <<request, said, seen, base>>
    BY <1>1, Registers DEF RegisterAuthPlugin
  <2>2. maxOverride # "none" => maxOverride' # "none"
    BY <2>1 DEF NewMaxOverride
  <2>3. QED  BY <1>0, <2>1, <2>2
<1>2. ASSUME NEW q \in Requests, Start(q) PROVE InStep(r)'
  <2>1. CASE q = r
    <3>1. seen'[r] = Len(plugins) /\ request'[r] = Proceed(<<>>)
          /\ UNCHANGED <<plugins, maxOverride, said, base>>
      BY <1>2, <2>1 DEF Start, PluginsTypeOK
    <3>2. request'[r] \in {"base", "decided"} => Len(plugins) = 0
      BY <1>0, <3>1 DEF Proceed
    <3>3. request'[r] = "decided" => maxOverride # "none"
      BY <3>1 DEF Proceed
    <3>4. QED  BY <1>0, <3>1, <3>2, <3>3
  <2>2. CASE q # r
    BY <1>2, <2>2 DEF Start, PluginsTypeOK
  <2>3. QED  BY <2>1, <2>2
<1>3. ASSUME NEW q \in Requests, PluginAnswers(q) PROVE InStep(r)'
  <2>1. PICK answer \in BOOLEAN :
          /\ said' = [said EXCEPT ![q] = Append(said[q], answer)]
          /\ request' = [request EXCEPT ![q] = Proceed(Append(said[q], answer))]
    BY <1>3 DEF PluginAnswers
  <2>2. UNCHANGED <<plugins, maxOverride, seen, base>>
    BY <1>3 DEF PluginAnswers
  <2>3. CASE q = r
    <3>1. said'[r] = Append(said[r], answer) /\ request'[r] = Proceed(Append(said[r], answer))
      BY <2>1, <2>3 DEF PluginsTypeOK
    <3>2. Len(said'[r]) \in Nat
      BY <1>0, <3>1, Answers
    <3>3. request'[r] \in {"base", "decided"} => Len(said'[r]) >= Len(plugins)
      BY <1>0, <3>1, <3>2 DEF Proceed
    <3>4. request'[r] = "decided" => maxOverride # "none"
      BY <3>1 DEF Proceed
    <3>5. QED  BY <1>0, <2>2, <3>2, <3>3, <3>4
  <2>4. CASE q # r
    BY <2>1, <2>2, <2>4 DEF PluginsTypeOK
  <2>5. QED  BY <2>3, <2>4
<1>4. ASSUME NEW q \in Requests, BaseAnswers(q) PROVE InStep(r)'
  <2>1. PICK answer \in BOOLEAN : said' = [said EXCEPT ![q] = Append(said[q], answer)]
    BY <1>4 DEF BaseAnswers
  <2>2. CASE q = r
    <3>1. request[r] = "base" /\ r \in base' /\ UNCHANGED <<plugins, seen>>
      BY <1>4, <2>2 DEF BaseAnswers
    <3>2. said'[r] = Append(said[r], answer)
      BY <2>1, <2>2 DEF PluginsTypeOK
    <3>3. Len(said'[r]) = Len(said[r]) + 1
      BY <3>2, Answers
    <3>4. QED  BY <1>0, <3>1, <3>3
  <2>3. CASE q # r
    BY <1>4, <2>1, <2>3 DEF BaseAnswers, PluginsTypeOK
  <2>4. QED  BY <2>2, <2>3
<1>5. ASSUME NEW q \in Requests, Throws(q) PROVE InStep(r)'
  BY <1>5 DEF Throws, PluginsTypeOK
<1>6. ASSUME UNCHANGED <<plugins, maxOverride, request, said, seen, base>> PROVE InStep(r)'
  BY <1>6
<1>7. QED
  BY <1>1, <1>2, <1>3, <1>4, <1>5, <1>6 DEF PluginsNext, pluginsVars, RegisterThrows, OnRegister, Decisions

(* The inductive invariant: types, the override and the decisions. *)
THEOREM PluginsInvariant == PluginsSpec => []AInv
<1>1. PluginsInit => AInv
  BY DEF PluginsInit, AInv, PluginsTypeOK, OverrideIsOfPlugins, InStep
<1>2. AInv /\ [PluginsNext]_pluginsVars /\ PluginsTypeOK' => AInv'
  BY OverrideStep, InStepStep DEF AInv
<1>3. QED  BY <1>1, <1>2, PluginsTyping, PTL DEF PluginsSpec

(* The override in force is the strongest of the plugins', in whatever     *)
(* order they register (registerAuthPlugin).                               *)
THEOREM OverrideSafe == PluginsSpec => []OverrideIsStrongest
<1>1. AInv => OverrideIsStrongest
  BY DEF AInv, OverrideIsOfPlugins, OverrideIsStrongest
<1>2. QED  BY <1>1, PluginsInvariant, PTL

(* A request is authorized only when every plugin that was registered at   *)
(* its start agreed, and the base handler too unless a plugin stands for   *)
(* it (isUserAuthorized).                                                  *)
THEOREM DecisionSafe == PluginsSpec => []AllAgreed
<1>1. ASSUME AInv, NEW r \in Requests, Authorized(r)
      PROVE  /\ \A i \in 1..seen[r] : i \in DOMAIN said[r] /\ said[r][i]
             /\ \/ r \in base /\ Len(said[r]) > seen[r]
                \/ \E i \in DOMAIN plugins : Override[plugins[i]] \in {"disable base", "all"}
  <2>1. said[r] \in Seq(BOOLEAN) /\ seen[r] \in Nat /\ plugins \in Seq(Plugins)
    BY <1>1 DEF AInv, PluginsTypeOK
  <2>2. Len(said[r]) \in Nat /\ DOMAIN said[r] = 1..Len(said[r])
        /\ DOMAIN plugins = 1..Len(plugins) /\ Len(plugins) \in Nat
    BY <2>1, LenProperties
  <2>3. Len(said[r]) >= seen[r]
    BY <1>1 DEF AInv, InStep, Authorized
  <2>4. \A i \in 1..seen[r] : i \in DOMAIN said[r] /\ said[r][i]
    BY <1>1, <2>1, <2>2, <2>3 DEF Authorized
  <2>5. CASE maxOverride # "none"
    <3>1. PICK i \in DOMAIN plugins : Override[plugins[i]] \notin {"undefined", "none"}
      BY <1>1, <2>5 DEF AInv, OverrideIsOfPlugins
    <3>2. Override[plugins[i]] \in {"disable base", "all"}
      <4>1. plugins[i] \in Plugins
        BY <2>1, <2>2, <3>1, ElementOfSeq
      <4>2. QED  BY <3>1, <4>1, PluginsAssumption DEF Overrides
    <3>3. QED  BY <2>4, <3>2
  <2>6. CASE maxOverride = "none"
    BY <1>1, <2>4, <2>6 DEF AInv, InStep, Authorized
  <2>7. QED  BY <2>5, <2>6
<1>2. AInv => AllAgreed
  BY <1>1 DEF AllAgreed
<1>3. QED  BY <1>2, PluginsInvariant, PTL

-----------------------------------------------------------------------------
(***************************************************************************)
(* The role helper.                                                        *)
(***************************************************************************)

(* What was decided still stands: roles that are given later end it. *)
RInv == RolesTypeOK /\ PassesByMeaning /\ RefusedByMeaning

-----------------------------------------------------------------------------
(* The meaning of each part of a requirement is what its function decides. *)

LEMMA RulesHold ==
  ASSUME NEW rules, NEW place, NEW user
  PROVE  HasRoleRule(rules, place, user) <=> \E d \in RulesMean(rules, place) : Holds(d, user)
<1>1. ASSUME NEW rule \in Elements(rules)
      PROVE  Holds({place} \X RuleRoles(rule), user) <=>
               \A role \in (IF rule.t = "role" THEN {rule} ELSE Elements(rule)) : HasRole(role.of, place, user)
  <2>1. Holds({place} \X RuleRoles(rule), user) <=> \A r \in RuleRoles(rule) : HasRole(r, place, user)
    <3>1. \A r \in RuleRoles(rule) : <<place, r>>[1] = place /\ <<place, r>>[2] = r
      OBVIOUS
    <3>2. \A d \in {place} \X RuleRoles(rule) : d[1] = place /\ d[2] \in RuleRoles(rule)
      OBVIOUS
    <3>3. \A r \in RuleRoles(rule) : <<place, r>> \in {place} \X RuleRoles(rule)
      OBVIOUS
    <3>4. QED BY <3>1, <3>2, <3>3 DEF Holds
  <2>2. QED BY <2>1 DEF RuleRoles
<1>2. QED BY <1>1 DEF HasRoleRule, RulesMean

LEMMA ClientsHold ==
  ASSUME NEW v, NEW user
  PROVE  HasClientRoles(v, user) <=> \E d \in ClientsMean(v) : Holds(d, user)
<1>. DEFINE F == {f \in [DOMAIN v.of -> UNION {RulesMean(v.of[c], c) : c \in DOMAIN v.of}] :
                    \A c \in DOMAIN v.of : f[c] \in RulesMean(v.of[c], c)}
            All(f) == UNION {f[c] : c \in DOMAIN v.of}
<1>1. ClientsMean(v) = {All(f) : f \in F} BY DEF ClientsMean
<1>2. ASSUME HasClientRoles(v, user) PROVE \E d \in ClientsMean(v) : Holds(d, user)
  <2>. DEFINE pick == [c \in DOMAIN v.of |-> CHOOSE d \in RulesMean(v.of[c], c) : Holds(d, user)]
  <2>1. ASSUME NEW c \in DOMAIN v.of
        PROVE  pick[c] \in RulesMean(v.of[c], c) /\ Holds(pick[c], user)
    <3>1. \E d \in RulesMean(v.of[c], c) : Holds(d, user) BY <1>2, RulesHold DEF HasClientRoles
    <3>2. QED BY <3>1
  <2>2. pick \in F BY <2>1
  <2>3. Holds(All(pick), user) BY <2>1 DEF Holds
  <2>4. HIDE DEF pick, All, F
  <2>5. All(pick) \in ClientsMean(v) BY <1>1, <2>2
  <2>6. QED BY <2>3, <2>5
<1>3. ASSUME NEW d \in ClientsMean(v), Holds(d, user) PROVE HasClientRoles(v, user)
  <2>1. PICK f \in F : d = All(f) BY <1>1
  <2>2. ASSUME NEW c \in DOMAIN v.of PROVE HasRoleRule(v.of[c], c, user)
    <3>1. f[c] \in RulesMean(v.of[c], c) BY <2>1
    <3>2. Holds(f[c], user) BY <1>3, <2>1 DEF Holds
    <3>3. QED BY <3>1, <3>2, RulesHold
  <2>3. QED BY <2>2 DEF HasClientRoles
<1>4. QED BY <1>2, <1>3

LEMMA ResourceHolds ==
  ASSUME NEW v, NEW user
  PROVE  HasResourceAccess(v, user) = "yes" <=> \E d \in ResourceMeans(v) : Holds(d, user)
BY RulesHold, ClientsHold DEF HasResourceAccess, ResourceMeans

LEMMA BothHold ==
  ASSUME NEW S, NEW T, NEW user
  PROVE  (\E d \in Both(S, T) : Holds(d, user)) <=> (\E x \in S : Holds(x, user)) /\ (\E y \in T : Holds(y, user))
<1>1. ASSUME NEW x, NEW y PROVE Holds(x \cup y, user) <=> Holds(x, user) /\ Holds(y, user) BY DEF Holds
<1>2. ASSUME NEW d \in Both(S, T) PROVE \E x \in S : \E y \in T : d = x \cup y BY DEF Both
<1>3. ASSUME NEW x \in S, NEW y \in T PROVE x \cup y \in Both(S, T) BY DEF Both
<1>4. ASSUME NEW d \in Both(S, T), Holds(d, user)
      PROVE  (\E x \in S : Holds(x, user)) /\ (\E y \in T : Holds(y, user))
  <2>1. PICK x \in S, y \in T : d = x \cup y BY <1>2
  <2>2. Holds(x, user) /\ Holds(y, user) BY <1>1, <1>4, <2>1
  <2>3. QED BY <2>2
<1>5. ASSUME NEW x \in S, Holds(x, user), NEW y \in T, Holds(y, user)
      PROVE  \E d \in Both(S, T) : Holds(d, user)
  <2>1. Holds(x \cup y, user) BY <1>1, <1>5
  <2>2. QED BY <1>3, <2>1
<1>6. QED BY <1>4, <1>5

LEMMA LocationsHold ==
  ASSUME NEW v, NEW user
  PROVE  HasLocations(v, user) = "yes" <=> \E d \in LocationMeans(v) : Holds(d, user)
<1>. DEFINE S == IF Realm \in DOMAIN v.of THEN RulesMean(v.of[Realm], Realm) ELSE {{}}
            T == IF Resource \in DOMAIN v.of THEN ResourceMeans(v.of[Resource]) ELSE {{}}
<1>2. (\E d \in LocationMeans(v) : Holds(d, user)) <=> (\E x \in S : Holds(x, user)) /\ (\E y \in T : Holds(y, user))
  BY BothHold DEF LocationMeans
<1>3. (\E x \in S : Holds(x, user)) <=> (Realm \in DOMAIN v.of => HasRoleRule(v.of[Realm], Realm, user))
  <2>1. Holds({}, user) BY DEF Holds
  <2>2. QED BY <2>1, RulesHold
<1>4. (\E y \in T : Holds(y, user)) <=>
        (Resource \in DOMAIN v.of => HasResourceAccess(v.of[Resource], user) = "yes")
  <2>1. Holds({}, user) BY DEF Holds
  <2>2. QED BY <2>1, ResourceHolds
<1>5. QED BY <1>2, <1>3, <1>4 DEF HasLocations

LEMMA ChildHolds ==
  ASSUME NEW v, NEW user
  PROVE  HasChild(v, user) = "yes" <=> \E d \in ChildMeans(v) : Holds(d, user)
<1>1. Style(v) = "RoleLocation" <=> ChildStyle(v) = "RoleLocation"
  BY DEF Style, ChildStyle, IsArray, IsRoleRules
<1>2. QED BY <1>1, ResourceHolds, LocationsHold DEF HasChild, ChildMeans

-----------------------------------------------------------------------------
(* The alternatives of an array are tried in their order, so there is a    *)
(* first one that decides.                                                 *)

LEMMA LeastIndex ==
  ASSUME NEW S, S \subseteq Nat, S # {}
  PROVE  \E i \in S : \A j \in S : i <= j
<1>1. PICK i \in S : \A j \in S : <<j, i>> \notin OpToRel(<, Nat)
  BY NatLessThanWellFounded, WFMin
<1>2. OpToRel(<, Nat) = {r \in Nat \X Nat : r[1] < r[2]} BY Zenon DEF OpToRel
<1>3. ASSUME NEW j \in S, j < i PROVE FALSE
  <2>1. <<j, i>> \in Nat \X Nat /\ <<j, i>>[1] < <<j, i>>[2] BY <1>3
  <2>2. <<j, i>> \in OpToRel(<, Nat) BY <1>2, <2>1, Zenon
  <2>3. QED BY <1>1, <2>2, Zenon
<1>4. QED BY <1>3

Decided(v, user) == {i \in DOMAIN v.of : HasChild(v.of[i], user) # "no"}
First(S) == CHOOSE i \in S : \A j \in S : i <= j

LEMMA FirstIsLeast ==
  ASSUME NEW S, S \subseteq Nat, S # {}
  PROVE  First(S) \in S /\ \A j \in S : First(S) <= j
BY LeastIndex DEF First

LEMMA RolesHold ==
  ASSUME NEW v, NEW user, IsArray(v) => DOMAIN v.of \subseteq Nat
  PROVE  /\ HasRoles(v, user) = "yes" => \E d \in Means(v) : Holds(d, user)
         /\ HasRoles(v, user) = "no"  => \A d \in Means(v) : ~Holds(d, user)
<1>1. CASE Style(v) # "CombinedRoleRulesArray"
  <2>1. HasRoles(v, user) = HasChild(v, user) BY <1>1 DEF HasRoles
  <2>2. CASE IsRoleRules(v) \/ ~IsArray(v)
    BY <2>1, <2>2, ChildHolds DEF Means
  <2>3. CASE ~IsRoleRules(v) /\ IsArray(v)
    <3>1. Style(v) = "invalid" BY <1>1, <2>3 DEF Style
    <3>2. HasRoles(v, user) = "error" BY <2>1, <3>1 DEF HasChild, HasResourceAccess
    <3>3. QED BY <3>2
  <2>4. QED BY <2>2, <2>3
<1>2. CASE Style(v) = "CombinedRoleRulesArray"
  <2>1. ~IsRoleRules(v) /\ IsArray(v)
    BY <1>2 DEF Style, ChildStyle, ObjectStyle
  <2>2. Means(v) = UNION {ChildMeans(e) : e \in Elements(v)} BY <2>1 DEF Means
  <2>3. CASE Decided(v, user) = {}
    <3>1. HasRoles(v, user) = "no" BY <1>2, <2>3 DEF HasRoles, Decided
    <3>2. \A e \in Elements(v) : HasChild(e, user) = "no" BY <2>3 DEF Decided, Elements
    <3>3. QED BY <2>2, <3>1, <3>2, ChildHolds
  <2>4. CASE Decided(v, user) # {}
    <3>1. HasRoles(v, user) = HasChild(v.of[First(Decided(v, user))], user)
      BY <1>2, <2>4 DEF HasRoles, Decided, First
    <3>2. First(Decided(v, user)) \in Decided(v, user)
      BY <2>1, <2>4, FirstIsLeast DEF Decided
    <3>3. v.of[First(Decided(v, user))] \in Elements(v) BY <3>2 DEF Decided, Elements
    <3>4. HasRoles(v, user) # "no" BY <3>1, <3>2 DEF Decided
    <3>5. QED BY <2>2, <3>1, <3>3, <3>4, ChildHolds
  <2>5. QED BY <2>3, <2>4
<1>3. QED BY <1>1, <1>2

LEMMA RouteIsOrdered ==
  ASSUME RolesTypeOK
  PROVE  IsArray(required) => DOMAIN required.of \subseteq Nat
BY ArraysAssumption DEF RolesTypeOK, IsArray

(* Rules by themselves are refused or met. *)
LEMMA RulesDecide ==
  ASSUME NEW v, NEW user, Style(v) = "RoleRules"
  PROVE  HasRoles(v, user) \in {"yes", "no"}
BY DEF HasRoles, HasChild, HasResourceAccess

LEMMA AnswersOfChild ==
  ASSUME NEW v, NEW user
  PROVE  HasChild(v, user) \in {"yes", "no", "error"}
<1>1. \A u : HasResourceAccess(u, user) \in {"yes", "no", "error"}
  BY Zenon DEF HasResourceAccess
<1>2. HasLocations(v, user) \in {"yes", "no", "error"}
  BY <1>1 DEF HasLocations
<1>3. QED BY <1>1, <1>2 DEF HasChild

LEMMA AnswersOfRoles ==
  ASSUME NEW v, NEW user, IsArray(v) => DOMAIN v.of \subseteq Nat
  PROVE  HasRoles(v, user) \in {"yes", "no", "error"}
<1>1. CASE Style(v) # "CombinedRoleRulesArray"
  BY <1>1, AnswersOfChild DEF HasRoles
<1>2. CASE Style(v) = "CombinedRoleRulesArray" /\ Decided(v, user) # {}
  <2>1. HasRoles(v, user) = HasChild(v.of[First(Decided(v, user))], user)
    BY <1>2 DEF HasRoles, Decided, First
  <2>2. QED BY <2>1, AnswersOfChild
<1>3. CASE Style(v) = "CombinedRoleRulesArray" /\ Decided(v, user) = {}
  BY <1>3 DEF HasRoles, Decided
<1>4. QED BY <1>1, <1>2, <1>3

-----------------------------------------------------------------------------
(* What a decision says when it is given. *)
LEMMA VerdictIsRight ==
  ASSUME RolesTypeOK
  PROVE  /\ Verdict \in {"yes", "no", "error"}
         /\ Verdict = "error" => Style(required) # "RoleRules"
         /\ Verdict = "yes" /\ ~Open => login /\ \E d \in Means(required) : Holds(d, granted)
         /\ Verdict = "no" => ~login \/ \A d \in Means(required) : ~Holds(d, granted)
<1>1. CASE Open
  <2>1. Verdict = "yes" BY <1>1 DEF Verdict
  <2>2. QED BY <1>1, <2>1
<1>2. CASE ~Open /\ required.t = "unset"
  <2>1. Verdict = "error" BY <1>2 DEF Verdict
  <2>2. Style(required) = "invalid"
    BY <1>2 DEF Style, ChildStyle, IsArray, IsRoleRules
  <2>3. QED BY <2>1, <2>2
<1>3. CASE ~Open /\ required.t # "unset" /\ login
  <2>1. Verdict = HasRoles(required, granted) BY <1>3 DEF Verdict
  <2>2. QED BY <1>3, <2>1, RouteIsOrdered, AnswersOfRoles, RulesDecide, RolesHold
<1>4. CASE ~Open /\ required.t # "unset" /\ ~login
  <2>1. Verdict = "no" BY <1>4 DEF Verdict
  <2>2. QED BY <1>4, <2>1
<1>5. QED BY <1>1, <1>2, <1>3, <1>4

LEMMA RInit == RolesInit => RInv
BY DEF RolesInit, RolesStart, Unprotected, RInv, RolesTypeOK, PassesByMeaning, RefusedByMeaning

LEMMA RNext == RInv /\ [RolesNext]_rolesVars => RInv'
<1>. SUFFICES ASSUME RInv, [RolesNext]_rolesVars PROVE RInv'
  OBVIOUS
<1>. USE DEF RInv
<1>0. PICK v : v = required OBVIOUS
<1>1. required' = v BY <1>0 DEF RolesNext, IsUserAuthorized, Login, Give, rolesVars
<1>2. CASE decision' = "none"
  <2>1. login' \in BOOLEAN /\ granted' \subseteq Grant
    BY DEF RolesTypeOK, RolesNext, IsUserAuthorized, Login, Give, rolesVars
  <2>2. RolesTypeOK' BY <1>0, <1>1, <1>2, <2>1 DEF RolesTypeOK
  <2>3. QED BY <1>2, <2>2 DEF PassesByMeaning, RefusedByMeaning
<1>3. ASSUME UNCHANGED <<required, login, granted>>,
             \/ UNCHANGED decision
             \/ decision' = Verdict
      PROVE  RInv'
  <2>1. /\ decision' \in {"none", "yes", "no", "error"}
        /\ decision' = "error" => Style(v) # "RoleRules"
        /\ decision' = "yes" /\ ~Open => login /\ \E d \in Means(v) : Holds(d, granted)
        /\ decision' = "no" => ~login \/ \A d \in Means(v) : ~Holds(d, granted)
    BY <1>0, <1>3, VerdictIsRight DEF RolesTypeOK, PassesByMeaning, RefusedByMeaning
  <2>2. Open' <=> Open BY <1>3 DEF Open, IsArray
  <2>3. \A d : Holds(d, granted)' <=> Holds(d, granted) BY <1>3 DEF Holds, HasRole
  <2>4. RolesTypeOK' BY <1>0, <1>1, <1>3, <2>1 DEF RolesTypeOK
  <2>5. PassesByMeaning' BY <1>1, <1>3, <2>1, <2>2, <2>3 DEF PassesByMeaning
  <2>6. RefusedByMeaning' BY <1>1, <1>3, <2>1, <2>3 DEF RefusedByMeaning
  <2>7. QED BY <2>4, <2>5, <2>6
<1>4. QED BY <1>2, <1>3 DEF RolesNext, IsUserAuthorized, Login, Give, rolesVars

LEMMA RolesInvariant == RolesSpec => []RInv
BY RInit, RNext, PTL DEF RolesSpec

(* Every state is well typed, and rules by themselves are never an error. *)
THEOREM RolesTyping == RolesSpec => []RolesTypeOK
BY RolesInvariant, PTL DEF RInv

(* Whatever the route requires: who passes a protected route is logged in  *)
(* and has all roles of one combination that the requirement stands for.   *)
THEOREM WhoPasses == RolesSpec => []PassesByMeaning
BY RolesInvariant, PTL DEF RInv

(* And who is refused has the roles of none. *)
THEOREM WhoIsRefused == RolesSpec => []RefusedByMeaning
BY RolesInvariant, PTL DEF RInv

(* Both together: a decision is what the requirement means. *)
THEOREM DecisionIsMeaning == RolesSpec => []DecidedByMeaning
BY WhoPasses, WhoIsRefused, PTL DEF DecidedByMeaning

-----------------------------------------------------------------------------
(* More roles never take a yes away, and change no error. *)
LEMMA MoreRoles ==
  ASSUME NEW v, IsArray(v) => DOMAIN v.of \subseteq Nat, NEW user, NEW more, user \subseteq more,
         HasRoles(v, user) = "yes"
  PROVE  HasRoles(v, more) = "yes"
<1>1. \A rules, place : HasRoleRule(rules, place, user) => HasRoleRule(rules, place, more)
  BY DEF HasRoleRule, HasRole
<1>2. \A u : HasClientRoles(u, user) => HasClientRoles(u, more)
  BY <1>1 DEF HasClientRoles
<1>3. ASSUME NEW u
      PROVE  /\ HasResourceAccess(u, user) = "yes" => HasResourceAccess(u, more) = "yes"
             /\ HasResourceAccess(u, user) = "error" <=> HasResourceAccess(u, more) = "error"
  <2>1. CASE Style(u) = "RoleRules"
    BY <2>1, <1>1 DEF HasResourceAccess
  <2>2. CASE Style(u) = "ClientRole"
    BY <2>2, <1>2 DEF HasResourceAccess
  <2>3. CASE Style(u) \notin {"RoleRules", "ClientRole"}
    BY <2>3 DEF HasResourceAccess
  <2>4. QED BY <2>1, <2>2, <2>3
<1>4. ASSUME NEW u
      PROVE  /\ HasChild(u, user) = "yes" => HasChild(u, more) = "yes"
             /\ HasChild(u, user) = "error" <=> HasChild(u, more) = "error"
  <2>1. CASE Style(u) = "RoleLocation"
    BY <2>1, <1>1, <1>3 DEF HasChild, HasLocations
  <2>2. CASE Style(u) # "RoleLocation"
    BY <2>2, <1>3 DEF HasChild
  <2>3. QED BY <2>1, <2>2
<1>5. CASE Style(v) # "CombinedRoleRulesArray"
  BY <1>4, <1>5 DEF HasRoles
<1>6. CASE Style(v) = "CombinedRoleRulesArray"
  <2>. DEFINE D == Decided(v, user)
              E == Decided(v, more)
  <2>1. D # {} /\ HasChild(v.of[First(D)], user) = "yes"
    BY <1>6 DEF HasRoles, Decided, First
  <2>2. D \subseteq E
    BY <1>4, AnswersOfChild DEF Decided
  <2>3. HasRoles(v, more) = HasChild(v.of[First(E)], more)
    BY <1>6, <2>1, <2>2 DEF HasRoles, Decided, First
  <2>4. E \subseteq Nat
    BY <1>6 DEF Decided, Style, ChildStyle, ObjectStyle
  <2>5. First(D) \in D /\ First(E) \in E /\ First(E) <= First(D)
    BY <2>1, <2>2, <2>4, FirstIsLeast
  <2>6. CASE First(E) \in D
    <3>1. First(E) = First(D) BY <2>1, <2>2, <2>4, <2>5, <2>6, FirstIsLeast
    <3>2. QED BY <1>4, <2>1, <2>3, <3>1
  <2>7. CASE First(E) \notin D
    <3>1. HasChild(v.of[First(E)], user) = "no" /\ HasChild(v.of[First(E)], more) # "no"
      BY <2>5, <2>7 DEF Decided
    <3>2. QED BY <1>4, <2>3, <3>1, AnswersOfChild
  <2>8. QED BY <2>6, <2>7
<1>7. QED BY <1>5, <1>6

(* Whatever the route requires: who has the roles keeps them when given    *)
(* more, and more roles never turn a yes into an error.                    *)
THEOREM MoreIsNeverLess == RolesSpec => MoreIsEnough
<1>1. ASSUME RolesTypeOK, [RolesNext]_rolesVars
      PROVE  HasRoles(required, granted) = "yes" => HasRoles(required', granted') = "yes"
  <2>1. required' = required /\ granted \subseteq granted'
    BY <1>1 DEF RolesNext, IsUserAuthorized, Login, Give, rolesVars
  <2>2. QED BY <1>1, <2>1, RouteIsOrdered, MoreRoles
<1>2. QED BY <1>1, RolesTyping, PTL DEF RolesSpec, MoreIsEnough

-----------------------------------------------------------------------------
(***************************************************************************)
(* The search of the group auth plugin.                                    *)
(***************************************************************************)

(* Where the search is, and that only valid trees are searched. *)
Phases ==
  /\ phase \in {"search", "done"} => Valid
  /\ phase # "search" => stack = <<>>
  /\ phase = "done" => todo = {}
  /\ phase \in {"validate", "error"} => DOMAIN treePermissions = {}

(* A frame has children of its node left, and each frame but the top one   *)
(* waits for the call that is the frame above it.                          *)
Calls ==
  /\ \A i \in DOMAIN stack : /\ stack[i].node \in visited
                             /\ Named(stack[i].left) \subseteq Children(stack[i].node)
  /\ \A i \in DOMAIN stack : i + 1 \in DOMAIN stack =>
       stack[i].left # <<>> /\ Head(stack[i].left) = stack[i + 1].node

(* Every visited permission has an entry, with itself in it. *)
Entries ==
  /\ visited \subseteq DOMAIN treePermissions
  /\ \A p \in DOMAIN treePermissions : p \in treePermissions[p]

(* What was visited is in the entry of a call that has not returned, or of *)
(* the one that has just returned and is merged next.                      *)
Accounted ==
  stack # <<>> => \A v \in visited :
    \/ \E i \in DOMAIN stack : v \in treePermissions[stack[i].node]
    \/ Top.left # <<>> /\ Head(Top.left) \in visited /\ v \in treePermissions[Head(Top.left)]

(* A child of a visited permission is visited, or a call has it left. *)
Explored ==
  stack # <<>> => \A v \in visited : \A q \in Children(v) :
    q \in visited \/ \E i \in DOMAIN stack : stack[i].node = v /\ q \in Named(stack[i].left)

(* A key that a run started from stands for all that it inherits, unless   *)
(* it is the run that goes on.                                             *)
RunsDone ==
  phase \in {"search", "done"} => \A p \in DOMAIN config.nodes \ todo :
    /\ p \in DOMAIN treePermissions
    /\ \/ stack # <<>> /\ stack[1].node = p
       \/ Inherits(p) \subseteq treePermissions[p]

TInv == /\ TreeTypeOK /\ Phases /\ Calls /\ Entries
        /\ Accounted /\ Explored /\ RunsDone /\ OnlyInherited /\ NoReentry

-----------------------------------------------------------------------------
(* What the three actions on the stack do, frame by frame. *)

(* What is known of a sequence of frames and of its top. *)
LEMMA StackFacts ==
  ASSUME TreeTypeOK
  PROVE  /\ Len(stack) \in Nat /\ DOMAIN stack = 1..Len(stack)
         /\ stack # <<>> <=> Len(stack) > 0
         /\ \A i \in DOMAIN stack : /\ stack[i].node \in Permissions
                                    /\ stack[i].left \in Seq(Names)
         /\ stack # <<>> => Len(stack) \in DOMAIN stack /\ Top = stack[Len(stack)]
<1>1. stack \in Seq(Frames)
  BY DEF TreeTypeOK
<1>2. Len(stack) \in Nat /\ DOMAIN stack = 1..Len(stack) /\ (stack # <<>> <=> Len(stack) > 0)
  BY <1>1, LenProperties, EmptySeq
<1>3. \A i \in DOMAIN stack : stack[i] \in Frames
  BY <1>1, <1>2, ElementOfSeq
<1>4. QED  BY <1>2, <1>3 DEF Frames, Top

(* The list of a frame: its names are its head and those of its tail. *)
LEMMA ListFacts ==
  ASSUME NEW l \in Seq(Names), l # <<>>
  PROVE  /\ Head(l) \in Named(l) /\ Tail(l) \in Seq(Names)
         /\ Named(l) = {Head(l)} \cup Named(Tail(l))
<1>1. Len(l) \in Nat /\ Len(l) > 0 /\ DOMAIN l = 1..Len(l)
  BY LenProperties, EmptySeq
<1>2. /\ Tail(l) \in Seq(Names) /\ Len(Tail(l)) = Len(l) - 1 /\ Head(l) = l[1]
      /\ \A i \in 1..Len(Tail(l)) : Tail(l)[i] = l[i + 1]
      /\ DOMAIN Tail(l) = 1..Len(Tail(l))
  BY <1>1, HeadTailProperties, LenProperties
<1>3. \A i \in DOMAIN l : l[i] = Head(l) \/ l[i] \in Named(Tail(l))
  <2> SUFFICES ASSUME NEW i \in 1..Len(l), i # 1 PROVE l[i] \in Named(Tail(l))
    BY <1>1, <1>2
  <2>1. i - 1 \in 1..Len(Tail(l)) /\ Tail(l)[i - 1] = l[i]
    BY <1>1, <1>2
  <2>2. QED  BY <1>2, <2>1 DEF Named
<1>4. \A i \in DOMAIN Tail(l) : Tail(l)[i] \in Named(l)
  BY <1>1, <1>2 DEF Named
<1>5. Head(l) \in Named(l)
  BY <1>1, <1>2 DEF Named
<1>6. Named(l) \subseteq {Head(l)} \cup Named(Tail(l)) /\ Named(Tail(l)) \subseteq Named(l)
  BY <1>3, <1>4 DEF Named
<1>7. QED  BY <1>2, <1>5, <1>6

(* A call: one more frame on top. *)
LEMMA Pushed ==
  ASSUME TreeTypeOK, NEW f \in Frames, stack' = Append(stack, f)
  PROVE  /\ stack' \in Seq(Frames) /\ stack' # <<>> /\ Len(stack') = Len(stack) + 1
         /\ DOMAIN stack' = 1..Len(stack') /\ stack'[Len(stack')] = f
         /\ \A i \in DOMAIN stack : stack'[i] = stack[i]
<1>1. stack \in Seq(Frames)
  BY DEF TreeTypeOK
<1>2. stack' \in Seq(Frames)
  BY <1>1, AppendProperties
<1>3. QED  BY <1>1, <1>2, AppendProperties, LenProperties

(* A return: the frames under the top one. *)
LEMMA Popped ==
  ASSUME TreeTypeOK, stack # <<>>, stack' = SubSeq(stack, 1, Len(stack) - 1)
  PROVE  /\ stack' \in Seq(Frames) /\ Len(stack') = Len(stack) - 1
         /\ DOMAIN stack' = 1..Len(stack')
         /\ \A i \in DOMAIN stack' : stack'[i] = stack[i]
<1>1. stack \in Seq(Frames) /\ Len(stack) \in Nat /\ Len(stack) > 0
  BY StackFacts DEF TreeTypeOK
<1>2. \A i \in 1..(Len(stack) - 1) : stack[i] \in Frames
  BY <1>1, ElementOfSeq
<1>3. /\ stack' \in Seq(Frames) /\ Len(stack') = Len(stack) - 1
      /\ \A i \in 1..(Len(stack) - 1) : stack'[i] = stack[i]
  <2> DEFINE m == 1
             n == Len(stack) - 1
  <2>1. m \in Int /\ n \in Int /\ \A i \in m..n : stack[i] \in Frames
    BY <1>1, <1>2
  <2>2. /\ SubSeq(stack, m, n) \in Seq(Frames)
        /\ Len(SubSeq(stack, m, n)) = IF m <= n THEN n - m + 1 ELSE 0
        /\ \A i \in 1..(n - m + 1) : SubSeq(stack, m, n)[i] = stack[m + i - 1]
    <3> HIDE DEF m, n
    <3>1. QED  BY <2>1, SubSeqProperties
  <2>3. (IF m <= n THEN n - m + 1 ELSE 0) = Len(stack) - 1 /\ n - m + 1 = Len(stack) - 1
        /\ \A i \in 1..(Len(stack) - 1) : m + i - 1 = i
    <3>1. \A k \in Nat : k > 0 => (IF 1 <= k - 1 THEN (k - 1) - 1 + 1 ELSE 0) = k - 1
      OBVIOUS
    <3>2. \A k \in Nat : (k - 1) - 1 + 1 = k - 1
      OBVIOUS
    <3>3. \A k \in Nat : \A i \in 1..(k - 1) : 1 + i - 1 = i
      OBVIOUS
    <3>4. QED  BY <1>1, <3>1, <3>2, <3>3
  <2>4. stack' = SubSeq(stack, m, n)
    OBVIOUS
  <2> HIDE DEF m, n
  <2>5. stack' \in Seq(Frames) /\ Len(stack') = Len(stack) - 1
    BY <2>2, <2>3, <2>4
  <2>6. ASSUME NEW i \in 1..(Len(stack) - 1) PROVE stack'[i] = stack[i]
    BY <2>2, <2>3, <2>4
  <2>7. QED  BY <2>5, <2>6
<1>4. QED  BY <1>1, <1>3, LenProperties

(* A merge: the top frame has one child fewer left. *)
LEMMA Shortened ==
  ASSUME TreeTypeOK, stack # <<>>, Top.left # <<>>,
         stack' = [stack EXCEPT ![Len(stack)].left = Tail(@)]
  PROVE  /\ stack' \in Seq(Frames) /\ Len(stack') = Len(stack) /\ stack' # <<>>
         /\ DOMAIN stack' = DOMAIN stack
         /\ \A i \in DOMAIN stack : stack'[i].node = stack[i].node
         /\ \A i \in DOMAIN stack : i # Len(stack) => stack'[i] = stack[i]
         /\ stack'[Len(stack)].left = Tail(Top.left)
<1>1. stack \in Seq(Frames) /\ Len(stack) \in Nat /\ Len(stack) \in DOMAIN stack
      /\ DOMAIN stack = 1..Len(stack) /\ Top = stack[Len(stack)]
  BY StackFacts DEF TreeTypeOK
<1>2. Top \in Frames
  BY <1>1, ElementOfSeq
<1> DEFINE f == [Top EXCEPT !.left = Tail(@)]
<1>3. f \in Frames /\ f.node = Top.node /\ f.left = Tail(Top.left)
  <2>1. Top.node \in Permissions /\ Top.left \in Seq(Names) /\ DOMAIN Top = {"node", "left"}
    BY <1>2 DEF Frames
  <2>2. Tail(Top.left) \in Seq(Names)
    BY <2>1, HeadTailProperties
  <2>3. QED  BY <1>2, <2>1, <2>2 DEF Frames
<1>4. stack' = [stack EXCEPT ![Len(stack)] = f]
  BY <1>1
<1> HIDE DEF f
<1>5. /\ stack' \in Seq(Frames) /\ Len(stack') = Len(stack)
      /\ \A i \in 1..Len(stack) : stack'[i] = IF i = Len(stack) THEN f ELSE stack[i]
  <2>1. DOMAIN stack' = 1..Len(stack)
    BY <1>1, <1>4
  <2>2. ASSUME NEW i \in 1..Len(stack) PROVE stack'[i] = IF i = Len(stack) THEN f ELSE stack[i]
    BY <1>1, <1>4
  <2>3. \A i \in 1..Len(stack) : stack[i] \in Frames
    BY <1>1, ElementOfSeq
  <2>4. stack' \in [1..Len(stack) -> Frames]
    BY <1>1, <1>3, <1>4, <2>3
  <2>5. stack' \in Seq(Frames)
    BY <1>1, <2>4, SeqDef
  <2>6. Len(stack') = Len(stack)
    BY <1>1, <2>1, <2>5, LenProperties
  <2>7. QED  BY <2>2, <2>5, <2>6
<1>6. DOMAIN stack' = DOMAIN stack /\ stack' # <<>>
  BY <1>1, <1>5, LenProperties, EmptySeq
<1>7. QED  BY <1>1, <1>3, <1>5, <1>6

-----------------------------------------------------------------------------
(* Inheritance: it is reflexive, goes through children, and stays inside   *)
(* every closed set.                                                       *)
LEMMA Inheritance ==
  /\ \A p \in Names : p \in Inherits(p) /\ Inherits(p) \subseteq Names
  /\ \A p, q \in Names : q \in Children(p) => Inherits(q) \subseteq Inherits(p)
  /\ \A p \in Names, S \in SUBSET Names : p \in S /\ Closed(S) => Inherits(p) \subseteq S
  BY DEF Inherits, Closed

(* The tree of the configuration does not change. *)
LEMMA SameTree ==
  ASSUME config' = config
  PROVE  /\ Valid' = Valid
         /\ \A p : ChildList(p)' = ChildList(p) /\ Children(p)' = Children(p)
         /\ \A p : Inherits(p)' = Inherits(p)
<1>1. Valid' = Valid
  BY DEF Valid
<1>2. \A p : ChildList(p)' = ChildList(p) /\ Children(p)' = Children(p)
  BY DEF ChildList, Children
<1>3. \A S : Closed(S)' = Closed(S)
  BY <1>2 DEF Closed
<1>4. ASSUME NEW p PROVE Inherits(p)' = Inherits(p)
  BY <1>3 DEF Inherits
<1>5. QED  BY <1>1, <1>2, <1>4

(* The lists of children, and that a valid tree has only permissions in it. *)
LEMMA ChildFacts ==
  ASSUME TreeTypeOK, NEW p
  PROVE  /\ ChildList(p) \in Seq(Names) /\ Children(p) = Named(ChildList(p))
         /\ Children(p) \subseteq Names
         /\ Valid => Children(p) \subseteq Permissions
<1>1. ChildList(p) \in Seq(Names)
  BY EmptySeq DEF TreeTypeOK, IsTree, ChildList
<1>2. DOMAIN ChildList(p) = 1..Len(ChildList(p)) /\ \A i \in DOMAIN ChildList(p) : ChildList(p)[i] \in Names
  BY <1>1, LenProperties, ElementOfSeq
<1>3. Children(p) \subseteq Names
  BY <1>2 DEF Children, Named
<1>4. ASSUME Valid PROVE Star \notin Children(p)
  <2>1. CASE p \in DOMAIN config.nodes
    BY <1>4, <2>1 DEF Valid, Children, ChildList
  <2>2. CASE p \notin DOMAIN config.nodes
    BY <2>2 DEF Children, ChildList, Named
  <2>3. QED  BY <2>1, <2>2
<1>5. QED  BY <1>1, <1>3, <1>4 DEF Children, Names

(* An entry is begun: the others stay, and it holds its own permission. *)
LEMMA EnteredFacts ==
  ASSUME TreeTypeOK, Entries, OnlyInherited, NEW p \in Permissions,
         treePermissions' = Entered(p), config' = config
  PROVE  /\ DOMAIN treePermissions' = DOMAIN treePermissions \cup {p}
         /\ \A q \in DOMAIN treePermissions : treePermissions'[q] = treePermissions[q]
         /\ \A q \in DOMAIN treePermissions' : q \in treePermissions'[q]
         /\ \A q \in DOMAIN treePermissions' : treePermissions'[q] \subseteq Permissions
         /\ OnlyInherited'
<1>1. CASE p \in DOMAIN treePermissions
  BY <1>1, SameTree DEF Entered, TreeTypeOK, Entries, OnlyInherited
<1>2. CASE p \notin DOMAIN treePermissions
  <2>1. /\ DOMAIN treePermissions' = DOMAIN treePermissions \cup {p} /\ treePermissions'[p] = {p}
        /\ \A q \in DOMAIN treePermissions : treePermissions'[q] = treePermissions[q]
    BY <1>2 DEF Entered
  <2>2. p \in Inherits(p)
    BY Inheritance DEF Names
  <2>3. QED  BY <2>1, <2>2, SameTree DEF TreeTypeOK, Entries, OnlyInherited
<1>3. QED  BY <1>1, <1>2

-----------------------------------------------------------------------------
(* Each step keeps the invariant. *)

LEMMA ValidateStep == ASSUME TInv, Validate PROVE TInv'
<1> USE DEF TInv
<1>1. /\ UNCHANGED <<config, stack, visited, treePermissions>> /\ stack = <<>> /\ DOMAIN treePermissions = {}
      /\ \/ Valid /\ phase' = "search" /\ todo' = DOMAIN config.nodes
         \/ ~Valid /\ phase' = "error" /\ todo' = todo
  BY DEF Validate, Phases
<1>2. TreeTypeOK'
  BY <1>1 DEF TreeTypeOK
<1>3. Phases'
  BY <1>1, SameTree DEF Phases
<1>4. Calls' /\ Entries' /\ Accounted' /\ Explored' /\ OnlyInherited' /\ NoReentry'
  BY <1>1, SameTree DEF Calls, Entries, Accounted, Explored, OnlyInherited, NoReentry
<1>5. RunsDone'
  BY <1>1 DEF RunsDone
<1>6. QED  BY <1>2, <1>3, <1>4, <1>5

LEMMA RootStep == ASSUME TInv, Root PROVE TInv'
<1> USE DEF TInv
<1>1. PICK p \in todo :
        /\ todo' = todo \ {p} /\ stack' = <<[node |-> p, left |-> ChildList(p)]>>
        /\ visited' = {p} /\ treePermissions' = Entered(p)
  BY DEF Root
<1>2. phase = "search" /\ stack = <<>> /\ UNCHANGED <<config, phase>>
  BY DEF Root
<1>3. p \in DOMAIN config.nodes /\ p \in Permissions /\ Valid
  BY <1>1, <1>2 DEF TreeTypeOK, IsTree, Phases
<1>4. ChildList(p) \in Seq(Names) /\ Children(p) = Named(ChildList(p))
  BY ChildFacts
<1>5. [node |-> p, left |-> ChildList(p)] \in Frames
  BY <1>3, <1>4 DEF Frames
<1>6. /\ stack' \in Seq(Frames) /\ DOMAIN stack' = {1} /\ Len(stack') = 1 /\ stack' # <<>>
      /\ stack'[1].node = p /\ stack'[1].left = ChildList(p)
  BY <1>1, <1>5
<1>7. /\ DOMAIN treePermissions' = DOMAIN treePermissions \cup {p}
      /\ \A q \in DOMAIN treePermissions : treePermissions'[q] = treePermissions[q]
      /\ \A q \in DOMAIN treePermissions' : q \in treePermissions'[q]
      /\ \A q \in DOMAIN treePermissions' : treePermissions'[q] \subseteq Permissions
      /\ OnlyInherited'
  BY <1>1, <1>2, <1>3, EnteredFacts
<1>8. TreeTypeOK'
  BY <1>1, <1>2, <1>3, <1>6, <1>7 DEF TreeTypeOK
<1>9. Phases'
  BY <1>2, SameTree DEF Phases
<1>10. Calls'
  BY <1>1, <1>2, <1>4, <1>6, SameTree DEF Calls
<1>11. Entries'
  BY <1>1, <1>7 DEF Entries
<1>12. Accounted'
  BY <1>1, <1>6, <1>7 DEF Accounted
<1>13. Explored'
  BY <1>1, <1>2, <1>4, <1>6, SameTree DEF Explored
<1>14. RunsDone'
  <2> SUFFICES ASSUME NEW q \in DOMAIN config.nodes \ todo'
               PROVE  /\ q \in DOMAIN treePermissions'
                      /\ (stack' # <<>> /\ stack'[1].node = q) \/ Inherits(q) \subseteq treePermissions'[q]
    BY <1>2, SameTree DEF RunsDone
  <2>1. CASE q = p
    BY <1>6, <1>7, <2>1
  <2>2. CASE q # p
    BY <1>1, <1>2, <1>7, <2>2 DEF RunsDone
  <2>3. QED  BY <2>1, <2>2
<1>15. NoReentry'
  BY <1>6 DEF NoReentry
<1>16. QED  BY <1>7, <1>8, <1>9, <1>10, <1>11, <1>12, <1>13, <1>14, <1>15

LEMMA FinishStep == ASSUME TInv, Finish PROVE TInv'
<1> USE DEF TInv
<1>1. /\ phase = "search" /\ stack = <<>> /\ todo = {} /\ phase' = "done"
      /\ UNCHANGED <<config, todo, stack, visited, treePermissions>>
  BY DEF Finish
<1>2. TreeTypeOK' /\ Phases' /\ RunsDone'
  BY <1>1, SameTree DEF TreeTypeOK, Phases, RunsDone
<1>3. Calls' /\ Entries' /\ Accounted' /\ Explored' /\ OnlyInherited' /\ NoReentry'
  BY <1>1, SameTree DEF Calls, Entries, Accounted, Explored, OnlyInherited, NoReentry
<1>4. QED  BY <1>2, <1>3

(* What holds of the top frame when it has a child left. *)
LEMMA NextChild ==
  ASSUME TInv, stack # <<>>, Top.left # <<>>
  PROVE  /\ phase = "search" /\ Valid
         /\ Len(stack) \in DOMAIN stack /\ Top = stack[Len(stack)] /\ Top.node \in Permissions
         /\ Top.node \in visited /\ Top.left \in Seq(Names)
         /\ Head(Top.left) \in Permissions /\ Head(Top.left) \in Children(Top.node)
<1> USE DEF TInv
<1>1. phase = "search" /\ Valid
  BY DEF Phases, TreeTypeOK
<1>2. /\ Len(stack) \in DOMAIN stack /\ Top = stack[Len(stack)] /\ Top.node \in Permissions
      /\ Top.left \in Seq(Names)
  BY StackFacts
<1>3. Head(Top.left) \in Named(Top.left)
  BY <1>2, ListFacts
<1>4. Top.node \in visited /\ Head(Top.left) \in Children(Top.node)
  BY <1>2, <1>3 DEF Calls
<1>5. QED  BY <1>1, <1>2, <1>4, ChildFacts

LEMMA DescendStep == ASSUME TInv, Descend PROVE TInv'
<1> USE DEF TInv
<1> DEFINE c == Head(Top.left)
           n == Len(stack)
<1>1. /\ stack # <<>> /\ Top.left # <<>> /\ c \notin visited
      /\ stack' = Append(stack, [node |-> c, left |-> ChildList(c)])
      /\ visited' = visited \cup {c} /\ treePermissions' = Entered(c)
      /\ UNCHANGED <<config, phase, todo>>
  BY DEF Descend
<1>2. /\ phase = "search" /\ Valid /\ n \in DOMAIN stack /\ Top = stack[n]
      /\ c \in Permissions /\ n \in Nat /\ DOMAIN stack = 1..n /\ n > 0
  BY <1>1, NextChild, StackFacts
<1>3. ChildList(c) \in Seq(Names) /\ Children(c) = Named(ChildList(c))
  BY ChildFacts
<1>4. [node |-> c, left |-> ChildList(c)] \in Frames
  BY <1>2, <1>3 DEF Frames
<1>5. /\ stack' \in Seq(Frames) /\ stack' # <<>> /\ Len(stack') = n + 1
      /\ DOMAIN stack' = 1..(n + 1)
      /\ stack'[n + 1].node = c /\ stack'[n + 1].left = ChildList(c)
      /\ \A i \in DOMAIN stack : stack'[i] = stack[i]
  BY <1>1, <1>4, Pushed
<1>6. /\ DOMAIN treePermissions' = DOMAIN treePermissions \cup {c}
      /\ \A q \in DOMAIN treePermissions : treePermissions'[q] = treePermissions[q]
      /\ \A q \in DOMAIN treePermissions' : q \in treePermissions'[q]
      /\ \A q \in DOMAIN treePermissions' : treePermissions'[q] \subseteq Permissions
      /\ OnlyInherited'
  BY <1>1, <1>2, EnteredFacts
<1>7. /\ \A i \in DOMAIN stack : stack[i].node \in visited /\ stack[i].node \in DOMAIN treePermissions
      /\ \A i \in DOMAIN stack : stack[i].node # c
  BY <1>1 DEF Calls, Entries
<1> HIDE DEF c, n
<1>8. TreeTypeOK'
  BY <1>1, <1>2, <1>5, <1>6 DEF TreeTypeOK
<1>9. Phases'
  BY <1>1, <1>2, SameTree DEF Phases
<1>10. Calls'
  <2>1. ASSUME NEW i \in DOMAIN stack'
        PROVE  stack'[i].node \in visited' /\ Named(stack'[i].left) \subseteq Children(stack'[i].node)
    <3>1. CASE i \in DOMAIN stack
      BY <1>1, <1>5, <3>1 DEF Calls
    <3>2. CASE i = n + 1
      BY <1>1, <1>3, <1>5, <3>2
    <3>3. QED  BY <1>2, <1>5, <3>1, <3>2
  <2>2. ASSUME NEW i \in DOMAIN stack', i + 1 \in DOMAIN stack'
        PROVE  stack'[i].left # <<>> /\ Head(stack'[i].left) = stack'[i + 1].node
    <3>1. CASE i = n
      BY <1>1, <1>2, <1>5, <3>1 DEF c
    <3>2. CASE i # n
      <4>1. i \in DOMAIN stack /\ i + 1 \in DOMAIN stack
        BY <1>2, <1>5, <2>2, <3>2
      <4>2. QED  BY <1>5, <4>1 DEF Calls
    <3>3. QED  BY <3>1, <3>2
  <2>3. \A p : Children(p)' = Children(p)
    BY <1>1, SameTree
  <2>4. QED  BY <2>1, <2>2, <2>3 DEF Calls
<1>11. Entries'
  BY <1>1, <1>6 DEF Entries
<1>12. Accounted'
  <2> SUFFICES ASSUME NEW v \in visited'
               PROVE  \E i \in DOMAIN stack' : v \in treePermissions'[stack'[i].node]
    BY DEF Accounted
  <2>1. CASE v = c
    <3>1. n + 1 \in DOMAIN stack' /\ v \in treePermissions'[stack'[n + 1].node]
      BY <1>2, <1>5, <1>6, <2>1
    <3>2. QED  BY <3>1
  <2>2. CASE v # c
    <3>1. PICK i \in DOMAIN stack : v \in treePermissions[stack[i].node]
      BY <1>1, <2>2 DEF Accounted, c
    <3>2. i \in DOMAIN stack' /\ v \in treePermissions'[stack'[i].node]
      BY <1>2, <1>5, <1>6, <1>7, <3>1
    <3>3. QED  BY <3>2
  <2>3. QED  BY <2>1, <2>2
<1>13. Explored'
  <2> SUFFICES ASSUME NEW v \in visited', NEW q \in Children(v)
               PROVE  q \in visited' \/ \E i \in DOMAIN stack' : stack'[i].node = v /\ q \in Named(stack'[i].left)
    BY <1>1, SameTree DEF Explored
  <2>1. CASE v = c
    <3>1. n + 1 \in DOMAIN stack' /\ stack'[n + 1].node = v /\ q \in Named(stack'[n + 1].left)
      BY <1>2, <1>3, <1>5, <2>1
    <3>2. QED  BY <3>1
  <2>2. CASE v # c /\ q \notin visited
    <3>1. PICK i \in DOMAIN stack : stack[i].node = v /\ q \in Named(stack[i].left)
      BY <1>1, <2>2 DEF Explored
    <3>2. i \in DOMAIN stack' /\ stack'[i] = stack[i]
      BY <1>2, <1>5
    <3>3. QED  BY <3>1, <3>2
  <2>3. QED  BY <1>1, <2>1, <2>2
<1>14. RunsDone'
  <2> SUFFICES ASSUME NEW q \in DOMAIN config.nodes \ todo
               PROVE  /\ q \in DOMAIN treePermissions'
                      /\ (stack' # <<>> /\ stack'[1].node = q) \/ Inherits(q) \subseteq treePermissions'[q]
    BY <1>1, SameTree DEF RunsDone
  <2>1. stack'[1] = stack[1]
    BY <1>2, <1>5
  <2>2. QED  BY <1>2, <1>5, <1>6, <2>1 DEF RunsDone
<1>15. NoReentry'
  BY <1>2, <1>5, <1>7 DEF NoReentry
<1>16. QED  BY <1>6, <1>8, <1>9, <1>10, <1>11, <1>12, <1>13, <1>14, <1>15

LEMMA MergeStep == ASSUME TInv, Merge PROVE TInv'
<1> USE DEF TInv
<1> DEFINE c == Head(Top.left)
           n == Len(stack)
           top == Top.node
<1>1. /\ stack # <<>> /\ Top.left # <<>> /\ c \in visited
      /\ treePermissions' = [treePermissions EXCEPT ![top] = @ \cup treePermissions[c]]
      /\ stack' = [stack EXCEPT ![Len(stack)].left = Tail(@)]
      /\ UNCHANGED <<config, phase, todo, visited>>
  BY DEF Merge
<1>2. /\ phase = "search" /\ Valid /\ n \in DOMAIN stack /\ Top = stack[n] /\ top \in Permissions
      /\ c \in Permissions /\ c \in Children(top) /\ n \in Nat /\ DOMAIN stack = 1..n /\ n > 0
      /\ top \in visited
  BY <1>1, NextChild, StackFacts
<1>3. /\ stack' \in Seq(Frames) /\ Len(stack') = n /\ stack' # <<>> /\ DOMAIN stack' = DOMAIN stack
      /\ \A i \in DOMAIN stack : stack'[i].node = stack[i].node
      /\ \A i \in DOMAIN stack : i # n => stack'[i] = stack[i]
      /\ stack'[n].left = Tail(stack[n].left)
  BY <1>1, <1>2, Shortened
<1>4. c = Head(stack[n].left) /\ Named(stack[n].left) = {c} \cup Named(Tail(stack[n].left))
  BY <1>1, <1>2, NextChild, ListFacts
<1>5. c \in DOMAIN treePermissions /\ top \in DOMAIN treePermissions
  BY <1>1, <1>2 DEF Entries
<1> HIDE DEF c, n, top
<1>6. /\ DOMAIN treePermissions' = DOMAIN treePermissions
      /\ \A q \in DOMAIN treePermissions : q # top => treePermissions'[q] = treePermissions[q]
      /\ treePermissions'[top] = treePermissions[top] \cup treePermissions[c]
      /\ \A q \in DOMAIN treePermissions : treePermissions[q] \subseteq treePermissions'[q]
  BY <1>1, <1>5
<1>7. TreeTypeOK'
  BY <1>1, <1>3, <1>5, <1>6 DEF TreeTypeOK
<1>8. Phases'
  BY <1>1, <1>2, SameTree DEF Phases
<1>9. Calls'
  <2>1. ASSUME NEW i \in DOMAIN stack'
        PROVE  stack'[i].node \in visited' /\ Named(stack'[i].left) \subseteq Children(stack'[i].node)
    <3>1. i \in DOMAIN stack /\ stack'[i].node = stack[i].node /\ visited' = visited
      BY <1>1, <1>3
    <3>2. Named(stack'[i].left) \subseteq Named(stack[i].left)
      BY <1>3, <1>4, <3>1
    <3>3. stack[i].node \in visited /\ Named(stack[i].left) \subseteq Children(stack[i].node)
      BY <3>1 DEF Calls
    <3>4. QED  BY <3>1, <3>2, <3>3
  <2>2. ASSUME NEW i \in DOMAIN stack', i + 1 \in DOMAIN stack'
        PROVE  stack'[i].left # <<>> /\ Head(stack'[i].left) = stack'[i + 1].node
    BY <1>2, <1>3, <2>2 DEF Calls
  <2>3. \A p : Children(p)' = Children(p)
    BY <1>1, SameTree
  <2>4. QED  BY <2>1, <2>2, <2>3 DEF Calls
<1>10. Entries'
  BY <1>1, <1>6 DEF Entries
<1>11. Accounted'
  <2> SUFFICES ASSUME NEW v \in visited
               PROVE  \E i \in DOMAIN stack' : v \in treePermissions'[stack'[i].node]
    BY <1>1 DEF Accounted
  <2>1. \/ \E i \in DOMAIN stack : v \in treePermissions[stack[i].node]
        \/ v \in treePermissions[c]
    BY <1>1 DEF Accounted, c
  <2>2. ASSUME NEW i \in DOMAIN stack, v \in treePermissions[stack[i].node]
        PROVE  i \in DOMAIN stack' /\ v \in treePermissions'[stack'[i].node]
    BY <1>3, <1>6, <2>2 DEF Calls, Entries
  <2>3. ASSUME v \in treePermissions[c]
        PROVE  n \in DOMAIN stack' /\ v \in treePermissions'[stack'[n].node]
    BY <1>2, <1>3, <1>6, <2>3 DEF top
  <2>4. QED  BY <2>1, <2>2, <2>3
<1>12. Explored'
  <2> SUFFICES ASSUME NEW v \in visited, NEW q \in Children(v), q \notin visited
               PROVE  \E i \in DOMAIN stack' : stack'[i].node = v /\ q \in Named(stack'[i].left)
    BY <1>1, SameTree DEF Explored
  <2>1. PICK i \in DOMAIN stack : stack[i].node = v /\ q \in Named(stack[i].left)
    BY <1>1 DEF Explored
  <2>2. q \in Named(stack'[i].left)
    BY <1>1, <1>3, <1>4, <2>1
  <2>3. QED  BY <1>3, <2>1, <2>2
<1>13. RunsDone'
  BY <1>1, <1>2, <1>3, <1>6, SameTree DEF RunsDone
<1>14. OnlyInherited'
  <2>1. treePermissions[c] \subseteq Inherits(c) /\ Inherits(c) \subseteq Inherits(top)
    BY <1>2, <1>5, Inheritance DEF OnlyInherited, Names
  <2>2. \A q \in DOMAIN treePermissions : treePermissions'[q] \subseteq Inherits(q)
    BY <1>5, <1>6, <2>1 DEF OnlyInherited
  <2>3. QED  BY <1>1, <1>6, <2>2, SameTree DEF OnlyInherited
<1>15. NoReentry'
  BY <1>3 DEF NoReentry
<1>16. QED  BY <1>7, <1>8, <1>9, <1>10, <1>11, <1>12, <1>13, <1>14, <1>15

LEMMA ReturnStep == ASSUME TInv, Return PROVE TInv'
<1> USE DEF TInv
<1> DEFINE n == Len(stack)
<1>1. /\ stack # <<>> /\ Top.left = <<>> /\ stack' = SubSeq(stack, 1, Len(stack) - 1)
      /\ UNCHANGED <<config, phase, todo, visited, treePermissions>>
  BY DEF Return
<1>2. /\ phase = "search" /\ Valid /\ n \in DOMAIN stack /\ Top = stack[n]
      /\ n \in Nat /\ DOMAIN stack = 1..n /\ n > 0
  BY <1>1, StackFacts DEF Phases, TreeTypeOK
<1>3. /\ stack' \in Seq(Frames) /\ Len(stack') = n - 1 /\ DOMAIN stack' = 1..(n - 1)
      /\ \A i \in DOMAIN stack' : stack'[i] = stack[i]
  BY <1>1, Popped
<1>4. stack' # <<>> <=> n > 1
  BY <1>2, <1>3, EmptySeq
<1>5. Named(stack[n].left) = {}
  BY <1>1, <1>2 DEF Named
<1> HIDE DEF n
<1>6. TreeTypeOK'
  BY <1>1, <1>3 DEF TreeTypeOK
<1>7. Phases'
  BY <1>1, <1>2, SameTree DEF Phases
<1>8. Calls'
  <2>1. \A p : Children(p)' = Children(p)
    BY <1>1, SameTree
  <2>2. \A i \in DOMAIN stack' : i \in DOMAIN stack /\ (i + 1 \in DOMAIN stack' => i + 1 \in DOMAIN stack)
    BY <1>2, <1>3
  <2>3. QED  BY <1>1, <1>3, <2>1, <2>2 DEF Calls
<1>9. Entries' /\ OnlyInherited'
  BY <1>1, SameTree DEF Entries, OnlyInherited
<1>10. Accounted'
  <2> SUFFICES ASSUME n > 1, NEW v \in visited
               PROVE  \/ \E i \in DOMAIN stack' : v \in treePermissions[stack'[i].node]
                      \/ Top'.left # <<>> /\ Head(Top'.left) \in visited /\ v \in treePermissions[Head(Top'.left)]
    BY <1>1, <1>4 DEF Accounted
  <2>1. PICK i \in DOMAIN stack : v \in treePermissions[stack[i].node]
    BY <1>1 DEF Accounted
  <2>2. CASE i \in DOMAIN stack'
    BY <1>3, <2>1, <2>2
  <2>3. CASE i = n
    <3>1. n - 1 \in DOMAIN stack /\ (n - 1) + 1 = n /\ Top' = stack[n - 1]
      BY <1>2, <1>3 DEF Top
    <3>2. Top'.left # <<>> /\ Head(Top'.left) = stack[n].node
      BY <1>2, <3>1 DEF Calls
    <3>3. stack[n].node \in visited
      BY <1>2 DEF Calls
    <3>4. QED  BY <2>1, <2>3, <3>2, <3>3
  <2>4. QED  BY <1>2, <1>3, <2>2, <2>3
<1>11. Explored'
  <2> SUFFICES ASSUME NEW v \in visited, NEW q \in Children(v), q \notin visited
               PROVE  \E i \in DOMAIN stack' : stack'[i].node = v /\ q \in Named(stack'[i].left)
    BY <1>1, SameTree DEF Explored
  <2>1. PICK i \in DOMAIN stack : stack[i].node = v /\ q \in Named(stack[i].left)
    BY <1>1 DEF Explored
  <2>2. i \in DOMAIN stack'
    BY <1>2, <1>3, <1>5, <2>1
  <2>3. QED  BY <1>3, <2>1, <2>2
<1>12. RunsDone'
  <2> SUFFICES ASSUME NEW p \in DOMAIN config.nodes \ todo
               PROVE  /\ p \in DOMAIN treePermissions
                      /\ (stack' # <<>> /\ stack'[1].node = p) \/ Inherits(p) \subseteq treePermissions[p]
    BY <1>1, SameTree DEF RunsDone
  <2>1. p \in DOMAIN treePermissions /\ (stack[1].node = p \/ Inherits(p) \subseteq treePermissions[p])
    BY <1>2 DEF RunsDone
  <2>2. CASE n > 1
    BY <1>2, <1>3, <1>4, <2>1, <2>2
  <2>3. CASE n = 1 /\ stack[1].node = p
    <3>1. visited \subseteq treePermissions[p]
      BY <1>1, <1>2, <2>3 DEF Accounted
    <3>2. Closed(visited)
      BY <1>1, <1>2, <1>5, <2>3 DEF Explored, Closed
    <3>3. p \in visited /\ visited \in SUBSET Names /\ p \in Names
      BY <1>2, <2>3 DEF Calls, TreeTypeOK, Names
    <3>4. Inherits(p) \subseteq visited
      BY <3>2, <3>3, Inheritance
    <3>5. QED  BY <2>1, <3>1, <3>4
  <2>4. QED  BY <1>2, <2>1, <2>2, <2>3
<1>13. NoReentry'
  BY <1>2, <1>3 DEF NoReentry
<1>14. QED  BY <1>6, <1>7, <1>8, <1>9, <1>10, <1>11, <1>12, <1>13

(* The inductive invariant of the search. *)
THEOREM TreeInvariant == TreeSpec => []TInv
<1>1. TreeInit => TInv
  <2> SUFFICES ASSUME TreeInit PROVE TInv
    OBVIOUS
  <2>1. TreeTypeOK
    BY TreesAssumption, EmptySeq DEF TreeInit, TreeStart, TreeTypeOK
  <2>2. Phases /\ Calls /\ Entries /\ Accounted /\ Explored /\ RunsDone /\ OnlyInherited /\ NoReentry
    BY DEF TreeInit, TreeStart, Phases, Calls, Entries, Accounted, Explored, RunsDone, OnlyInherited, NoReentry
  <2>3. QED  BY <2>1, <2>2 DEF TInv
<1>2. TInv /\ [TreeNext]_treeVars => TInv'
  <2> SUFFICES ASSUME TInv, [TreeNext]_treeVars PROVE TInv'
    OBVIOUS
  <2>1. CASE UNCHANGED treeVars
    <3>1. UNCHANGED <<config, phase, todo, stack, visited, treePermissions>>
      BY <2>1 DEF treeVars
    <3>2. TreeTypeOK' /\ Phases' /\ Entries' /\ NoReentry' /\ OnlyInherited'
      BY <3>1, SameTree DEF TInv, TreeTypeOK, Phases, Entries, NoReentry, OnlyInherited
    <3>3. Calls'
      BY <3>1, SameTree DEF TInv, Calls
    <3>4. Accounted' /\ Explored' /\ RunsDone'
      BY <3>1, SameTree DEF TInv, Accounted, Explored, RunsDone, Top
    <3>5. QED  BY <3>2, <3>3, <3>4 DEF TInv
  <2>2. QED
    BY <2>1, ValidateStep, RootStep, DescendStep, MergeStep, ReturnStep, FinishStep DEF TreeNext
<1>3. QED  BY <1>1, <1>2, PTL DEF TreeSpec

(* Types, for any permissions and trees (depthFirstSearch). *)
THEOREM TreeTyping == TreeSpec => []TreeTypeOK
<1>1. TInv => TreeTypeOK
  BY DEF TInv
<1>2. QED  BY <1>1, TreeInvariant, PTL

(* No call of dfs is inside another one for the same permission, in any    *)
(* tree, with cycles or without (depthFirstSearch).                        *)
THEOREM Reentry == TreeSpec => []NoReentry
<1>1. TInv => NoReentry
  BY DEF TInv
<1>2. QED  BY <1>1, TreeInvariant, PTL

(* No permission ever stands for one that it does not inherit.             *)
THEOREM Sound == TreeSpec => []OnlyInherited
<1>1. TInv => OnlyInherited
  BY DEF TInv
<1>2. QED  BY <1>1, TreeInvariant, PTL

(* The search done, every permission stands for all that it inherits,      *)
(* whatever the tree and the order of its keys (depthFirstSearch).         *)
THEOREM Complete == TreeSpec => []AllInherited
<1>1. ASSUME TInv, phase = "done" PROVE DOMAIN config.nodes \subseteq DOMAIN treePermissions
  BY <1>1 DEF TInv, Phases, RunsDone
<1>2. ASSUME TInv, phase = "done", NEW p \in DOMAIN treePermissions
      PROVE  Inherits(p) \subseteq treePermissions[p]
  <2>1. CASE p \in DOMAIN config.nodes
    BY <1>2, <2>1 DEF TInv, Phases, RunsDone
  <2>2. CASE p \notin DOMAIN config.nodes
    <3>1. Children(p) = {}
      BY <2>2 DEF Children, ChildList, Named
    <3>2. Closed({p}) /\ p \in Names /\ {p} \in SUBSET Names
      BY <1>2, <3>1 DEF Closed, TInv, TreeTypeOK, Names
    <3>3. Inherits(p) \subseteq {p}
      BY <3>2, Inheritance
    <3>4. QED  BY <1>2, <3>3 DEF TInv, Entries
  <2>3. QED  BY <2>1, <2>2
<1>3. TInv => AllInherited
  BY <1>1, <1>2 DEF AllInherited
<1>4. QED  BY <1>3, TreeInvariant, PTL

(* No wildcard is hidden by a result, in any tree: a valid one has no      *)
(* inherited wildcard for the search to reach (validateInheritanceTree).   *)
THEOREM WildcardsSafe == TreeSpec => []WildcardsKept
<1>1. TreeInit => WildcardsKept
  BY DEF TreeInit, TreeStart, WildcardsKept
<1>2. TInv /\ WildcardsKept /\ [TreeNext]_treeVars => WildcardsKept'
  <2> SUFFICES ASSUME TInv, WildcardsKept, [TreeNext]_treeVars PROVE WildcardsKept'
    OBVIOUS
  <2>1. ASSUME NEW p \in Permissions \ config.wild, treePermissions' = Entered(p), config' = config
        PROVE  WildcardsKept'
    <3>1. DOMAIN treePermissions' = DOMAIN treePermissions \cup {p}
      BY <2>1, EnteredFacts DEF TInv
    <3>2. p # Star
      BY <2>1, TreesAssumption
    <3>3. QED  BY <2>1, <3>1, <3>2 DEF WildcardsKept
  <2>2. CASE Root
    <3>1. PICK p \in todo : treePermissions' = Entered(p) /\ config' = config
      BY <2>2 DEF Root
    <3>2. p \in Permissions \ config.wild
      BY <3>1 DEF TInv, TreeTypeOK, IsTree
    <3>3. QED  BY <2>1, <3>1, <3>2
  <2>3. CASE Descend
    <3>1. /\ stack # <<>> /\ Top.left # <<>>
          /\ treePermissions' = Entered(Head(Top.left)) /\ config' = config
      BY <2>3 DEF Descend
    <3>2. Head(Top.left) \in Permissions /\ Head(Top.left) \in Children(Top.node) /\ Valid
      BY <3>1, NextChild
    <3>3. Head(Top.left) \notin config.wild
      <4>1. Top.node \in DOMAIN config.nodes
        BY <3>2 DEF Children, ChildList, Named
      <4>2. QED  BY <3>2, <4>1 DEF Children, ChildList, Valid
    <3>4. QED  BY <2>1, <3>1, <3>2, <3>3
  <2>4. CASE Merge
    <3>1. DOMAIN treePermissions' = DOMAIN treePermissions /\ config' = config
      BY <2>4 DEF Merge
    <3>2. QED  BY <3>1 DEF WildcardsKept
  <2>5. CASE Validate \/ Return \/ Finish \/ UNCHANGED treeVars
    BY <2>5 DEF Validate, Return, Finish, treeVars, WildcardsKept
  <2>6. QED  BY <2>2, <2>3, <2>4, <2>5 DEF TreeNext
<1>3. QED  BY <1>1, <1>2, TreeInvariant, PTL DEF TreeSpec

(* The search finds exactly what each permission inherits. *)
THEOREM ResultIsExact == TreeSpec => []ResultIsInherited
BY Sound, Complete, PTL DEF ResultIsInherited
-----------------------------------------------------------------------------
(***************************************************************************)
(* The verdict of the group auth plugin.                                   *)
(***************************************************************************)

(* A verdict is of a user's groups on a route, after the search. *)
GInv == /\ groups \subseteq Groups /\ route \in Routes
        /\ verdict # "none" => phase = "done"
        /\ ReportIsExact

(* The permissions found for a requirement are those that the report       *)
(* allows, when each entry of the tree has its own key in it.              *)
LEMMA PermissionIsAllowed ==
  ASSUME NEW permissions, NEW permission, NEW tree, NEW wild,
         \A p \in DOMAIN tree : p \in tree[p]
  PROVE  HasPermission(permissions, permission, tree, wild)
           <=> \E p \in permissions : Allows(p, permission, tree, wild)
BY DEF HasPermission, Allows

(* hasAppPermission lets pass whom the report of an app asks for. *)
LEMMA AppReport ==
  ASSUME NEW alt, NEW url, NEW G \in SUBSET Groups, Entries,
         InAppBranch(alt, url), Reports(alt, url)
  PROVE  AppGrants(alt, AppConstraint(alt, url), OrgConstraint(url), G) # {} <=> Satisfies(alt, url, G)
<1> DEFINE app == AppConstraint(alt, url)
           org == OrgConstraint(url)
           wide == AppPermissions(G, AppKind(alt), app, Unset)
           may == alt.requireAdmin \notin {"yes", "APP_ADMINS_ONLY"}
           InOrgs == {x \in AppOrgs(G, app) :
                        /\ org \in {Unset, x} /\ HasOrgAccess(G, x)
                        /\ HasPermission(AppPermissions(G, "applications", app, x),
                                         alt.permission, AppTree, AppWild)}
<1>1. \A P : HasPermission(P, alt.permission, AppTree, AppWild)
               <=> \E p \in P : Allows(p, alt.permission, AppTree, AppWild)
  BY PermissionIsAllowed DEF Entries, AppTree
<1>2. G \cap (AppWide(alt, url) \cup OrgOnly(alt, url)) # {}
        <=> \/ IsAllAppAdmin(G) \/ AppAdmin \in wide
            \/ may /\ HasPermission(wide, alt.permission, AppTree, AppWild)
  <2>1. OrgOnly(alt, url) = {}
    BY DEF OrgOnly
  <2>2. \A g : g \in G \cap AppWide(alt, url) <=>
          /\ g \in G
          /\ \/ g.kind = "all app admin"
             \/ /\ g.kind = AppKind(alt) /\ g.app = app /\ g.org = Unset
                /\ \/ g.permission = AppAdmin
                   \/ may /\ Allows(g.permission, alt.permission, AppTree, AppWild)
    BY DEF AppWide
  <2>3. \A p : p \in wide <=> \E g \in G : /\ g.kind = AppKind(alt) /\ g.app = app /\ g.org = Unset
                                           /\ p = g.permission
    BY DEF AppPermissions
  <2>4. IsAllAppAdmin(G) <=> \E g \in G : g.kind = "all app admin"
    BY DEF IsAllAppAdmin, Has
  <2>5. G \cap (AppWide(alt, url) \cup OrgOnly(alt, url)) # {} <=> \E g : g \in G \cap AppWide(alt, url)
    BY <2>1
  <2> HIDE DEF wide, app, may
  <2>6. AppAdmin \in wide <=> \E g \in G : /\ g.kind = AppKind(alt) /\ g.app = app /\ g.org = Unset
                                         /\ g.permission = AppAdmin
    BY <2>3
  <2>7. (\E p \in wide : Allows(p, alt.permission, AppTree, AppWild))
          <=> \E g \in G : /\ g.kind = AppKind(alt) /\ g.app = app /\ g.org = Unset
                          /\ Allows(g.permission, alt.permission, AppTree, AppWild)
    BY <2>3
  <2>8. HasPermission(wide, alt.permission, AppTree, AppWild)
          <=> \E p \in wide : Allows(p, alt.permission, AppTree, AppWild)
    BY <1>1
  <2>9. QED  BY <2>2, <2>4, <2>5, <2>6, <2>7, <2>8
<1>3. (\E g \in G \cap AppInOrg(alt, url) :
         \E h \in G : h.kind = "all org admin" \/ (h.kind = "organizations" /\ h.org = g.org))
        <=> may /\ ~alt.appIsStandalone /\ InOrgs # {}
  <2>1. \A g : g \in G \cap AppInOrg(alt, url) <=>
          /\ g \in G /\ ~alt.appIsStandalone /\ may
          /\ g.kind = "applications" /\ g.app = app /\ g.org # Unset /\ org \in {Unset, g.org}
          /\ Allows(g.permission, alt.permission, AppTree, AppWild)
    BY DEF AppInOrg
  <2>2. \A x : x \in InOrgs <=>
          /\ x # Unset /\ org \in {Unset, x} /\ HasOrgAccess(G, x)
          /\ \E g \in G : /\ g.kind = "applications" /\ g.app = app /\ g.org = x
                          /\ Allows(g.permission, alt.permission, AppTree, AppWild)
    BY <1>1 DEF AppOrgs, AppPermissions
  <2>3. \A x : HasOrgAccess(G, x) <=>
          \E h \in G : h.kind = "all org admin" \/ (h.kind = "organizations" /\ h.org = x)
    BY DEF HasOrgAccess, IsAllOrgAdmin, Has, OrgPermissions
  <2> HIDE DEF InOrgs, org, app, may
  <2>4. InOrgs # {} <=> \E x : x \in InOrgs
    OBVIOUS
  <2>5. ASSUME NEW g \in G \cap AppInOrg(alt, url),
               \E h \in G : h.kind = "all org admin" \/ (h.kind = "organizations" /\ h.org = g.org)
        PROVE  may /\ ~alt.appIsStandalone /\ g.org \in InOrgs
    BY <2>1, <2>2, <2>3, <2>5
  <2>6. ASSUME may, ~alt.appIsStandalone, NEW x \in InOrgs
        PROVE  \E g \in G \cap AppInOrg(alt, url) :
                 \E h \in G : h.kind = "all org admin" \/ (h.kind = "organizations" /\ h.org = g.org)
    <3>1. PICK g \in G : /\ g.kind = "applications" /\ g.app = app /\ g.org = x
                         /\ Allows(g.permission, alt.permission, AppTree, AppWild)
      BY <2>2, <2>6
    <3>2. g \in G \cap AppInOrg(alt, url)
      BY <2>1, <2>2, <2>6, <3>1
    <3>3. \E h \in G : h.kind = "all org admin" \/ (h.kind = "organizations" /\ h.org = x)
      BY <2>2, <2>3, <2>6
    <3>4. QED  BY <3>1, <3>2, <3>3
  <2>7. QED  BY <2>4, <2>5, <2>6
<1>4. AppGrants(alt, app, org, G) # {}
        <=> \/ IsAllAppAdmin(G) \/ AppAdmin \in wide
            \/ may /\ \/ HasPermission(wide, alt.permission, AppTree, AppWild)
                      \/ ~alt.appIsStandalone /\ InOrgs # {}
  BY DEF AppGrants
<1>5. QED
  <2> HIDE DEF InOrgs, org, app, may, wide
  <2>1. QED  BY <1>2, <1>3, <1>4 DEF Satisfies, app, org

(* An alternative lets pass whom its report asks for, and who is a system  *)
(* admin; for app admins, of no app, it asks for one of either kind.       *)
LEMMA ReportOfAlternative ==
  ASSUME NEW alt, NEW url, NEW G \in SUBSET Groups, Entries, alt.requireAdmin \in RequireAdmin
  PROVE  /\ Grants(alt, url, G) # {} =>
              \/ IsSystemAdmin(G) \/ Satisfies(alt, url, G)
              \/ alt.requireAdmin = "APP_ADMINS_ONLY" /\ AppConstraint(alt, url) = Unset
         /\ Satisfies(alt, url, G) => Grants(alt, url, G) # {}
<1> DEFINE app == AppConstraint(alt, url)
           org == OrgConstraint(url)
           asks == alt.requireAdmin
<1>1. CASE IsSystemAdmin(G)
  BY <1>1 DEF Grants
<1>2. CASE ~IsSystemAdmin(G) /\ ~Reports(alt, url)
  BY <1>2 DEF Grants, Reports, Satisfies
<1>3. CASE ~IsSystemAdmin(G) /\ Reports(alt, url) /\ InAppBranch(alt, url)
  <2>1. Grants(alt, url, G) = AppGrants(alt, app, org, G)
    BY <1>3 DEF Grants, Reports, InAppBranch
  <2>2. QED  BY <1>3, <2>1, AppReport
<1>4. CASE ~IsSystemAdmin(G) /\ Reports(alt, url) /\ ~InAppBranch(alt, url)
  <2>1. /\ Grants(alt, url, G) =
             IF asks = "ALL_APP_ADMIN_ONLY" THEN When(IsAllAppAdmin(G), [appId |-> app, orgId |-> org])
             ELSE IF asks = "APP_ADMINS_ONLY" THEN When(IsAppAdmin(G), [appId |-> Unset, orgId |-> org])
             ELSE IF org # Unset THEN OrgGrants(alt, org, G)
             ELSE IF asks = "ALL_ORG_ADMIN_ONLY" THEN When(IsAllOrgAdmin(G), Nobody)
             ELSE When(asks = "ORG_ADMINS_ONLY" /\ IsOrgAdmin(G), Nobody)
        /\ asks # "SYSTEM_ADMIN"
    BY <1>4 DEF Grants, Reports, InAppBranch
  <2>2. AppInOrg(alt, url) = {}
    BY <1>4 DEF AppInOrg
  <2>3. Satisfies(alt, url, G) <=> \E g \in G : g \in AppWide(alt, url) \/ g \in OrgOnly(alt, url)
    BY <1>4, <2>2 DEF Satisfies
  <2>4. \A g \in G : g \in AppWide(alt, url) <=>
          \/ g.kind = "all app admin" /\ asks \in {"ALL_APP_ADMIN_ONLY", "APP_ADMINS_ONLY"}
          \/ /\ asks = "APP_ADMINS_ONLY" /\ g.kind = AppKind(alt)
             /\ g.org = Unset /\ g.permission = AppAdmin
    BY <1>4 DEF AppWide
  <2>5. \A g \in G : g \in OrgOnly(alt, url) <=>
          /\ asks \notin {"ALL_APP_ADMIN_ONLY", "APP_ADMINS_ONLY"}
          /\ \/ g.kind = "all org admin"
             \/ /\ g.kind = "organizations" /\ org \in {Unset, g.org}
                /\ \/ g.permission = OrgAdmin /\ (org # Unset \/ asks = "ORG_ADMINS_ONLY")
                   \/ /\ org # Unset /\ asks \notin {"yes", "ORG_ADMINS_ONLY"}
                      /\ Allows(g.permission, alt.permission, OrgTree, OrgWild)
    BY <1>4 DEF OrgOnly
  <2>6. CASE asks \in {"ALL_APP_ADMIN_ONLY", "APP_ADMINS_ONLY"}
    <3>1. IsAppAdmin(G) <=> \/ IsAllAppAdmin(G)
                            \/ \E g \in G : /\ g.kind \in {"applications", "standalone"}
                                            /\ g.org = Unset /\ g.permission = AppAdmin
      BY DEF IsAppAdmin
    <3>2. asks = "APP_ADMINS_ONLY" => app = Unset
      BY <1>4 DEF InAppBranch
    <3>3. AppKind(alt) \in {"applications", "standalone"}
      BY DEF AppKind
    <3>4. Satisfies(alt, url, G) => Grants(alt, url, G) # {}
      BY <2>1, <2>3, <2>4, <2>5, <2>6, <3>1, <3>3 DEF When, IsAllAppAdmin, Has
    <3>5. asks = "ALL_APP_ADMIN_ONLY" /\ Grants(alt, url, G) # {} => Satisfies(alt, url, G)
      BY <2>1, <2>3, <2>4, <2>6 DEF When, IsAllAppAdmin, Has
    <3>6. QED  BY <2>6, <3>2, <3>4, <3>5
  <2>7. CASE asks \notin {"ALL_APP_ADMIN_ONLY", "APP_ADMINS_ONLY"} /\ org # Unset
    <3>1. \A P : HasPermission(P, alt.permission, OrgTree, OrgWild)
                   <=> \E p \in P : Allows(p, alt.permission, OrgTree, OrgWild)
      BY PermissionIsAllowed, GroupsAssumption
    <3>2. \A p : p \in OrgPermissions(G, org)
                   <=> \E g \in G : g.kind = "organizations" /\ g.org = org /\ p = g.permission
      BY DEF OrgPermissions
    <3>3. OrgGrants(alt, org, G) # {}
            <=> \/ IsAllOrgAdmin(G) \/ OrgAdmin \in OrgPermissions(G, org)
                \/ /\ asks \notin {"yes", "ORG_ADMINS_ONLY"}
                   /\ HasPermission(OrgPermissions(G, org), alt.permission, OrgTree, OrgWild)
      BY DEF OrgGrants
    <3>4. Grants(alt, url, G) = OrgGrants(alt, org, G)
      BY <2>1, <2>7
    <3> HIDE DEF org, asks
    <3>8. IsAllOrgAdmin(G) <=> \E g \in G : g.kind = "all org admin"
      BY DEF IsAllOrgAdmin, Has
    <3>9. OrgAdmin \in OrgPermissions(G, org)
            <=> \E g \in G : g.kind = "organizations" /\ g.org = org /\ g.permission = OrgAdmin
      BY <3>2
    <3>10. HasPermission(OrgPermissions(G, org), alt.permission, OrgTree, OrgWild)
             <=> \E g \in G : /\ g.kind = "organizations" /\ g.org = org
                             /\ Allows(g.permission, alt.permission, OrgTree, OrgWild)
      BY <3>1, <3>2
    <3>5. OrgGrants(alt, org, G) # {} <=> \E g \in G : g \in OrgOnly(alt, url)
      BY <2>5, <2>7, <3>3, <3>8, <3>9, <3>10
    <3>6. \A g \in G : g \notin AppWide(alt, url)
      BY <2>4, <2>7
    <3>7. QED  BY <2>3, <3>4, <3>5, <3>6
  <2>8. CASE asks \notin {"ALL_APP_ADMIN_ONLY", "APP_ADMINS_ONLY"} /\ org = Unset
    <3>1. asks \in {"ALL_ORG_ADMIN_ONLY", "ORG_ADMINS_ONLY"}
      BY <1>4, <2>1, <2>8 DEF Reports, InAppBranch, RequireAdmin
    <3>2. Grants(alt, url, G) = IF asks = "ALL_ORG_ADMIN_ONLY" THEN When(IsAllOrgAdmin(G), Nobody)
                                ELSE When(IsOrgAdmin(G), Nobody)
      BY <2>1, <2>8, <3>1 DEF When
    <3> HIDE DEF org, asks
    <3>3. QED
      BY <2>3, <2>4, <2>5, <2>8, <3>1, <3>2 DEF When, IsOrgAdmin, IsAllOrgAdmin, Has
  <2>9. QED  BY <2>6, <2>7, <2>8
<1>5. QED  BY <1>1, <1>2, <1>3, <1>4

(* The verdict that isAuthorized gives is the one of the reports. *)
LEMMA VerdictIsReported ==
  ASSUME groups \subseteq Groups, route \in Routes, Entries, IsAuthorized, UNCHANGED treeVars
  PROVE  ReportIsExact'
<1>1. groups' = groups /\ route' = route
  BY DEF IsAuthorized
<1> DEFINE Asked(i) == Satisfies(route.alternatives[i], route.url, groups)
           AnyAppAdmin(i) == /\ route.alternatives[i].requireAdmin = "APP_ADMINS_ONLY"
                             /\ AppConstraint(route.alternatives[i], route.url) = Unset
<1>0. /\ OnlyReported' <=> (verdict' = "authorized" => \E i \in DOMAIN route.alternatives :
                              IsSystemAdmin(groups) \/ Asked(i) \/ AnyAppAdmin(i))
      /\ ReportedSuffice' <=> (verdict' = "refused" => \A i \in DOMAIN route.alternatives : ~Asked(i))
  BY <1>1 DEF OnlyReported, ReportedSuffice, Satisfies, Reports, AppWide, AppInOrg, OrgOnly, InAppBranch,
              Allows, AppTree, AppWild, treeVars, AppConstraint, OrgConstraint, AppKind, IsSystemAdmin, Has
<1> HIDE DEF Asked, AnyAppAdmin
<1>2. \A i \in DOMAIN route.alternatives : route.alternatives[i].requireAdmin \in RequireAdmin
  BY GroupsAssumption
<1>3. ASSUME verdict' = "authorized" PROVE OnlyReported'
  <2>1. PICK i \in Passing : TRUE
    BY <1>3 DEF IsAuthorized
  <2>2. /\ i \in DOMAIN route.alternatives
        /\ Grants(route.alternatives[i], route.url, groups) # {}
    BY <2>1 DEF Passing
  <2>3. \/ IsSystemAdmin(groups) \/ Satisfies(route.alternatives[i], route.url, groups)
        \/ /\ route.alternatives[i].requireAdmin = "APP_ADMINS_ONLY"
           /\ AppConstraint(route.alternatives[i], route.url) = Unset
    BY <1>2, <2>2, ReportOfAlternative
  <2>4. QED  BY <1>0, <2>2, <2>3 DEF Asked, AnyAppAdmin
<1>4. ASSUME verdict' = "refused" PROVE ReportedSuffice'
  <2>1. Passing = {}
    BY <1>4 DEF IsAuthorized
  <2>2. \A i \in DOMAIN route.alternatives : ~Satisfies(route.alternatives[i], route.url, groups)
    BY <1>2, <2>1, ReportOfAlternative DEF Passing
  <2>3. QED  BY <1>0, <2>2 DEF Asked
<1>5. QED  BY <1>3, <1>4 DEF ReportIsExact, OnlyReported, ReportedSuffice

LEMMA GroupsStep ==
  ASSUME GInv, TInv, [GroupNext]_groupVars
  PROVE  GInv'
<1>1. CASE UNCHANGED <<groups, route, verdict, data>> /\ verdict = "none"
  BY <1>1 DEF GInv, ReportIsExact, OnlyReported, ReportedSuffice
<1>2. ASSUME phase = "done", IsAuthorized, UNCHANGED treeVars PROVE GInv'
  <2>1. ReportIsExact'
    BY <1>2, VerdictIsReported DEF GInv, TInv
  <2>2. QED  BY <1>2, <2>1 DEF GInv, IsAuthorized, treeVars
<1>3. ASSUME NEW g \in Groups, Join(g) PROVE GInv'
  BY <1>3 DEF GInv, Join, ReportIsExact, OnlyReported, ReportedSuffice
<1>4. ASSUME TreeNext, UNCHANGED requestVars PROVE GInv'
  <2>1. phase # "done"
    <3>1. phase # "search" => stack = <<>>
      BY DEF TInv, Phases
    <3>2. QED  BY <1>4, <3>1 DEF TreeNext, Validate, Root, Descend, Merge, Return, Finish
  <2>2. QED  BY <1>1, <1>4, <2>1 DEF GInv, requestVars
<1>5. CASE UNCHANGED groupVars
  <2>1. CASE verdict = "none"
    BY <1>1, <1>5, <2>1 DEF groupVars, requestVars
  <2>2. UNCHANGED <<groups, route, verdict, data, config, phase, treePermissions>>
    BY <1>5 DEF groupVars, requestVars, treeVars
  <2>3. OnlyReported' = OnlyReported /\ ReportedSuffice' = ReportedSuffice
    BY <2>2 DEF OnlyReported, ReportedSuffice, Satisfies, Reports, AppWide, AppInOrg, OrgOnly, InAppBranch,
                Allows, AppTree, AppWild, AppConstraint, OrgConstraint, AppKind, IsSystemAdmin, Has
  <2>4. QED  BY <2>2, <2>3 DEF GInv, ReportIsExact
<1>6. QED  BY <1>2, <1>3, <1>4, <1>5 DEF GroupNext, Request

(* The search goes on under the requests as it does alone: the plugin with *)
(* its requests implements the search.                                     *)
LEMMA GroupsSearch == GroupSpec => TreeSpec
<1>1. GroupInit => TreeInit
  BY DEF GroupInit, GroupStart, TreeInit
<1>2. [GroupNext]_groupVars => [TreeNext]_treeVars
  BY DEF GroupNext, Request, groupVars
<1>3. QED  BY <1>1, <1>2, PTL DEF GroupSpec, TreeSpec

(* The decision on a request agrees with the report of its route: nobody   *)
(* passes without the groups that an alternative asks for, nobody who has  *)
(* them is refused, for any groups, routes and trees (isAuthorizedGroup,   *)
(* matchingGroups).                                                        *)
THEOREM ReportSafe == GroupSpec => []ReportIsExact
<1>1. GroupInit => GInv
  BY DEF GroupInit, GroupStart, GInv, ReportIsExact, OnlyReported, ReportedSuffice
<1>2. GInv /\ TInv /\ [GroupNext]_groupVars => GInv'
  BY GroupsStep
<1>3. GInv => ReportIsExact
  BY DEF GInv
<1>4. QED  BY <1>1, <1>2, <1>3, GroupsSearch, TreeInvariant, PTL DEF GroupSpec

(* What an alternative reports of a user that it lets pass: the            *)
(* constraints, or an organization that the user has access to.            *)
Validated(alt, url, G, d) ==
  /\ OrgConstraint(url) # Unset => d.orgId \in {Unset, OrgConstraint(url)}
  /\ d.appId # Unset => d.appId = AppConstraint(alt, url)
  /\ d.orgId \notin {Unset, OrgConstraint(url)} => HasOrgAccess(G, d.orgId)

LEMMA GrantIsValidated ==
  ASSUME NEW alt, NEW url, NEW G, NEW d \in Grants(alt, url, G)
  PROVE  /\ Validated(alt, url, G, d)
         /\ d.appId \in {Unset, AppConstraint(alt, url)}
         /\ d.orgId \in {Unset, OrgConstraint(url)} \cup {g.org : g \in G}
<1>1. PICK app, org : app = AppConstraint(alt, url) /\ org = OrgConstraint(url)
  OBVIOUS
<1>2. ASSUME d \in AppGrants(alt, app, org, G)
      PROVE  \/ d = [appId |-> app, orgId |-> org]
             \/ \E g \in G : /\ d = [appId |-> app, orgId |-> g.org] /\ org \in {Unset, g.org}
                             /\ HasOrgAccess(G, g.org)
  BY <1>2 DEF AppGrants, AppOrgs
<1>3. \A P : (d \in When(P, [appId |-> app, orgId |-> org]) => d = [appId |-> app, orgId |-> org])
             /\ (d \in When(P, [appId |-> Unset, orgId |-> org]) => d = [appId |-> Unset, orgId |-> org])
             /\ (d \in When(P, Nobody) => d = Nobody)
  BY DEF When
<1>4. d \in OrgGrants(alt, org, G) => d = [appId |-> Unset, orgId |-> org]
  BY DEF OrgGrants
<1>5. \/ d = [appId |-> app, orgId |-> org] \/ d = [appId |-> Unset, orgId |-> org] \/ d = Nobody
      \/ \E g \in G : /\ d = [appId |-> app, orgId |-> g.org] /\ org \in {Unset, g.org}
                      /\ HasOrgAccess(G, g.org)
  BY <1>1, <1>2, <1>3, <1>4 DEF Grants
<1>6. CASE d = [appId |-> app, orgId |-> org] \/ d = [appId |-> Unset, orgId |-> org]
  <2>1. d.orgId = org /\ d.appId \in {app, Unset}
    BY <1>6
  <2>2. QED  BY <1>1, <2>1 DEF Validated
<1>7. CASE d = Nobody
  BY <1>1, <1>7 DEF Validated, Nobody
<1>8. ASSUME NEW g \in G, d = [appId |-> app, orgId |-> g.org], org \in {Unset, g.org}, HasOrgAccess(G, g.org)
      PROVE  /\ Validated(alt, url, G, d) /\ d.appId \in {Unset, app}
             /\ d.orgId \in {Unset, org} \cup {h.org : h \in G}
  <2>1. d.appId = app /\ d.orgId = g.org
    BY <1>8
  <2>2. QED  BY <1>1, <1>8, <2>1 DEF Validated
<1>9. QED  BY <1>1, <1>5, <1>6, <1>7, <1>8

(* What is reported to the route was checked: an app or an organization    *)
(* that the URL names is the one reported, and one that was found by       *)
(* itself is the user's (hasAppPermission).                                *)
THEOREM DataSafe == GroupSpec => []DataIsValidated
<1>1. GroupInit => DataIsValidated
  BY DEF GroupInit, GroupStart, DataIsValidated
<1>2. ASSUME DataIsValidated, [GroupNext]_groupVars  PROVE DataIsValidated'
  <2>1. CASE IsAuthorized
    <3>1. groups' = groups /\ route' = route
      BY <2>1 DEF IsAuthorized
    <3>2. ASSUME verdict' = "authorized"
          PROVE  \E i \in DOMAIN route.alternatives : Validated(route.alternatives[i], route.url, groups, data')
      <4>1. PICK i \in Passing : data' \in Grants(route.alternatives[i], route.url, groups)
        BY <2>1, <3>2 DEF IsAuthorized
      <4>2. QED  BY <4>1, GrantIsValidated DEF Passing
    <3>3. QED  BY <3>1, <3>2 DEF DataIsValidated, Validated
  <2>2. CASE \E g \in Groups : Join(g)
    BY <2>2 DEF Join, DataIsValidated
  <2>3. CASE UNCHANGED requestVars
    BY <1>2, <2>3 DEF requestVars, DataIsValidated
  <2>4. QED  BY <1>2, <2>1, <2>2, <2>3 DEF GroupNext, Request, groupVars
<1>3. QED  BY <1>1, <1>2, PTL DEF GroupSpec

(* Every variable has its type: a param without a value is never reported. *)
THEOREM GroupTyping == GroupSpec => []GroupTypeOK
<1>1. GroupInit => GroupTypeOK
  BY DEF GroupInit, GroupStart, GroupTypeOK, Nobody, Unset
<1>2. ASSUME GroupTypeOK, [GroupNext]_groupVars  PROVE GroupTypeOK'
  <2>1. CASE IsAuthorized
    <3>1. /\ groups' = groups /\ route' = route /\ verdict' \in {"none", "authorized", "refused", "error"}
          /\ data' = Nobody \/ \E i \in Passing : data' \in Grants(route.alternatives[i], route.url, groups)
      BY <2>1 DEF IsAuthorized
    <3>2. ASSUME NEW i \in Passing, data' \in Grants(route.alternatives[i], route.url, groups)
          PROVE  data'.appId # "undefined" /\ data'.orgId # "undefined"
      <4>1. /\ AppConstraint(route.alternatives[i], route.url) # "undefined"
            /\ OrgConstraint(route.url) # "undefined" /\ Unset # "undefined"
            /\ \A g \in groups : g.org # "undefined"
        BY <1>2, GroupsAssumption DEF AppConstraint, OrgConstraint, Unset, GroupTypeOK
      <4>2. QED  BY <3>2, <4>1, GrantIsValidated
    <3>3. data' = Nobody => data'.appId # "undefined" /\ data'.orgId # "undefined"
      BY DEF Nobody, Unset
    <3>4. QED  BY <1>2, <3>1, <3>2, <3>3 DEF GroupTypeOK
  <2>2. CASE \E g \in Groups : Join(g)
    BY <1>2, <2>2 DEF Join, GroupTypeOK, Nobody, Unset
  <2>3. CASE UNCHANGED requestVars
    BY <1>2, <2>3 DEF requestVars, GroupTypeOK
  <2>4. QED  BY <1>2, <2>1, <2>2, <2>3 DEF GroupNext, Request, groupVars
<1>3. QED  BY <1>1, <1>2, PTL DEF GroupSpec

(* More groups grant at least as much: each condition asks for a group.    *)
LEMMA GrantsGrow ==
  ASSUME NEW alt, NEW url, NEW G, NEW H, G \subseteq H, Grants(alt, url, G) # {}
  PROVE  Grants(alt, url, H) # {}
<1>1. PICK app, org, asks : app = AppConstraint(alt, url) /\ org = OrgConstraint(url) /\ asks = alt.requireAdmin
  OBVIOUS
<1>2. /\ IsSystemAdmin(G) => IsSystemAdmin(H)
      /\ IsAllAppAdmin(G) => IsAllAppAdmin(H)
      /\ IsAllOrgAdmin(G) => IsAllOrgAdmin(H)
  BY DEF IsSystemAdmin, IsAllAppAdmin, IsAllOrgAdmin, Has
<1>3. (IsAppAdmin(G) => IsAppAdmin(H)) /\ (IsOrgAdmin(G) => IsOrgAdmin(H))
  BY <1>2 DEF IsAppAdmin, IsOrgAdmin
<1>4. /\ \A kind, a, o : AppPermissions(G, kind, a, o) \subseteq AppPermissions(H, kind, a, o)
      /\ \A o : OrgPermissions(G, o) \subseteq OrgPermissions(H, o)
      /\ \A a : AppOrgs(G, a) \subseteq AppOrgs(H, a)
  BY DEF AppPermissions, OrgPermissions, AppOrgs
<1>5. \A P, Q, p, tree, wild : P \subseteq Q /\ HasPermission(P, p, tree, wild) => HasPermission(Q, p, tree, wild)
  BY DEF HasPermission
<1>6. \A o : HasOrgAccess(G, o) => HasOrgAccess(H, o)
  BY <1>2, <1>4 DEF HasOrgAccess
<1>7. AppGrants(alt, app, org, G) # {} => AppGrants(alt, app, org, H) # {}
  <2> DEFINE wide(X) == AppPermissions(X, AppKind(alt), app, Unset)
             InOrg(X, o) == /\ o \in AppOrgs(X, app) /\ org \in {Unset, o} /\ HasOrgAccess(X, o)
                            /\ HasPermission(AppPermissions(X, "applications", app, o), alt.permission, AppTree, AppWild)
             Passes(X) == \/ IsAllAppAdmin(X) \/ AppAdmin \in wide(X)
                          \/ /\ alt.requireAdmin \notin {"yes", "APP_ADMINS_ONLY"}
                             /\ \/ HasPermission(wide(X), alt.permission, AppTree, AppWild)
                                \/ ~alt.appIsStandalone /\ \E o : InOrg(X, o)
  <2>1. ASSUME NEW X  PROVE AppGrants(alt, app, org, X) # {} <=> Passes(X)
    BY DEF AppGrants
  <2>2. wide(G) \subseteq wide(H)
    BY <1>4
  <2>3. \A o : InOrg(G, o) => InOrg(H, o)
    BY <1>4, <1>5, <1>6
  <2> HIDE DEF wide, InOrg
  <2>4. Passes(G) => Passes(H)
    BY <1>2, <1>5, <2>2, <2>3
  <2> HIDE DEF Passes
  <2>5. QED  BY <2>1, <2>4
<1>8. OrgGrants(alt, org, G) # {} => OrgGrants(alt, org, H) # {}
  BY <1>2, <1>4, <1>5 DEF OrgGrants
<1>9. QED  BY <1>1, <1>2, <1>3, <1>7, <1>8 DEF Grants, When

(* One more group takes no access away.                                    *)
THEOREM AccessGrows == GroupSpec => []Monotone
<1>1. Monotone
  <2>1. SUFFICES ASSUME NEW i \in Passing, NEW g
                 PROVE  Grants(route.alternatives[i], route.url, groups \cup {g}) # {}
    BY DEF Monotone, Passing
  <2>2. Grants(route.alternatives[i], route.url, groups) # {}
    BY DEF Passing
  <2>3. QED  BY <2>2, GrantsGrow
<1>2. QED  BY <1>1, PTL
=============================================================================
