---------------------------- MODULE FrontendClient ----------------------------
(***************************************************************************)
(* The tabs of one browser, each with a KeycloakConnectorClient: a check   *)
(* asks the server for the user status (which refreshes the tokens) and,   *)
(* when that gives no user, logs in silently in an iframe that posts       *)
(* messages back.  The tabs share the stored user status and hear of each  *)
(* other's changes by storage events.                                      *)
(*                                                                         *)
(* A status is its md5 and the server's time stamp.  The md5 is 0 for a    *)
(* logged out user, else the number of the token set that it describes.    *)
(* A handler runs to its end; what an abort lets go on (the promise of the *)
(* fetch rejects) goes on before the next one.  A check and its iframe     *)
(* have one slot, used once: Slots bounds the checks of a tab from one     *)
(* page load to the next, MaxStamp the answers of the server, MaxSets the  *)
(* token sets, MaxFaults the failures and MaxMoves logins and logouts.     *)
(***************************************************************************)
EXTENDS Naturals, Sequences, FiniteSets

CONSTANTS Tabs, Slots, None,
          Fast,   \* fastInitialAuthCheck
          MaxStamp, MaxSets, MaxFaults, MaxMoves

ASSUME ClientAssumption == /\ Fast \in BOOLEAN /\ None \notin Slots
                           /\ {MaxStamp, MaxSets, MaxFaults, MaxMoves} \subseteq Nat

VARIABLES
  tab,      \* the clients: see Page
  stored,   \* the user status in localStorage
  highest,  \* history: the latest time stamp ever stored
  cleared,  \* history: has a logout cleared the storage since then
  clock,    \* the server's time
  session,  \* is there a session at Keycloak
  set,      \* the newest token set
  old,      \* the newest token set whose access token has expired
  faults, moves

vars == <<tab, stored, highest, cleared, clock, session, set, old, faults, moves>>

Stamps == 0..MaxStamp
Status(md5, stamp) == [md5 |-> md5, stamp |-> stamp]
NoStatus == Status(0, 0)   \* nothing is stored
NoHash == MaxSets + 1      \* userStatusHash is undefined

(* A page that was loaded and called start. *)
Page == [hash      |-> NoHash,     \* userStatusHash
         checking  |-> FALSE,      \* isAuthChecking
         destroyed |-> FALSE,      \* isDestroyed
         ticks     |-> {FALSE},    \* pending authCheckNextTick, by their force
         control   |-> None,       \* userStatusAbortController, by its check
         awake     |-> FALSE,      \* listenerAwake
         timers    |-> {},         \* pending timers of iframes that were loaded
         timer     |-> None,       \* silentLoginTimeout
         armed     |-> FALSE,      \* the expiration timer is pending
         watch     |-> 0,          \* expirationWatchTimestamp, 0 for none
         events    |-> 0,          \* storage events on their way
         listener  |-> "off",      \* the login listener's iframe
         leaving   |-> "no",       \* the form that was submitted
         inbox     |-> <<>>,       \* messages on their way to the window
         check     |-> [c \in Slots |-> "new"],
         answer    |-> [c \in Slots |-> NoStatus],
         aborted   |-> {}]         \* history: checks that were aborted

(* States of a check's iframe while it is in the page. *)
Frames == {"frame", "mute", "alive", "posted", "failed"}

Init ==
  /\ tab = [t \in Tabs |-> Page]
  /\ stored = NoStatus /\ highest = 0 /\ cleared = FALSE /\ clock = 0
  /\ session = FALSE /\ set = 0 /\ old = 0
  /\ faults = 0 /\ moves = 0

HasStatus(s)  == s.stamp # 0
AccessCurrent(s)  == HasStatus(s) /\ s.md5 > old
RefreshCurrent(s) == HasStatus(s) /\ s.md5 # 0

(***************************************************************************)
(* The client's methods, as functions of its state x.                      *)
(***************************************************************************)
RemoveFrames(x) ==
  [x EXCEPT !.check = [c \in Slots |-> IF @[c] \in Frames THEN "gone" ELSE @[c]]]

RemoveListener(x) == [x EXCEPT !.listener = "off"]

(* silentLogin: the iframe is mounted, whoever was aborted meanwhile. *)
SilentLogin(x, c) == [x EXCEPT !.check[c] = "frame", !.awake = FALSE]

Running(x) == {c \in Slots : x.check[c] \in {"fetching", "parsing"}}

(* Mutant of Abort: the flag stays set. *)
Abort_Checking(x) ==
  LET y == RemoveFrames(x) IN
  IF y.control = None \/ y.check[y.control] # "fetching" THEN y
  ELSE [y EXCEPT !.check[y.control] = "aborted", !.aborted = @ \cup {y.control}]

(* abortBackgroundLogins *)
Abort(x) ==
  LET y == [RemoveFrames(x) EXCEPT !.checking = FALSE, !.aborted = @ \cup Running(x)] IN
  IF y.control = None \/ y.check[y.control] # "fetching" THEN y
  ELSE [y EXCEPT !.check[y.control] = "aborted"]

(* The end of a handler: aborted checks go on to their silent login. *)
Microtasks(x) ==
  LET went == {c \in Slots : x.check[c] = "aborted"} IN
  IF went = {} THEN x
  ELSE [x EXCEPT !.check = [c \in Slots |-> IF c \in went THEN "frame" ELSE @[c]],
                 !.awake = FALSE]

(* setupExpirationListener *)
Arm(x, s) ==
  IF x.watch = s.md5 /\ x.watch # 0 THEN x
  ELSE IF s.md5 = 0 THEN [x EXCEPT !.armed = FALSE]
  ELSE [x EXCEPT !.armed = TRUE, !.watch = s.md5]

(* handleUpdatedUserStatus, with s in the storage *)
Updated(x, s) ==
  IF ~HasStatus(s) THEN x
  ELSE IF x.hash = s.md5 THEN Abort(x)
  ELSE [Arm(Abort(x), s) EXCEPT !.hash = s.md5]

(* Mutant of MoreRecent: what comes last is kept. *)
MoreRecent_Always(s) == TRUE

MoreRecent(s) == stored.stamp < s.stamp

Here(t) == tab[t].leaving = "no"

(* The other tabs are told of a change of the storage. *)
Notified(u) == IF Here(u) THEN [tab[u] EXCEPT !.events = @ + 1] ELSE tab[u]

(* storeUserStatus: tab x after it got status s. *)
StoreUserStatus(x, s) == IF MoreRecent(s) THEN Updated(x, s) ELSE x

(* Tab t ends a handler that stored status s, as x; the others are told. *)
Stores(t, x, s) ==
  IF MoreRecent(s)
  THEN /\ stored' = s
       /\ highest' = IF s.stamp > highest THEN s.stamp ELSE highest
       /\ cleared' = (cleared /\ s.stamp <= highest)
       /\ tab' = [u \in Tabs |-> IF u = t THEN Microtasks(x) ELSE Notified(u)]
  ELSE /\ tab' = [tab EXCEPT ![t] = Microtasks(x)]
       /\ UNCHANGED <<stored, highest, cleared>>

LoginError(x) == [RemoveFrames(x) EXCEPT !.checking = FALSE]

AuthCheckNoWait(x) ==
  IF ~AccessCurrent(stored) THEN [x EXCEPT !.ticks = @ \cup {TRUE}]
  ELSE IF x.hash = NoHash /\ Fast THEN [Updated(x, stored) EXCEPT !.ticks = @ \cup {TRUE}]
  ELSE x

(* The asynchronous part of authCheck, up to its first await. *)
Begin(x, c) ==
  LET y == [x EXCEPT !.checking = TRUE] IN
  IF RefreshCurrent(stored) THEN [y EXCEPT !.check[c] = "fetching", !.control = c]
  ELSE SilentLogin(y, c)

AuthCheck(x, force, c) ==
  LET y == IF force THEN x ELSE AuthCheckNoWait(x)
      served == ~force /\ AccessCurrent(stored) /\ y.hash # NoHash
  IN IF served \/ y.checking THEN y ELSE Begin(y, c)

(***************************************************************************)
(* What a tab is made to do.                                               *)
(***************************************************************************)
World == <<clock, session, set, old>>

Becomes(t, x) == /\ tab' = [tab EXCEPT ![t] = Microtasks(x)]
                 /\ UNCHANGED <<stored, highest, cleared>>

Checks(t, x, force) ==
  \E c \in Slots : x.check[c] = "new" /\ Becomes(t, AuthCheck(x, force, c))

RunTick(t) ==
  /\ Here(t)
  /\ \E force \in tab[t].ticks :
       LET x == [tab[t] EXCEPT !.ticks = @ \ {force}] IN
       IF x.destroyed THEN Becomes(t, x) ELSE Checks(t, x, force)
  /\ UNCHANGED <<World, faults, moves>>

Focus(t) ==
  /\ Here(t) /\ Becomes(t, AuthCheckNoWait(tab[t]))
  /\ UNCHANGED <<World, faults, moves>>

ExpirationFires(t) ==
  /\ Here(t) /\ tab[t].armed
  /\ Checks(t, [tab[t] EXCEPT !.armed = FALSE], TRUE)
  /\ UNCHANGED <<World, faults, moves>>

(* Mutant of HandleStorageEvent: an event is let pass during a check. *)
HandleStorageEvent_Busy(t) ==
  /\ Here(t) /\ tab[t].events > 0
  /\ LET x == [tab[t] EXCEPT !.events = @ - 1] IN
     Becomes(t, IF x.checking THEN x ELSE Updated(x, stored))
  /\ UNCHANGED <<World, faults, moves>>

HandleStorageEvent(t) ==
  /\ Here(t) /\ tab[t].events > 0
  /\ Becomes(t, Updated([tab[t] EXCEPT !.events = @ - 1], stored))
  /\ UNCHANGED <<World, faults, moves>>

(***************************************************************************)
(* refreshAccessWithRefresh: the server answers with the user's status,    *)
(* after a refresh when the access token has expired.                      *)
(***************************************************************************)
Renewed == IF set = old THEN set + 1 ELSE set

FetchAnswered(t, c) ==
  /\ Here(t) /\ tab[t].check[c] = "fetching"
  /\ clock < MaxStamp /\ clock' = clock + 1
  /\ session => Renewed <= MaxSets
  /\ set' = IF session THEN Renewed ELSE set
  /\ Becomes(t, [tab[t] EXCEPT !.check[c] = "parsing", !.control = None,
                   !.answer[c] = Status(IF session THEN Renewed ELSE 0, clock + 1)])
  /\ UNCHANGED <<session, old, faults, moves>>

FetchFails(t, c) ==
  /\ Here(t) /\ tab[t].check[c] = "fetching"
  /\ faults < MaxFaults /\ faults' = faults + 1
  /\ Becomes(t, SilentLogin(tab[t], c))
  /\ UNCHANGED <<World, moves>>

Parsed(t, c) ==
  /\ Here(t) /\ tab[t].check[c] = "parsing"
  /\ IF tab[t].answer[c].md5 = 0
     THEN Becomes(t, SilentLogin(tab[t], c))
     ELSE LET s == tab[t].answer[c]
              x == StoreUserStatus([tab[t] EXCEPT !.check[c] = "gone"], s)
          IN Stores(t, [x EXCEPT !.checking = FALSE], s)
  /\ UNCHANGED <<World, faults, moves>>

(***************************************************************************)
(* The iframe: its script, its load events and their timer, and the server *)
(* page that the login ends on.                                            *)
(***************************************************************************)
Message(event, s) == [event |-> event, data |-> s]

(* The script says that it is alive and posts the login form. *)
FrameScript(t, c) ==
  /\ Here(t) /\ tab[t].check[c] = "frame"
  /\ Becomes(t, [tab[t] EXCEPT !.check[c] = "alive",
                   !.inbox = Append(@, Message("CHILD_ALIVE", NoStatus))])
  /\ UNCHANGED <<World, faults, moves>>

(* The script does nothing, by one of its early returns or a blocked page. *)
FrameMute(t, c) ==
  /\ Here(t) /\ tab[t].check[c] = "frame"
  /\ faults < MaxFaults /\ faults' = faults + 1
  /\ Becomes(t, [tab[t] EXCEPT !.check[c] = "mute"])
  /\ UNCHANGED <<World, moves>>

(* onload fires for the first page and for the one the login ends on. *)
FrameLoads(t, c) ==
  /\ Here(t) /\ tab[t].check[c] \in {"mute", "alive", "posted", "failed"}
  /\ c \notin tab[t].timers
  /\ Becomes(t, [tab[t] EXCEPT !.timers = @ \cup {c}, !.timer = c])
  /\ UNCHANGED <<World, faults, moves>>

TimerFires(t, c) ==
  /\ Here(t) /\ c \in tab[t].timers
  /\ LET x == [tab[t] EXCEPT !.timers = @ \ {c}] IN
     Becomes(t, IF x.awake THEN x ELSE LoginError(x))
  /\ UNCHANGED <<World, faults, moves>>

(* A user whose cookies are good is answered without a new login. *)
ServerPosts(t, c) ==
  /\ Here(t) /\ tab[t].check[c] = "alive"
  /\ clock < MaxStamp /\ clock' = clock + 1
  /\ \E s \in IF session THEN {Renewed, set + 1} ELSE {0} :
       /\ s <= MaxSets /\ set' = IF session THEN s ELSE set
       /\ LET m == Message(IF session THEN "LOGIN_SUCCESS" ELSE "LOGIN_REQUIRED", Status(s, clock + 1)) IN
          Becomes(t, [tab[t] EXCEPT !.check[c] = "posted", !.inbox = Append(@, m)])
  /\ UNCHANGED <<session, old, faults, moves>>

(* The login ends on a page of the server's error path, which posts        *)
(* nothing; the iframe stays.                                              *)
ServerFails(t, c) ==
  /\ Here(t) /\ tab[t].check[c] = "alive"
  /\ faults < MaxFaults /\ faults' = faults + 1
  /\ Becomes(t, [tab[t] EXCEPT !.check[c] = "failed"])
  /\ UNCHANGED <<World, moves>>

(* handleWindowMessage *)
HandleMessage(t) ==
  /\ Here(t) /\ tab[t].inbox # <<>>
  /\ LET m == Head(tab[t].inbox)
         x == [tab[t] EXCEPT !.inbox = Tail(@)]
         y == [RemoveFrames(StoreUserStatus(x, m.data)) EXCEPT !.checking = FALSE]
     IN CASE m.event = "CHILD_ALIVE" ->
               Becomes(t, [x EXCEPT !.awake = TRUE, !.timers = @ \ {x.timer}])
          [] m.event = "LISTENER_ALIVE" ->
               Becomes(t, IF x.listener = "off" THEN x ELSE [x EXCEPT !.listener = "awake"])
          [] m.event = "LOGIN_SUCCESS" -> Stores(t, RemoveListener(y), m.data)
          [] OTHER -> Stores(t, y, m.data)
  /\ UNCHANGED <<World, faults, moves>>

(***************************************************************************)
(* A login in a new window, which the listener's iframe hears of.          *)
(***************************************************************************)
PrepareNewWindowLogin(t) ==
  /\ Here(t) /\ tab[t].listener = "off" /\ moves < MaxMoves
  /\ moves' = moves + 1
  /\ Becomes(t, [tab[t] EXCEPT !.listener = "initiated"])
  /\ UNCHANGED <<World, faults>>

(* Its page says that it is alive, or its timer gives it up. *)
ListenerLoads(t) ==
  /\ Here(t) /\ tab[t].listener = "initiated"
  /\ \/ /\ \A i \in DOMAIN tab[t].inbox : tab[t].inbox[i].event # "LISTENER_ALIVE"
        /\ Becomes(t, [tab[t] EXCEPT !.inbox = Append(@, Message("LISTENER_ALIVE", NoStatus))])
        /\ UNCHANGED faults
     \/ /\ faults < MaxFaults /\ faults' = faults + 1
        /\ Becomes(t, RemoveListener(tab[t]))
  /\ UNCHANGED <<World, moves>>

NewWindowLogin(t) ==
  /\ Here(t) /\ tab[t].listener = "awake" /\ moves < MaxMoves
  /\ moves' = moves + 1
  /\ clock < MaxStamp /\ clock' = clock + 1
  /\ set < MaxSets /\ set' = set + 1
  /\ session' = TRUE
  /\ LET x == Abort(tab[t]) IN
     Becomes(t, [x EXCEPT !.inbox = Append(@, Message("LOGIN_SUCCESS", Status(set + 1, clock + 1)))])
  /\ UNCHANGED <<old, faults>>

(***************************************************************************)
(* Forms that take the page away: a login, and a logout, which clears the  *)
(* storage first.  The page that comes back is a new one.                  *)
(***************************************************************************)
HandleLogin(t) ==
  /\ Here(t) /\ moves < MaxMoves /\ moves' = moves + 1
  /\ Becomes(t, [Abort(tab[t]) EXCEPT !.leaving = "login"])
  /\ UNCHANGED <<World, faults>>

HandleLogout(t) ==
  /\ Here(t) /\ moves < MaxMoves /\ moves' = moves + 1
  /\ stored' = NoStatus /\ cleared' = TRUE
  /\ tab' = [u \in Tabs |-> IF u = t THEN [tab[t] EXCEPT !.leaving = "logout"]
                            ELSE IF HasStatus(stored) THEN Notified(u) ELSE tab[u]]
  /\ UNCHANGED <<highest, World, faults>>

ComesBack(t) ==
  /\ ~Here(t)
  /\ session' = (tab[t].leaving = "login")
  /\ set < MaxSets
  /\ set' = IF tab[t].leaving = "login" THEN set + 1 ELSE set
  /\ tab' = [tab EXCEPT ![t] = Page]
  /\ UNCHANGED <<stored, highest, cleared, clock, old, faults, moves>>

Destroy(t) ==
  /\ Here(t) /\ ~tab[t].destroyed /\ moves < MaxMoves /\ moves' = moves + 1
  /\ Becomes(t, [RemoveListener(Abort(tab[t])) EXCEPT !.destroyed = TRUE])
  /\ UNCHANGED <<World, faults>>

(* The access tokens expire, or the session ends elsewhere. *)
AccessExpires ==
  /\ old < set /\ old' = set
  /\ UNCHANGED <<tab, stored, highest, cleared, clock, session, set, faults, moves>>

SessionEnds ==
  /\ session /\ session' = FALSE
  /\ UNCHANGED <<tab, stored, highest, cleared, clock, set, old, faults, moves>>

Work(t) == \/ RunTick(t) \/ HandleStorageEvent(t) \/ HandleMessage(t)
           \/ \E c \in Slots : \/ FetchAnswered(t, c) \/ Parsed(t, c) \/ FrameScript(t, c)
                               \/ FrameLoads(t, c) \/ TimerFires(t, c) \/ ServerPosts(t, c)

Next ==
  \/ \E t \in Tabs :
       \/ Work(t) \/ Focus(t) \/ ExpirationFires(t) \/ PrepareNewWindowLogin(t)
       \/ ListenerLoads(t) \/ NewWindowLogin(t) \/ HandleLogin(t) \/ HandleLogout(t)
       \/ ComesBack(t) \/ Destroy(t)
       \/ \E c \in Slots : FetchFails(t, c) \/ FrameMute(t, c) \/ ServerFails(t, c)
  \/ AccessExpires \/ SessionEnds

Spec == Init /\ [][Next]_vars

-----------------------------------------------------------------------------
(* Every variable has its type. *)
ClientTypeOK ==
  /\ stored \in [md5 : 0..MaxSets, stamp : Stamps] /\ highest \in Stamps
  /\ cleared \in BOOLEAN /\ clock \in Stamps
  /\ session \in BOOLEAN /\ set \in 0..MaxSets /\ old \in 0..set
  /\ faults \in 0..MaxFaults /\ moves \in 0..MaxMoves
  /\ \A t \in Tabs :
       /\ tab[t].hash \in 0..NoHash /\ tab[t].checking \in BOOLEAN
       /\ tab[t].check \in [Slots -> Frames \cup {"new", "fetching", "parsing", "gone"}]
       /\ tab[t].timers \subseteq Slots /\ tab[t].control \in Slots \cup {None}

(* Something that will reset the flag is under way: a request, an iframe   *)
(* that is heard of by its message or its timer, or a message.             *)
ResetComes(t) ==
  \/ \E c \in Slots : tab[t].check[c] \in {"fetching", "parsing", "frame", "mute", "alive"}
  \/ \E i \in DOMAIN tab[t].inbox : tab[t].inbox[i].event \in {"LOGIN_SUCCESS", "LOGIN_REQUIRED"}

(* The flag that keeps other checks out (isAuthChecking) is left set with  *)
(* nothing to reset it in one way only: the iframe of a silent login said  *)
(* that it is alive, which stops its timer, and the server failed.         *)
FlagMeansWork ==
  \A t \in Tabs : tab[t].checking =>
    ResetComes(t) \/ \E c \in Slots : tab[t].check[c] = "failed"

(* The flag is reset, however a silent login ends: "Silent, return data    *)
(* via silent login response" of handleCallbackWrapped.                    *)
FlagIsReset == \A t \in Tabs : tab[t].checking => ResetComes(t)

(* A tab that shows a status and has no storage event to come shows what   *)
(* is stored (handleUpdatedUserStatus, handleStorageEvent).                *)
TabsConverge ==
  \A t \in Tabs : tab[t].events = 0 /\ Here(t) /\ HasStatus(stored) /\ tab[t].hash # NoHash
                    => tab[t].hash = stored.md5

(* The stored status is the newest one that a tab ever stored, unless a    *)
(* logout has cleared the storage since: then answers that were under way  *)
(* restore an older one (storeUserStatus compares time stamps).            *)
OldStatusOnlyAfterClear == stored.stamp < highest => cleared

(* A check that was aborted does not go on to log in silently: "Cancel any *)
(* background requests" of handleUpdatedUserStatus.                        *)
AbortedChecksEnd ==
  [][\A t \in Tabs, c \in Slots :
       tab'[t].check[c] = "frame" /\ tab[t].check[c] # "frame" /\ tab'[t].leaving = "no"
         => c \notin tab'[t].aborted]_vars

(* The timer of an iframe gives up that iframe, not one whose login is     *)
(* under way: "Check for a successful listener" of silentLogin.            *)
TimerEndsItsOwn ==
  [][\A t \in Tabs, c, d \in Slots :
       /\ c # d /\ c \in tab[t].timers /\ tab'[t].timers = tab[t].timers \ {c}
       /\ tab[t].inbox = tab'[t].inbox /\ tab[t].check[d] = "frame"
       => tab'[t].check[d] = "frame"]_vars
=============================================================================
