----------------------------- MODULE ReactOverlay -----------------------------
(***************************************************************************)
(* The React bindings: the state behind the login and logout dialogs,      *)
(* which the events of a KeycloakConnectorClient, a timer and the user     *)
(* change.  React's strict mode mounts the provider, unmounts it and       *)
(* mounts it again with the same state, each time with a client of its     *)
(* own.  A status is its md5: 0 for a logged out user, else the number of  *)
(* the token set, and Unknown where there is none.                         *)
(*                                                                         *)
(* A client whose mount is over keeps its listeners and its timer: it      *)
(* hears the other tabs, checks when the timer fires, and reports to the   *)
(* same state.  The mounts share one window, so what one stores the other  *)
(* is not told.  How a check goes about it, and which storage events are   *)
(* late, is FrontendClient's matter.                                       *)
(*                                                                         *)
(* fastInitialAuthCheck is off and eagerRefreshTime is a number.           *)
(* MaxMounts bounds the mounts of the provider, MaxSets the token sets,    *)
(* MaxMoves what the user and the other tabs do.                           *)
(***************************************************************************)
EXTENDS Naturals

CONSTANTS MaxMounts, MaxSets, MaxMoves

ASSUME OverlayAssumption == {MaxMounts, MaxSets, MaxMoves} \subseteq Nat

VARIABLES
  deferred, \* deferredStart, as the application configures it
  ui,      \* the context: see InitialContext
  client,  \* the client of each mount
  timers,  \* mounts whose lengthyLoginTimeout is pending
  stored,  \* the user status in localStorage
  session, \* is there a session at Keycloak
  set,     \* the newest token set
  old,     \* the newest token set whose access token has expired
  closed,  \* history: the user closed the dialog
  asked,   \* history: the user asked for the login that is shown
  ghost,   \* history: "status" or "check", when a destroyed client was the last
           \* to report a status, or has reported since a check last began
  moves

vars == <<deferred, ui, client, timers, stored, session, set, old, closed, asked, ghost, moves>>
World == <<session, set, old>>

Mounts == 1..MaxMounts
Unknown == MaxSets + 1
Statuses == 0..Unknown

InitialContext ==
  [login |-> TRUE, must |-> FALSE, lengthy |-> FALSE, error |-> FALSE, silent |-> FALSE,
   invalid |-> FALSE, logout |-> FALSE, loggedIn |-> FALSE, once |-> FALSE, client |-> 0]

Contexts ==
  [login : BOOLEAN, must : BOOLEAN, lengthy : BOOLEAN, error : BOOLEAN, silent : BOOLEAN,
   invalid : BOOLEAN, logout : BOOLEAN, loggedIn : BOOLEAN, once : BOOLEAN, client : 0..MaxMounts]

(* armed: the timer of setupExpirationListener is pending.  watch: the     *)
(* token set that it was last set for.  passed: another client has stored  *)
(* a status since the check began.  loose: aborted checks, and logins in a *)
(* new window, that may still be heard of.                                 *)
NoClient == [life |-> "none", hash |-> Unknown, checking |-> FALSE, ticks |-> {},
             armed |-> FALSE, watch |-> 0, passed |-> FALSE, loose |-> 0]

Init ==
  /\ deferred \in BOOLEAN
  /\ ui = [InitialContext EXCEPT !.login = ~deferred]
  /\ client = [m \in Mounts |-> NoClient] /\ timers = {}
  /\ stored = Unknown /\ session \in BOOLEAN /\ set = 0 /\ old = 0
  /\ closed = FALSE /\ asked = FALSE /\ ghost = {} /\ moves = 0

Live(m) == client[m].life = "live"
AccessCurrent  == stored # Unknown /\ stored > old
RefreshCurrent == stored \notin {0, Unknown}

-----------------------------------------------------------------------------
ResetUiHelperStates(u) == [u EXCEPT !.silent = FALSE, !.lengthy = FALSE, !.error = FALSE]

(* Mutants of LoginError and Updated: the dialog is closed, the dialog     *)
(* does not say that a login is needed.                                    *)
LoginError_Closes(u) == [u EXCEPT !.error = TRUE, !.silent = FALSE, !.login = FALSE]
Updated_Quiet(u, in) ==
  [ResetUiHelperStates(u) EXCEPT !.loggedIn = in, !.login = ~in, !.once = @ \/ in]

(* The reducer, by its actions.  LOGOUT_SUCCESS, which the client never    *)
(* dispatches, and the flag of EXECUTING_LOGOUT, which nothing reads, are  *)
(* left out.                                                               *)
Started(u)       == [u EXCEPT !.silent = TRUE, !.error = FALSE]
LoginError(u)    == [u EXCEPT !.error = TRUE, !.silent = FALSE]
InvalidTokens(u) == [u EXCEPT !.login = TRUE, !.invalid = TRUE]
Updated(u, in) ==
  [ResetUiHelperStates(u) EXCEPT !.loggedIn = in, !.invalid = @ /\ ~in, !.login = ~in,
                                 !.must = ~in, !.once = @ \/ in]
HideDialog(u) == [ResetUiHelperStates(u) EXCEPT !.login = FALSE, !.logout = FALSE]

(* The context becomes u; a dialog that is shown is no longer closed. *)
Shows(u) == ui' = u /\ closed' = (closed /\ ~u.login) /\ asked' = (asked /\ u.login)

-----------------------------------------------------------------------------
(* The provider is mounted, with a new client that starts unless deferred. *)
Mount(m) ==
  /\ client[m].life = "none" /\ \A n \in Mounts : ~Live(n) /\ (n < m => client[n].life # "none")
  /\ client' = [client EXCEPT ![m].life = "live", ![m].ticks = IF deferred THEN {} ELSE {FALSE}]
  /\ Shows([ui EXCEPT !.client = m])
  /\ UNCHANGED <<timers, stored, World, ghost, moves>>

(* abortBackgroundLogins: an aborted fetch still goes on to a silent login. *)
Aborted(c) ==
  [c EXCEPT !.checking = FALSE, !.passed = FALSE, !.loose = IF c.checking THEN @ + 1 ELSE @]

(* The timers of the mount and of its client stay. *)
Unmount(m) ==
  /\ Live(m) /\ m < MaxMounts
  /\ client' = [client EXCEPT ![m] = [Aborted(@) EXCEPT !.life = "destroyed"]]
  /\ Shows(InitialContext) /\ ghost' = ghost \ {"status"}
  /\ UNCHANGED <<timers, stored, World, moves>>

StartDeferred(m) ==
  /\ deferred /\ Live(m) /\ ui.client = m /\ moves < MaxMoves /\ moves' = moves + 1
  /\ client' = [client EXCEPT ![m].ticks = @ \cup {FALSE}]
  /\ UNCHANGED <<ui, timers, stored, World, closed, asked, ghost>>

(* What authCheck reports, in the context u, when it starts a check or not. *)
Reports(m, starts, u) ==
  /\ Shows(IF starts THEN Started(u) ELSE u)
  /\ timers' = IF starts THEN timers \cup {m} ELSE timers
  /\ ghost' = IF starts THEN ghost \ {"check"} ELSE ghost

(* authCheckNextTick's authCheck, with authCheckNoWait when not forced. *)
RunTick(m, force) ==
  /\ force \in client[m].ticks
  /\ LET skip   == client[m].life = "destroyed" \/ (~force /\ AccessCurrent /\ client[m].hash # Unknown)
         again  == ~skip /\ ~force /\ ~AccessCurrent
         starts == ~skip /\ ~client[m].checking
         u      == IF again /\ ~RefreshCurrent THEN InvalidTokens(ui) ELSE ui
     IN  /\ client' = [client EXCEPT ![m].ticks = (@ \ {force}) \cup (IF again THEN {TRUE} ELSE {}),
                                     ![m].checking = @ \/ starts]
         /\ Reports(m, starts, u)
  /\ UNCHANGED <<stored, World, moves>>

(* The timer of setupExpirationListener, which does not ask isDestroyed. *)
ExpirationFires(m) ==
  /\ client[m].armed
  /\ client' = [client EXCEPT ![m].armed = FALSE, ![m].checking = TRUE]
  /\ Reports(m, ~client[m].checking, ui)
  /\ UNCHANGED <<stored, World, moves>>

(* setupExpirationListener, and handleUpdatedUserStatus of the clients M   *)
(* once s is stored; f has the clients as they are when s is.              *)
Arm(c, s) == [c EXCEPT !.armed = s # 0 /\ (@ \/ c.watch # s), !.watch = IF s = 0 THEN @ ELSE s]

Heard(c, s) == IF c.hash = s THEN Aborted(c) ELSE Arm([Aborted(c) EXCEPT !.hash = s], s)

Store(s, M, f) ==
  LET news == {m \in M : client[m].hash # s} IN
  /\ stored' = s
  /\ client' = [m \in Mounts |-> IF m \in M THEN Heard(f[m], s)
                                 ELSE [f[m] EXCEPT !.passed = f[m].checking]]
  /\ Shows(IF news = {} THEN ui ELSE Updated(ui, s # 0))
  /\ timers' = IF s = 0 THEN timers ELSE timers \ news
  /\ ghost' = IF news = {} THEN ghost
              ELSE IF \E m \in M : Live(m) THEN ghost \ {"status"} ELSE {"status", "check"}

(* What the server answers: the status of tokens that are still good, of a *)
(* refresh or of a new login.                                              *)
Answers == IF ~session THEN {0}
           ELSE {s \in {IF set = old THEN set + 1 ELSE set, set + 1} : s <= MaxSets}

(* A check of the client ends: its own, or a loose one, which resets the   *)
(* flag of its own too.                                                    *)
Ends(m, own) == IF own THEN client[m].checking ELSE client[m].loose > 0

Ended(c, own) == IF own THEN [c EXCEPT !.checking = FALSE, !.passed = FALSE]
                 ELSE [Aborted(c) EXCEPT !.loose = @ - 1]

(* storeUserStatus drops an answer that is not more recent than what       *)
(* another client or tab has stored since the check began.                 *)
CheckAnswered(m) ==
  /\ \E own \in BOOLEAN, s \in Answers :
       /\ Ends(m, own) /\ set' = (IF s = 0 THEN set ELSE s)
       /\ LET f == [client EXCEPT ![m] = Ended(@, own)] IN
          \/ Store(s, {m}, f)
          \/ /\ stored # Unknown /\ (own => client[m].passed) /\ client' = f
             /\ UNCHANGED <<ui, timers, stored, closed, asked, ghost>>
  /\ UNCHANGED <<session, old, moves>>

CheckFails(m) ==
  /\ \E own \in BOOLEAN : Ends(m, own) /\ client' = [client EXCEPT ![m] = Ended(@, own)]
  /\ Shows(LoginError(ui)) /\ timers' = timers \ {m}
  /\ ghost' = IF Live(m) THEN ghost ELSE ghost \cup {"check"}
  /\ UNCHANGED <<stored, World, moves>>

(* Another tab stores what the server answers it, or clears the status. *)
OtherTabStores ==
  /\ moves < MaxMoves /\ moves' = moves + 1
  /\ \E s \in Answers : /\ set' = IF s = 0 THEN set ELSE s
                        /\ Store(s, {m \in Mounts : client[m].life # "none"}, client)
  /\ UNCHANGED <<session, old>>

OtherTabClears ==
  /\ moves < MaxMoves /\ moves' = moves + 1
  /\ stored' = Unknown
  /\ UNCHANGED <<ui, client, timers, World, closed, asked, ghost>>

(* handleOnFocus, of clients that were destroyed too. *)
Focus ==
  /\ moves < MaxMoves /\ moves' = moves + 1
  /\ ~AccessCurrent /\ \E m \in Mounts : client[m].life # "none"
  /\ client' = [m \in Mounts |-> IF client[m].life = "none" THEN client[m]
                                 ELSE [client[m] EXCEPT !.ticks = @ \cup {TRUE}]]
  /\ Shows(IF RefreshCurrent THEN ui ELSE InvalidTokens(ui))
  /\ UNCHANGED <<timers, stored, World, ghost>>

LengthyLogin(m) ==
  /\ m \in timers /\ timers' = timers \ {m}
  /\ Shows([ui EXCEPT !.lengthy = TRUE])
  /\ UNCHANGED <<client, stored, World, ghost, moves>>

-----------------------------------------------------------------------------
AbortOf(m) == IF m = 0 THEN client ELSE [client EXCEPT ![m] = Aborted(@)]

(* The dialogs' close button: the logout dialog always has one. *)
Close ==
  /\ ui.logout \/ (ui.login /\ (ui.once \/ deferred))
  /\ client' = AbortOf(ui.client)
  /\ ui' = HideDialog(ui) /\ closed' = TRUE /\ asked' = FALSE
  /\ UNCHANGED <<timers, stored, World, ghost, moves>>

(* The login button opens a new window for a user who was logged in, whose *)
(* login the client's listener may hear of.  Without one, and for a        *)
(* logout, the page is left.                                               *)
InNewWindow(c) == [Aborted(c) EXCEPT !.loose = @ + 1]

HandleLogin ==
  /\ ui.login /\ ui.once /\ ui.client # 0 /\ moves < MaxMoves /\ moves' = moves + 1
  /\ client' = [client EXCEPT ![ui.client] = InNewWindow(@)] /\ asked' = TRUE
  /\ UNCHANGED <<ui, timers, stored, World, closed, ghost>>

(* SHOW_LOGIN and SHOW_LOGOUT, which the application dispatches. *)
ShowDialog ==
  /\ moves < MaxMoves /\ moves' = moves + 1
  /\ \/ ui' = [ui EXCEPT !.login = TRUE] /\ closed' = FALSE /\ asked' = TRUE
     \/ ui.loggedIn /\ Shows([ui EXCEPT !.logout = TRUE])
  /\ UNCHANGED <<client, timers, stored, World, ghost>>

AccessExpires ==
  /\ old < set /\ old' = set
  /\ UNCHANGED <<ui, client, timers, stored, session, set, closed, asked, ghost, moves>>

SessionChanges ==
  /\ moves < MaxMoves /\ moves' = moves + 1
  /\ session' = ~session
  /\ UNCHANGED <<ui, client, timers, stored, set, old, closed, asked, ghost>>

Step ==
  \/ \E m \in Mounts :
       \/ Mount(m) \/ Unmount(m) \/ StartDeferred(m) \/ CheckAnswered(m) \/ CheckFails(m)
       \/ ExpirationFires(m) \/ LengthyLogin(m) \/ \E force \in BOOLEAN : RunTick(m, force)
  \/ OtherTabStores \/ OtherTabClears \/ Focus \/ Close \/ HandleLogin \/ ShowDialog
  \/ AccessExpires \/ SessionChanges

Next == Step /\ UNCHANGED deferred

Spec == Init /\ [][Next]_vars

-----------------------------------------------------------------------------
(* Every variable has its type; the context's client is mounted. *)
OverlayTypeOK ==
  /\ deferred \in BOOLEAN
  /\ ui \in Contexts /\ (ui.client # 0 => Live(ui.client))
  /\ client \in [Mounts -> [life : {"none", "live", "destroyed"}, hash : Statuses,
                            checking : BOOLEAN, ticks : SUBSET BOOLEAN,
                            armed : BOOLEAN, watch : 0..MaxSets, passed : BOOLEAN, loose : Nat]]
  /\ timers \subseteq Mounts /\ stored \in Statuses /\ set \in 0..MaxSets /\ old \in 0..set
  /\ session \in BOOLEAN /\ closed \in BOOLEAN /\ asked \in BOOLEAN /\ moves \in 0..MaxMoves
  /\ ghost \subseteq {"status", "check"}

(* What the dialogs say of the user is what the client that is mounted     *)
(* last heard, across remounts, loose checks and the other tabs, unless a  *)
(* destroyed client's own check was the last to report a status.           *)
StatusFollowsClient ==
  \A m \in Mounts : Live(m) /\ client[m].hash # Unknown =>
    /\ "status" \notin ghost => (ui.loggedIn <=> client[m].hash # 0)
    /\ ui.must <=> ~ui.loggedIn

(* The same of every check, whichever client made it.  authCheckNextTick   *)
(* returns early if isDestroyed; the timer's check does not.               *)
StatusIsClients ==
  \A m \in Mounts : Live(m) /\ client[m].hash # Unknown => (ui.loggedIn <=> client[m].hash # 0)

(* The login dialog is hidden from a user who is not logged in only by the *)
(* user's own close, or before a deferred start.                           *)
HiddenMeansLoggedIn == ~ui.login /\ ~deferred => ui.loggedIn \/ closed

(* While the mounted client checks, the dialog shows the check and not the *)
(* error of an earlier one, unless a destroyed client reports meanwhile.   *)
CheckIsShown ==
  \A m \in Mounts : Live(m) /\ client[m].checking /\ "check" \notin ghost => ui.silent /\ ~ui.error

(* The dialog says "Checking Credentials", unasked, only while they are    *)
(* checked: "Show hide the overlay and must log in" of the reducer.        *)
CheckingMeansCheck ==
  \A m \in Mounts : ~deferred /\ Live(m) /\ ui.login /\ ~ui.error /\ ~ui.must /\ ~asked
    => client[m].checking \/ client[m].ticks # {}

(* A check that begins is not shown as a lengthy one: "Capture silent      *)
(* login events and set a timer to flag them as lengthy".                  *)
NewCheckIsNotLengthy ==
  [][\A m \in Mounts : ~client[m].checking /\ client'[m].checking
       => ~(ui'.login /\ ~ui'.must /\ ui'.lengthy)]_vars
=============================================================================
