------------------------- MODULE ReactOverlay_proofs -------------------------
(***************************************************************************)
(* What the dialogs show is right for any number of mounts, token sets and *)
(* moves of the user.                                                      *)
(***************************************************************************)
EXTENDS ReactOverlay, TLAPS

(* The context has the client that is mounted, so that there is one at     *)
(* most, and a client that was never mounted knows nothing.                *)
OneClient ==
  \A m \in Mounts : /\ Live(m) => ui.client = m
                    /\ client[m].life = "none" => client[m] = NoClient

IInv == OverlayTypeOK /\ OneClient /\ StatusFollowsClient /\ HiddenMeansLoggedIn /\ CheckIsShown

-----------------------------------------------------------------------------
(* What the reducer leaves and sets, of the fields that the invariant names. *)

SameUser(u, w) ==
  w \in Contexts /\ w.client = u.client /\ (w.loggedIn <=> u.loggedIn) /\ (w.must <=> u.must)
SameCheck(u, w) == (w.silent <=> u.silent) /\ (w.error <=> u.error)

LEMMA StartContext == InitialContext \in Contexts
BY OverlayAssumption DEF InitialContext, Contexts

LEMMA ReducerFacts ==
  ASSUME NEW u \in Contexts
  PROVE  /\ /\ SameUser(u, Started(u)) /\ (Started(u).login <=> u.login)
            /\ Started(u).silent /\ ~Started(u).error
         /\ SameUser(u, LoginError(u)) /\ (LoginError(u).login <=> u.login)
         /\ SameUser(u, InvalidTokens(u)) /\ SameCheck(u, InvalidTokens(u)) /\ InvalidTokens(u).login
         /\ SameUser(u, HideDialog(u)) /\ ~HideDialog(u).login
<1>1. /\ SameUser(u, Started(u)) /\ (Started(u).login <=> u.login)
      /\ Started(u).silent /\ ~Started(u).error
  BY DEF Contexts, SameUser, Started
<1>2. SameUser(u, LoginError(u)) /\ (LoginError(u).login <=> u.login)
  BY DEF Contexts, SameUser, LoginError
<1>3. SameUser(u, InvalidTokens(u)) /\ SameCheck(u, InvalidTokens(u)) /\ InvalidTokens(u).login
  BY DEF Contexts, SameUser, SameCheck, InvalidTokens
<1>4. SameUser(u, HideDialog(u)) /\ ~HideDialog(u).login
  BY DEF Contexts, SameUser, HideDialog, ResetUiHelperStates
<1>5. QED BY <1>1, <1>2, <1>3, <1>4

LEMMA UpdatedFacts ==
  ASSUME NEW u \in Contexts, NEW in \in BOOLEAN
  PROVE  /\ Updated(u, in) \in Contexts /\ Updated(u, in).client = u.client
         /\ Updated(u, in).loggedIn <=> in
         /\ Updated(u, in).login <=> ~in
         /\ Updated(u, in).must <=> ~in
<1>1. ResetUiHelperStates(u) \in Contexts /\ ResetUiHelperStates(u).client = u.client
  BY DEF Contexts, ResetUiHelperStates
<1>2. PICK r \in Contexts : r = ResetUiHelperStates(u) BY <1>1
<1>3. PICK invalid \in BOOLEAN : invalid = (r.invalid /\ ~in) BY DEF Contexts
<1>4. PICK once \in BOOLEAN : once = (r.once \/ in) BY DEF Contexts
<1>5. PICK out \in BOOLEAN : out = ~in OBVIOUS
<1>6. Updated(u, in) = [r EXCEPT !.loggedIn = in, !.invalid = invalid, !.login = out,
                                 !.must = out, !.once = once]
  BY <1>2, <1>3, <1>4, <1>5, Zenon DEF Updated
<1>7. QED BY <1>1, <1>2, <1>5, <1>6 DEF Contexts

LEMMA FieldFacts ==
  ASSUME NEW u \in Contexts
  PROVE  /\ \A m \in 0..MaxMounts :
              LET w == [u EXCEPT !.client = m]
              IN  /\ w \in Contexts /\ w.client = m /\ SameCheck(u, w)
                  /\ (w.login <=> u.login) /\ (w.loggedIn <=> u.loggedIn) /\ (w.must <=> u.must)
         /\ \A b \in BOOLEAN :
              LET w == [u EXCEPT !.login = b]
              IN  SameUser(u, w) /\ SameCheck(u, w) /\ (w.login <=> b)
         /\ \A w \in {[u EXCEPT !.lengthy = TRUE], [u EXCEPT !.logout = TRUE]} :
              SameUser(u, w) /\ SameCheck(u, w) /\ (w.login <=> u.login)
BY OverlayAssumption DEF Contexts, SameUser, SameCheck

-----------------------------------------------------------------------------
(* The clients. *)
ClientType == [life : {"none", "live", "destroyed"}, hash : Statuses,
               checking : BOOLEAN, ticks : SUBSET BOOLEAN,
               armed : BOOLEAN, watch : 0..MaxSets, passed : BOOLEAN, loose : Nat]

Others ==
  /\ deferred \in BOOLEAN
  /\ timers \subseteq Mounts /\ stored \in Statuses /\ set \in 0..MaxSets /\ old \in 0..set
  /\ session \in BOOLEAN /\ closed \in BOOLEAN /\ asked \in BOOLEAN /\ moves \in 0..MaxMoves
  /\ ghost \subseteq {"status", "check"}

LEMMA TypeParts ==
  OverlayTypeOK <=> /\ ui \in Contexts /\ (ui.client # 0 => Live(ui.client))
                    /\ client \in [Mounts -> ClientType] /\ Others
BY DEF OverlayTypeOK, ClientType, Others

(* One client is replaced. *)
LEMMA Replaced ==
  ASSUME NEW f \in [Mounts -> ClientType], NEW m \in Mounts, NEW d \in ClientType
  PROVE  /\ [f EXCEPT ![m] = d] \in [Mounts -> ClientType] /\ [f EXCEPT ![m] = d][m] = d
         /\ \A n \in Mounts \ {m} : [f EXCEPT ![m] = d][n] = f[n]
OBVIOUS

LEMMA ClientSet ==
  ASSUME NEW f \in [Mounts -> ClientType], NEW m \in Mounts,
         NEW t \in SUBSET BOOLEAN, NEW c \in BOOLEAN
  PROVE  /\ [f EXCEPT ![m].ticks = t, ![m].checking = c] \in [Mounts -> ClientType]
         /\ [f EXCEPT ![m].life = "live", ![m].ticks = t] \in [Mounts -> ClientType]
         /\ [f EXCEPT ![m].armed = FALSE, ![m].checking = c] \in [Mounts -> ClientType]
<1>1. \A d \in ClientType : /\ [d EXCEPT !.ticks = t, !.checking = c] \in ClientType
                           /\ [d EXCEPT !.life = "live", !.ticks = t] \in ClientType
                           /\ [d EXCEPT !.armed = FALSE, !.checking = c] \in ClientType
  <2>. TAKE d \in ClientType
  <2>1. [d EXCEPT !.ticks = t, !.checking = c] \in ClientType BY DEF ClientType
  <2>2. [d EXCEPT !.life = "live", !.ticks = t] \in ClientType BY DEF ClientType
  <2>3. [d EXCEPT !.armed = FALSE, !.checking = c] \in ClientType BY DEF ClientType
  <2>4. QED BY <2>1, <2>2, <2>3
<1>2. f[m] \in ClientType OBVIOUS
<1>3. [f EXCEPT ![m].ticks = t, ![m].checking = c] \in [Mounts -> ClientType]
  BY <1>1, <1>2, Replaced
<1>4. [f EXCEPT ![m].life = "live", ![m].ticks = t] \in [Mounts -> ClientType]
  BY <1>1, <1>2, Replaced
<1>5. [f EXCEPT ![m].armed = FALSE, ![m].checking = c] \in [Mounts -> ClientType]
  BY <1>1, <1>2, Replaced
<1>6. QED BY <1>3, <1>4, <1>5

(* d is c but for its checks, and does not check. *)
Quiet(c, d) == d \in ClientType /\ d.life = c.life /\ d.hash = c.hash /\ ~d.checking

LEMMA AbortedFacts ==
  ASSUME NEW c \in ClientType
  PROVE  Quiet(c, Aborted(c)) /\ Aborted(c).loose >= c.loose
<1>1. PICK l \in Nat : l = (IF c.checking THEN c.loose + 1 ELSE c.loose) /\ l >= c.loose
  BY DEF ClientType
<1>2. Aborted(c) = [c EXCEPT !.checking = FALSE, !.passed = FALSE, !.loose = l]
  BY <1>1 DEF Aborted, ClientType
<1>3. QED BY <1>1, <1>2 DEF ClientType, Quiet

LEMMA EndedFacts ==
  ASSUME NEW c \in ClientType, NEW own \in BOOLEAN, ~own => c.loose > 0
  PROVE  Quiet(c, Ended(c, own))
<1>1. CASE own BY <1>1 DEF ClientType, Quiet, Ended
<1>2. CASE ~own
  <2>1. PICK d \in ClientType : d = Aborted(c) /\ Quiet(c, d) /\ d.loose >= c.loose
    BY AbortedFacts DEF Quiet
  <2>2. Ended(c, own) = [d EXCEPT !.loose = @ - 1] BY <1>2, <2>1 DEF Ended
  <2>3. QED BY <1>2, <2>1, <2>2 DEF ClientType, Quiet
<1>3. QED BY <1>1, <1>2

LEMMA HeardFacts ==
  ASSUME NEW c \in ClientType, NEW s \in 0..MaxSets
  PROVE  /\ Heard(c, s) \in ClientType /\ Heard(c, s).life = c.life
         /\ Heard(c, s).hash = s /\ ~Heard(c, s).checking
<1>1. PICK d \in ClientType : d = Aborted(c) /\ Quiet(c, d)
  BY AbortedFacts DEF Quiet
<1>2. CASE c.hash = s BY <1>1, <1>2 DEF Heard, Quiet
<1>3. CASE c.hash # s
  <2>1. s \in Statuses BY OverlayAssumption DEF Statuses, Unknown
  <2>2. PICK e \in ClientType : e = [d EXCEPT !.hash = s] BY <2>1 DEF ClientType
  <2>3. e.hash = s /\ e.life = c.life /\ ~e.checking BY <1>1, <2>2 DEF ClientType, Quiet
  <2>4. PICK b \in BOOLEAN : b = (s # 0 /\ (e.armed \/ e.watch # s)) OBVIOUS
  <2>5. PICK w \in 0..MaxSets : w = IF s = 0 THEN e.watch ELSE s BY DEF ClientType
  <2>6. Heard(c, s) = [e EXCEPT !.armed = b, !.watch = w]
    BY <1>1, <1>3, <2>2, <2>4, <2>5 DEF Heard, Arm
  <2>7. QED BY <2>3, <2>6 DEF ClientType
<1>4. QED BY <1>2, <1>3

LEMMA OverlayInit == Init => IInv
<1>. SUFFICES ASSUME Init PROVE IInv
  OBVIOUS
<1>1. ui = [InitialContext EXCEPT !.login = ~deferred] /\ ~closed BY DEF Init
<1>2. ui \in Contexts /\ ui.client = 0 /\ (ui.login <=> ~deferred)
  <2>0. PICK b \in BOOLEAN : b = ~deferred BY DEF Init
  <2>1. SameUser(InitialContext, ui) /\ (ui.login <=> b)
    BY <1>1, <2>0, StartContext, FieldFacts
  <2>2. QED BY <2>0, <2>1 DEF SameUser, InitialContext
<1>3. \A m \in Mounts : client[m] = NoClient /\ ~client[m].checking /\ client[m].life = "none"
                         /\ client[m].hash = Unknown /\ ~Live(m)
  BY DEF Init, NoClient, Live
<1>4. client \in [Mounts -> ClientType]
  <2>1. NoClient \in ClientType
    BY OverlayAssumption DEF NoClient, ClientType, Statuses, Unknown
  <2>2. QED BY <2>1 DEF Init
<1>5. Others
  <2>1. MaxSets \in Nat /\ MaxMoves \in Nat BY OverlayAssumption
  <2>2. deferred \in BOOLEAN /\ timers \subseteq Mounts /\ session \in BOOLEAN /\ closed \in BOOLEAN /\ asked \in BOOLEAN
       /\ ghost \subseteq {"status", "check"}
    BY DEF Init
  <2>3. stored \in Statuses /\ set \in 0..MaxSets /\ old \in 0..set /\ moves \in 0..MaxMoves
    BY <2>1 DEF Init, Statuses, Unknown
  <2>4. QED BY <2>2, <2>3 DEF Others
<1>6. OverlayTypeOK BY <1>2, <1>4, <1>5, TypeParts
<1>7. QED
  BY <1>2, <1>3, <1>6 DEF IInv, OneClient, StatusFollowsClient, HiddenMeansLoggedIn, CheckIsShown, Live

-----------------------------------------------------------------------------
(* A step that neither mounts a client nor tells it a status. *)
LEMMA ClientsKept ==
  ASSUME IInv, Others', UNCHANGED deferred, ui' \in Contexts, SameUser(ui, ui'),
         client' \in [Mounts -> ClientType],
         \A n \in Mounts : /\ client'[n].life = client[n].life /\ client'[n].hash = client[n].hash
                           /\ client[n].life = "none" => client'[n] = client[n]
                           /\ Live(n) /\ client'[n].checking /\ "check" \notin ghost'
                                => ui'.silent /\ ~ui'.error,
         "status" \in ghost => "status" \in ghost',
         ~ui'.login /\ ~deferred => ui'.loggedIn \/ closed'
  PROVE  IInv'
<1>1. OverlayTypeOK'
  <2>1. ui'.client # 0 => Live(ui.client)'
    BY OverlayAssumption DEF IInv, OverlayTypeOK, SameUser, Live, Contexts, Mounts
  <2>2. QED BY <2>1 DEF OverlayTypeOK, Others, ClientType
<1>2. OneClient' BY DEF IInv, OneClient, SameUser, Live
<1>3. StatusFollowsClient' BY DEF IInv, StatusFollowsClient, SameUser, Live
<1>4. HiddenMeansLoggedIn' BY DEF HiddenMeansLoggedIn
<1>5. CheckIsShown' BY DEF CheckIsShown, Live
<1>6. QED BY <1>1, <1>2, <1>3, <1>4, <1>5 DEF IInv

LEMMA OverlayNext == IInv /\ [Next]_vars => IInv'
<1>. SUFFICES ASSUME IInv, [Next]_vars PROVE IInv'
  OBVIOUS
<1>f. UNCHANGED deferred BY DEF Next, vars
<1>. USE <1>f
<1>d. client \in [Mounts -> ClientType] BY TypeParts DEF IInv
<1>0. /\ ui \in Contexts /\ client \in [Mounts -> ClientType] /\ Others
      /\ \A n \in Mounts : /\ client[n].life \in {"none", "live", "destroyed"}
                           /\ client[n].checking \in BOOLEAN /\ client[n].ticks \subseteq BOOLEAN
                           /\ client[n].hash \in Statuses
  BY TypeParts DEF IInv, ClientType
<1>a. \A n \in Mounts : Live(n) /\ client[n].checking /\ "check" \notin ghost => ui.silent /\ ~ui.error
  BY DEF IInv, CheckIsShown
<1>b. \A n \in Mounts : client[n].life = "none" => ~client[n].checking /\ client[n].hash = Unknown
  BY DEF IInv, OneClient, NoClient
<1>c. \A n \in Mounts : Live(n) => ui.client = n /\ client[n].life # "none"
  BY DEF IInv, OneClient, Live
<1>1. ASSUME NEW m \in Mounts, Mount(m) PROVE IInv'
  <2>1. /\ client[m] = NoClient /\ \A n \in Mounts : ~Live(n)
        /\ client' = [client EXCEPT ![m].life = "live", ![m].ticks = IF deferred THEN {} ELSE {FALSE}]
        /\ ui' = [ui EXCEPT !.client = m]
        /\ closed' = (closed /\ ~ui'.login) /\ asked' = (asked /\ ui'.login)
        /\ UNCHANGED <<timers, stored, World, ghost, moves>>
    BY <1>0, <1>a, <1>b, <1>c, <1>1 DEF Mount, Shows, IInv, OneClient
  <2>2. ui' \in Contexts /\ ui'.client = m /\ (ui'.login <=> ui.login) /\ (ui'.loggedIn <=> ui.loggedIn)
    <3>1. m \in 0..MaxMounts BY OverlayAssumption DEF Mounts
    <3>2. QED BY <1>0, <1>a, <1>b, <1>c, <2>1, <3>1 DEF Contexts
  <2>3. client' \in [Mounts -> ClientType]
    <3>1. (IF deferred THEN {} ELSE {FALSE}) \in SUBSET BOOLEAN OBVIOUS
    <3>2. QED BY <1>d, <2>1, <3>1, ClientSet
  <2>4. \A n \in Mounts : /\ n # m => client'[n] = client[n]
                          /\ client'[m].life = "live" /\ client'[m].hash = Unknown
                          /\ ~client'[m].checking
    BY <1>0, <1>a, <1>b, <1>c, <2>1, <2>3 DEF ClientType, NoClient
  <2>5. Others' BY <1>0, <1>a, <1>b, <1>c, <2>1 DEF Others, World
  <2>6. OverlayTypeOK' BY <2>2, <2>3, <2>4, <2>5 DEF OverlayTypeOK, Others, ClientType, Live
  <2>7. OneClient' BY <2>1, <2>2, <2>4 DEF OneClient, Live, IInv
  <2>8. StatusFollowsClient' BY <2>1, <2>4 DEF StatusFollowsClient, Live
  <2>9. HiddenMeansLoggedIn' BY <2>1, <2>2 DEF HiddenMeansLoggedIn, IInv
  <2>10. CheckIsShown' BY <2>1, <2>4 DEF CheckIsShown, Live
  <2>11. QED BY <2>6, <2>7, <2>8, <2>9, <2>10 DEF IInv
<1>2. ASSUME NEW m \in Mounts, Unmount(m) PROVE IInv'
  <2>. DEFINE d == [Aborted(client[m]) EXCEPT !.life = "destroyed"]
  <2>1. /\ Live(m) /\ client' = [client EXCEPT ![m] = d]
        /\ ui' = InitialContext /\ closed' = (closed /\ ~ui'.login) /\ asked' = (asked /\ ui'.login)
        /\ ghost' = ghost \ {"status"}
        /\ UNCHANGED <<timers, stored, World, moves>>
    BY <1>2 DEF Unmount, Shows
  <2>2. ui' \in Contexts /\ ui'.client = 0 /\ ui'.login
    BY <2>1, StartContext DEF InitialContext
  <2>a. d \in ClientType /\ d.life = "destroyed"
    <3>1. client[m] \in ClientType BY <1>d
    <3>2. Aborted(client[m]) \in ClientType BY <3>1, AbortedFacts DEF Quiet
    <3>3. QED BY <3>2 DEF ClientType
  <2>. HIDE DEF d
  <2>3. client' \in [Mounts -> ClientType] BY <1>d, <2>1, <2>a, Replaced
  <2>4. \A n \in Mounts : /\ n # m => client'[n] = client[n] /\ ~Live(n)
                          /\ client'[m].life = "destroyed"
    BY <1>c, <1>d, <2>1, <2>a, Replaced
  <2>5. Others' BY <1>0, <1>a, <1>b, <1>c, <2>1 DEF Others, World
  <2>6. OverlayTypeOK' BY <2>2, <2>3, <2>5 DEF OverlayTypeOK, Others, ClientType
  <2>7. OneClient' BY <2>1, <2>4 DEF OneClient, Live, IInv
  <2>8. StatusFollowsClient' BY <2>4 DEF StatusFollowsClient, Live
  <2>9. HiddenMeansLoggedIn' BY <2>2 DEF HiddenMeansLoggedIn
  <2>10. CheckIsShown' BY <2>4 DEF CheckIsShown, Live
  <2>11. QED BY <2>6, <2>7, <2>8, <2>9, <2>10 DEF IInv
<1>3. ASSUME NEW m \in Mounts, StartDeferred(m) PROVE IInv'
  <2>1. client' = [client EXCEPT ![m].ticks = @ \cup {FALSE}] /\ client[m].life = "live"
    BY <1>3 DEF StartDeferred, Live
  <2>2. client' \in [Mounts -> ClientType]
    <3>1. client[m] \in ClientType /\ client[m].ticks \cup {FALSE} \in SUBSET BOOLEAN BY <1>0
    <3>2. PICK d \in ClientType : d = [client[m] EXCEPT !.ticks = @ \cup {FALSE}]
      BY <3>1 DEF ClientType
    <3>3. client' = [client EXCEPT ![m] = d] BY <1>d, <2>1, <3>2
    <3>4. QED BY <1>d, <3>3, Replaced
  <2>3. Others' BY <1>0, <1>a, <1>b, <1>c, <1>3, OverlayAssumption DEF StartDeferred, Others, World
  <2>4. \A n \in Mounts : /\ n # m => client'[n] = client[n]
                          /\ client'[n].life = client[n].life /\ client'[n].hash = client[n].hash
                          /\ client'[n].checking <=> client[n].checking
    BY <1>0, <2>1, <2>2 DEF ClientType
  <2>5. ui' = ui /\ closed' = closed /\ ghost' = ghost BY <1>3 DEF StartDeferred
  <2>6. QED
    BY <1>0, <1>a, <1>b, <1>c, <2>1, <2>2, <2>3, <2>4, <2>5, ClientsKept DEF SameUser, IInv, HiddenMeansLoggedIn
<1>4. ASSUME NEW m \in Mounts, NEW force \in BOOLEAN, RunTick(m, force) PROVE IInv'
  <2>. DEFINE skip   == client[m].life = "destroyed" \/ (~force /\ AccessCurrent /\ client[m].hash # Unknown)
              again  == ~skip /\ ~force /\ ~AccessCurrent
              starts == ~skip /\ ~client[m].checking
              u      == IF again /\ ~RefreshCurrent THEN InvalidTokens(ui) ELSE ui
  <2>1. /\ client' = [client EXCEPT ![m].ticks = (@ \ {force}) \cup (IF again THEN {TRUE} ELSE {}),
                                    ![m].checking = @ \/ starts]
        /\ ui' = (IF starts THEN Started(u) ELSE u)
        /\ closed' = (closed /\ ~ui'.login) /\ asked' = (asked /\ ui'.login)
        /\ timers' \subseteq Mounts /\ ghost' = (IF starts THEN ghost \ {"check"} ELSE ghost)
        /\ UNCHANGED <<stored, World, moves>>
        /\ force \in client[m].ticks
    BY <1>0, <1>4 DEF RunTick, Reports, Shows, Others
  <2>2. client[m].life # "none" BY <1>0, <1>a, <1>b, <1>c, <2>1 DEF IInv, OneClient, NoClient
  <2>3. u \in Contexts /\ SameUser(ui, u) /\ SameCheck(ui, u) /\ (u.login \/ (u.login <=> ui.login))
    BY <1>0, <1>a, <1>b, <1>c, ReducerFacts DEF SameUser, SameCheck
  <2>4. SameUser(u, ui') /\ (ui'.login <=> u.login) /\ (starts => ui'.silent /\ ~ui'.error)
        /\ (~starts => ui' = u)
    BY <2>1, <2>3, ReducerFacts DEF SameUser
  <2>5. PICK t \in SUBSET BOOLEAN : t = (client[m].ticks \ {force}) \cup (IF again THEN {TRUE} ELSE {})
    BY <1>0, <1>a, <1>b, <1>c
  <2>6. PICK c \in BOOLEAN : c <=> client[m].checking \/ starts OBVIOUS
  <2>7. client' = [client EXCEPT ![m].ticks = t, ![m].checking = c]
    BY <1>0, <1>a, <1>b, <1>c, <2>1, <2>5, <2>6
  <2>8. HIDE DEF skip, again, starts, u
  <2>10. client' \in [Mounts -> ClientType]
    <3>1. t \in SUBSET BOOLEAN /\ c \in BOOLEAN OBVIOUS
    <3>2. [client EXCEPT ![m].ticks = t, ![m].checking = c] \in [Mounts -> ClientType]
      BY <1>d, <3>1, ClientSet
    <3>3. QED BY <2>7, <3>2, Zenon
  <2>11. \A n \in Mounts : /\ n # m => client'[n] = client[n]
                           /\ client'[n].life = client[n].life /\ client'[n].hash = client[n].hash
                           /\ client'[m].checking = c
    BY <1>0, <2>7, <2>10 DEF ClientType
  <2>12. ASSUME NEW n \in Mounts, Live(n), client'[n].checking, "check" \notin ghost'
         PROVE  ui'.silent /\ ~ui'.error
    <3>1. CASE starts BY <2>4, <3>1
    <3>2. CASE ~starts
      <4>1. client[n].checking /\ "check" \notin ghost BY <2>1, <2>6, <2>11, <2>12, <3>2
      <4>2. ui.silent /\ ~ui.error BY <1>a, <2>12, <4>1
      <4>3. QED BY <2>3, <2>4, <3>2, <4>2 DEF SameCheck
    <3>3. QED BY <3>1, <3>2
  <2>13. Others' BY <1>0, <2>1 DEF Others, World
  <2>14. SameUser(ui, ui') /\ ui' \in Contexts BY <2>3, <2>4 DEF SameUser
  <2>15. ~ui'.login /\ ~deferred => ui'.loggedIn \/ closed'
    BY <2>1, <2>3, <2>4, <2>14 DEF SameUser, IInv, HiddenMeansLoggedIn
  <2>17. "status" \in ghost => "status" \in ghost' BY <2>1
  <2>16. QED BY <2>2, <2>10, <2>11, <2>12, <2>13, <2>14, <2>15, <2>17, ClientsKept
<1>19. ASSUME NEW m \in Mounts, ExpirationFires(m) PROVE IInv'
  <2>. DEFINE starts == ~client[m].checking
  <2>1. /\ client[m].armed
        /\ client' = [client EXCEPT ![m].armed = FALSE, ![m].checking = TRUE]
        /\ ui' = (IF starts THEN Started(ui) ELSE ui)
        /\ closed' = (closed /\ ~ui'.login) /\ asked' = (asked /\ ui'.login)
        /\ timers' \subseteq Mounts /\ ghost' = (IF starts THEN ghost \ {"check"} ELSE ghost)
        /\ UNCHANGED <<stored, World, moves>>
    BY <1>0, <1>19 DEF ExpirationFires, Reports, Shows, Others
  <2>2. client[m].life # "none" BY <2>1 DEF IInv, OneClient, NoClient
  <2>3. client' \in [Mounts -> ClientType] BY <1>d, <2>1, ClientSet
  <2>4. \A n \in Mounts : /\ n # m => client'[n] = client[n]
                          /\ client'[n].life = client[n].life /\ client'[n].hash = client[n].hash
    BY <1>d, <2>1 DEF ClientType
  <2>5. SameUser(ui, ui') /\ ui' \in Contexts /\ (ui'.login <=> ui.login)
        /\ (starts => ui'.silent /\ ~ui'.error)
    BY <1>0, <2>1, ReducerFacts DEF SameUser
  <2>6. ASSUME NEW n \in Mounts, Live(n), client'[n].checking, "check" \notin ghost'
        PROVE  ui'.silent /\ ~ui'.error
    <3>1. CASE starts BY <2>5, <3>1
    <3>2. CASE ~starts
      <4>1. client[n].checking /\ "check" \notin ghost /\ ui' = ui BY <2>1, <2>4, <2>6, <3>2
      <4>2. QED BY <1>a, <2>6, <4>1
    <3>3. QED BY <3>1, <3>2
  <2>7. Others' BY <1>0, <2>1 DEF Others, World
  <2>8. ~ui'.login /\ ~deferred => ui'.loggedIn \/ closed'
    BY <2>1, <2>5 DEF SameUser, IInv, HiddenMeansLoggedIn
  <2>9. "status" \in ghost => "status" \in ghost' BY <2>1
  <2>10. QED BY <2>2, <2>3, <2>4, <2>5, <2>6, <2>7, <2>8, <2>9, ClientsKept
(* A status is stored, and told to the clients M, once a check has ended.  *)
<1>5. ASSUME NEW s \in 0..MaxSets, NEW M \in SUBSET Mounts, NEW f \in [Mounts -> ClientType],
             Store(s, M, f),
             \A n \in Mounts : /\ f[n].life = client[n].life /\ f[n].hash = client[n].hash
                               /\ client[n].life = "none" => f[n] = client[n]
                               /\ Live(n) /\ f[n].checking => client[n].checking
                               /\ n \in M => client[n].life # "none",
             (\A n \in M : ~Live(n)) \/ (\A n \in Mounts : Live(n) => n \in M),
             UNCHANGED <<session, old>>, set' \in 0..MaxSets, old <= set', moves' \in 0..MaxMoves
      PROVE  IInv'
  <2>. DEFINE news == {n \in M : client[n].hash # s}
  <2>1. PICK in \in BOOLEAN : in <=> s # 0 OBVIOUS
  <2>2. /\ stored' = s /\ ui' = (IF news = {} THEN ui ELSE Updated(ui, in))
        /\ client' = [n \in Mounts |-> IF n \in M THEN Heard(f[n], s)
                                       ELSE [f[n] EXCEPT !.passed = f[n].checking]]
        /\ closed' = (closed /\ ~ui'.login) /\ asked' = (asked /\ ui'.login) /\ timers' \subseteq timers
        /\ ghost' = (IF news = {} THEN ghost
                     ELSE IF \E n \in M : Live(n) THEN ghost \ {"status"} ELSE {"status", "check"})
    BY <1>5, <2>1 DEF Store, Shows
  <2>3. s \in Statuses /\ s # Unknown BY OverlayAssumption DEF Statuses, Unknown
  <2>5. ASSUME NEW n \in Mounts
        PROVE  /\ client'[n] \in ClientType /\ client'[n].life = client[n].life
               /\ n \in M => client'[n].hash = s /\ ~client'[n].checking
               /\ n \notin M => /\ client'[n].hash = client[n].hash
                                /\ client[n].life = "none" => client'[n] = client[n]
                                /\ client'[n].checking <=> f[n].checking
    <3>1. f[n] \in ClientType OBVIOUS
    <3>2. CASE n \in M
      <4>1. client'[n] = Heard(f[n], s) BY <2>2, <3>2
      <4>2. QED BY <1>5, <3>1, <3>2, <4>1, HeardFacts
    <3>3. CASE n \notin M
      <4>1. client'[n] = [f[n] EXCEPT !.passed = f[n].checking] BY <2>2, <3>3
      <4>2. /\ client'[n] \in ClientType /\ client'[n].life = f[n].life /\ client'[n].hash = f[n].hash
            /\ client'[n].checking <=> f[n].checking
        BY <3>1, <4>1 DEF ClientType
      <4>3. ASSUME client[n].life = "none" PROVE client'[n] = client[n]
        <5>1. f[n] = NoClient /\ client[n] = NoClient BY <1>5, <4>3 DEF IInv, OneClient
        <5>2. PICK c \in ClientType : c = f[n] /\ ~c.checking /\ ~c.passed
          BY <3>1, <5>1 DEF NoClient
        <5>3. [c EXCEPT !.passed = c.checking] = c BY <5>2 DEF ClientType
        <5>4. QED BY <4>1, <5>1, <5>2, <5>3
      <4>4. QED BY <1>5, <3>3, <4>2, <4>3
    <3>4. QED BY <3>2, <3>3
  <2>4. client' \in [Mounts -> ClientType]
    <3>1. client' = [n \in Mounts |-> client'[n]] BY <2>2
    <3>2. QED BY <2>5, <3>1
  <2>6. ui' \in Contexts /\ ui'.client = ui.client BY <1>0, <2>2, UpdatedFacts
  <2>7. Others'
    <3>1. timers' \subseteq Mounts /\ stored' \in Statuses BY <1>0, <2>2, <2>3 DEF Others
    <3>2. session' \in BOOLEAN /\ closed' \in BOOLEAN /\ asked' \in BOOLEAN
      BY <1>0, <1>5, <2>2 DEF Others
    <3>3. old' \in 0..set' BY <1>0, <1>5, OverlayAssumption DEF Others
    <3>4. ghost' \subseteq {"status", "check"} BY <1>0, <2>2 DEF Others
    <3>5. QED BY <1>0, <1>5, <3>1, <3>2, <3>3, <3>4 DEF Others
  <2>8. OverlayTypeOK'
    <3>1. ui'.client # 0 => Live(ui.client)'
      BY <2>5, <2>6, OverlayAssumption DEF IInv, OverlayTypeOK, Live, Contexts, Mounts
    <3>2. QED BY <2>4, <2>6, <2>7, <3>1 DEF OverlayTypeOK, Others, ClientType
  <2>9. OneClient' BY <1>5, <2>5, <2>6 DEF IInv, OneClient, Live
  <2>10. StatusFollowsClient'
    <3>1. CASE news = {}
      <4>1. ui' = ui /\ ghost' = ghost /\ \A n \in Mounts : client'[n].hash = client[n].hash
        BY <2>2, <2>5, <3>1
      <4>2. QED BY <2>5, <4>1 DEF IInv, StatusFollowsClient, Live
    <3>2. CASE news # {}
      <4>1. (ui'.loggedIn <=> s # 0) /\ (ui'.must <=> ~ui'.loggedIn)
        BY <1>0, <2>1, <2>2, <3>2, UpdatedFacts
      <4>2. CASE \A n \in M : ~Live(n)
        <5>1. "status" \in ghost' BY <2>2, <3>2, <4>2
        <5>2. QED BY <4>1, <5>1 DEF StatusFollowsClient
      <4>3. CASE \A n \in Mounts : Live(n) => n \in M
        BY <2>5, <4>1, <4>3 DEF StatusFollowsClient, Live
      <4>4. QED BY <1>5, <4>2, <4>3
    <3>3. QED BY <3>1, <3>2
  <2>11. HiddenMeansLoggedIn'
    <3>1. CASE news = {} BY <2>2, <3>1 DEF IInv, HiddenMeansLoggedIn
    <3>2. CASE news # {} BY <1>0, <2>2, <3>2, UpdatedFacts DEF HiddenMeansLoggedIn
    <3>3. QED BY <3>1, <3>2
  <2>12. CheckIsShown'
    <3>. SUFFICES ASSUME NEW n \in Mounts, Live(n)', client'[n].checking, "check" \notin ghost'
                  PROVE  ui'.silent /\ ~ui'.error
      BY DEF CheckIsShown
    <3>1. Live(n) /\ n \notin M /\ client[n].checking BY <1>5, <2>5 DEF Live
    <3>2. \A k \in M : ~Live(k) BY <1>5, <3>1
    <3>3. news = {} BY <2>2, <3>2
    <3>4. QED BY <1>a, <2>2, <3>1, <3>3
  <2>13. QED BY <2>8, <2>9, <2>10, <2>11, <2>12 DEF IInv
<1>6. \A t \in Answers : t \in 0..MaxSets
  BY <1>0, <1>a, <1>b, <1>c, OverlayAssumption DEF Answers, Others
(* The steps that leave the checks as they are, or end some, and store nothing. *)
<1>10. ASSUME \A n \in Mounts : /\ client'[n].life = client[n].life /\ client'[n].hash = client[n].hash
                                /\ Live(n) /\ client'[n].checking => client[n].checking
                                /\ client[n].life = "none" => client'[n] = client[n],
              client' \in [Mounts -> ClientType],
              SameUser(ui, ui'), ui' \in Contexts, Others', ghost \subseteq ghost',
              SameCheck(ui, ui') \/ "check" \in ghost' \/ \A n \in Mounts : Live(n) => ~client'[n].checking,
              \/ (ui'.login <=> ui.login) /\ (closed' <=> closed /\ ~ui'.login)
              \/ ui'.login \/ closed'
              \/ UNCHANGED <<ui, closed>>
       PROVE  IInv'
  <2>1. ASSUME NEW n \in Mounts, Live(n), client'[n].checking, "check" \notin ghost'
        PROVE  ui'.silent /\ ~ui'.error
    <3>1. client[n].checking /\ "check" \notin ghost BY <1>10, <2>1
    <3>2. ui.silent /\ ~ui.error BY <1>a, <2>1, <3>1
    <3>3. SameCheck(ui, ui') BY <1>10, <2>1
    <3>4. QED BY <3>2, <3>3 DEF SameCheck
  <2>2. ~ui'.login /\ ~deferred => ui'.loggedIn \/ closed'
    BY <1>10 DEF SameUser, IInv, HiddenMeansLoggedIn
  <2>3. \A n \in Mounts : /\ client'[n].life = client[n].life /\ client'[n].hash = client[n].hash
                          /\ client[n].life = "none" => client'[n] = client[n]
                          /\ Live(n) /\ client'[n].checking /\ "check" \notin ghost'
                               => ui'.silent /\ ~ui'.error
    BY <1>10, <2>1
  <2>4. QED BY <1>10, <2>2, <2>3, ClientsKept
(* A check of the client m ends. *)
<1>7. ASSUME NEW m \in Mounts, NEW own \in BOOLEAN, Ends(m, own)
      PROVE  LET f == [client EXCEPT ![m] = Ended(@, own)]
             IN  /\ f \in [Mounts -> ClientType] /\ client[m].life # "none"
                 /\ \A n \in Mounts : /\ f[n].life = client[n].life /\ f[n].hash = client[n].hash
                                      /\ client[n].life = "none" => f[n] = client[n]
                                      /\ Live(n) /\ f[n].checking => client[n].checking
                 /\ ~f[m].checking
  <2>1. client[m] \in ClientType BY <1>d
  <2>2. ~own => client[m].loose > 0 BY <1>7 DEF Ends
  <2>3. Quiet(client[m], Ended(client[m], own)) BY <2>1, <2>2, EndedFacts
  <2>4. client[m].life # "none" BY <1>7 DEF Ends, IInv, OneClient, NoClient
  <2>5. PICK d \in ClientType : d = Ended(client[m], own) BY <2>3 DEF Quiet
  <2>6. QED BY <1>d, <2>3, <2>4, <2>5, Replaced DEF Quiet
<1>20. ASSUME NEW m \in Mounts, CheckAnswered(m) PROVE IInv'
  <2>1. PICK own \in BOOLEAN, s \in Answers :
          /\ Ends(m, own) /\ set' = (IF s = 0 THEN set ELSE s)
          /\ LET f == [client EXCEPT ![m] = Ended(@, own)] IN
             \/ Store(s, {m}, f)
             \/ client' = f /\ UNCHANGED <<ui, timers, stored, closed, asked, ghost>>
    BY <1>20 DEF CheckAnswered
  <2>2. UNCHANGED <<session, old, moves>> BY <1>20 DEF CheckAnswered
  <2>3. PICK f \in [Mounts -> ClientType] :
          /\ f = [client EXCEPT ![m] = Ended(@, own)] /\ client[m].life # "none" /\ ~f[m].checking
          /\ \A n \in Mounts : /\ f[n].life = client[n].life /\ f[n].hash = client[n].hash
                               /\ client[n].life = "none" => f[n] = client[n]
                               /\ Live(n) /\ f[n].checking => client[n].checking
    BY <1>7, <2>1
  <2>4. set' \in 0..MaxSets /\ old <= set' /\ moves' \in 0..MaxMoves
    BY <1>0, <1>6, <2>1, <2>2, OverlayAssumption DEF Others, Answers
  <2>5. CASE Store(s, {m}, f)
    <3>1. (\A n \in {m} : ~Live(n)) \/ (\A n \in Mounts : Live(n) => n \in {m}) BY <1>c
    <3>2. s \in 0..MaxSets /\ {m} \in SUBSET Mounts BY <1>6
    <3>3. \A n \in Mounts : /\ f[n].life = client[n].life /\ f[n].hash = client[n].hash
                            /\ client[n].life = "none" => f[n] = client[n]
                            /\ Live(n) /\ f[n].checking => client[n].checking
                            /\ n \in {m} => client[n].life # "none"
      BY <2>3
    <3>4. UNCHANGED <<session, old>> BY <2>2
    <3>5. set' \in 0..MaxSets /\ old <= set' /\ moves' \in 0..MaxMoves BY <2>4
    <3>6. QED BY <1>5, <2>5, <3>1, <3>2, <3>3, <3>4, <3>5
  <2>6. CASE client' = f /\ UNCHANGED <<ui, timers, stored, closed, asked, ghost>>
    <3>1. Others' BY <1>0, <2>2, <2>4, <2>6, OverlayAssumption DEF Others
    <3>2. SameUser(ui, ui') /\ SameCheck(ui, ui') BY <1>0, <2>6 DEF SameUser, SameCheck
    <3>3. ui' \in Contexts /\ ghost \subseteq ghost' /\ UNCHANGED <<ui, closed>> BY <1>0, <2>6
    <3>4. \A n \in Mounts : /\ client'[n].life = client[n].life /\ client'[n].hash = client[n].hash
                            /\ Live(n) /\ client'[n].checking => client[n].checking
                            /\ client[n].life = "none" => client'[n] = client[n]
      BY <2>3, <2>6
    <3>5. client' \in [Mounts -> ClientType] BY <2>3, <2>6
    <3>6. QED BY <1>10, <3>1, <3>2, <3>3, <3>4, <3>5
  <2>7. QED BY <2>1, <2>3, <2>5, <2>6
<1>8. CASE OtherTabStores
  <2>. DEFINE M == {m \in Mounts : client[m].life # "none"}
  <2>1. PICK s \in Answers : set' = (IF s = 0 THEN set ELSE s) /\ Store(s, M, client)
    BY <1>8 DEF OtherTabStores
  <2>2. \A n \in Mounts : /\ Live(n) => n \in M
                          /\ n \in M => client[n].life # "none"
    BY DEF Live
  <2>3. set' \in 0..MaxSets /\ old <= set'
    BY <1>0, <1>6, <2>1, OverlayAssumption DEF Others, Answers
  <2>4. moves' \in 0..MaxMoves /\ UNCHANGED <<session, old>>
    BY <1>0, <1>8, OverlayAssumption DEF OtherTabStores, Others
  <2>5. s \in 0..MaxSets /\ M \in SUBSET Mounts BY <1>6
  <2>. HIDE DEF M
  <2>6. QED BY <1>5, <1>d, <2>1, <2>2, <2>3, <2>4, <2>5
<1>9. ASSUME NEW m \in Mounts, CheckFails(m) PROVE IInv'
  <2>1. PICK own \in BOOLEAN : Ends(m, own) /\ client' = [client EXCEPT ![m] = Ended(@, own)]
    BY <1>9 DEF CheckFails
  <2>2. /\ ui' = LoginError(ui) /\ timers' = timers \ {m}
        /\ closed' = (closed /\ ~ui'.login) /\ asked' = (asked /\ ui'.login)
        /\ ghost' = (IF Live(m) THEN ghost ELSE ghost \cup {"check"})
        /\ UNCHANGED <<stored, World, moves>>
    BY <1>9 DEF CheckFails, Shows
  <2>3. /\ client' \in [Mounts -> ClientType] /\ ~client'[m].checking
        /\ \A n \in Mounts : /\ client'[n].life = client[n].life /\ client'[n].hash = client[n].hash
                             /\ client[n].life = "none" => client'[n] = client[n]
                             /\ Live(n) /\ client'[n].checking => client[n].checking
    BY <1>7, <2>1
  <2>4. SameUser(ui, ui') /\ (ui'.login <=> ui.login) /\ ui' \in Contexts
    BY <1>0, <2>2, ReducerFacts DEF SameUser
  <2>5. Others' BY <1>0, <2>2 DEF Others, World
  <2>6. "check" \in ghost' \/ \A n \in Mounts : Live(n) => ~client'[n].checking
    BY <1>c, <2>2, <2>3
  <2>7. ghost \subseteq ghost' /\ client' \in [Mounts -> ClientType] BY <2>2, <2>3
  <2>8. \A n \in Mounts : /\ client'[n].life = client[n].life /\ client'[n].hash = client[n].hash
                          /\ Live(n) /\ client'[n].checking => client[n].checking
                          /\ client[n].life = "none" => client'[n] = client[n]
    BY <2>3
  <2>9. QED BY <1>10, <2>2, <2>4, <2>5, <2>6, <2>7, <2>8
<1>e. SameUser(ui, ui) /\ SameCheck(ui, ui)
  BY <1>0 DEF SameUser, SameCheck
<1>11. CASE OtherTabClears \/ AccessExpires \/ SessionChanges \/ UNCHANGED vars
  <2>1. UNCHANGED <<ui, client, closed, asked, ghost>>
    BY <1>11 DEF OtherTabClears, AccessExpires, SessionChanges, vars
  <2>2. Others'
    <3>1. CASE OtherTabClears
      <4>1. Unknown \in Statuses BY OverlayAssumption DEF Statuses, Unknown
      <4>2. QED BY <1>0, <3>1, <4>1, OverlayAssumption DEF OtherTabClears, World, Others
    <3>2. CASE AccessExpires
      BY <1>0, <3>2, OverlayAssumption DEF AccessExpires, Others
    <3>3. CASE SessionChanges
      <4>1. session' \in BOOLEAN BY <3>3 DEF SessionChanges
      <4>2. moves' \in 0..MaxMoves BY <1>0, <3>3, OverlayAssumption DEF SessionChanges, Others
      <4>3. QED BY <1>0, <3>3, <4>1, <4>2 DEF SessionChanges, Others
    <3>4. CASE UNCHANGED vars BY <1>0, <3>4 DEF vars, Others
    <3>5. QED BY <1>11, <3>1, <3>2, <3>3, <3>4
  <2>3. QED BY <1>0, <1>e, <1>10, <2>1, <2>2
<1>12. CASE Focus
  <2>1. /\ client' = [n \in Mounts |-> IF client[n].life = "none" THEN client[n]
                                       ELSE [client[n] EXCEPT !.ticks = @ \cup {TRUE}]]
        /\ ui' = (IF RefreshCurrent THEN ui ELSE InvalidTokens(ui))
        /\ closed' = (closed /\ ~ui'.login) /\ asked' = (asked /\ ui'.login)
        /\ moves < MaxMoves /\ moves' = moves + 1 /\ UNCHANGED <<timers, stored, World, ghost>>
    BY <1>12 DEF Focus, Shows
  <2>2. ASSUME NEW n \in Mounts
        PROVE  /\ client'[n].life = client[n].life /\ client'[n].hash = client[n].hash
               /\ client'[n].checking => client[n].checking
               /\ client[n].life = "none" => client'[n] = client[n]
               /\ client'[n] \in ClientType
    BY <1>d, <2>1 DEF ClientType
  <2>3. client' \in [Mounts -> ClientType]
    <3>1. client' = [n \in Mounts |-> client'[n]] BY <2>1
    <3>2. QED BY <2>2, <3>1
  <2>4. SameUser(ui, ui') /\ SameCheck(ui, ui') /\ (ui'.login \/ ui' = ui)
    BY <1>0, <1>e, <2>1, ReducerFacts
  <2>5. ui' \in Contexts BY <2>4 DEF SameUser
  <2>6. Others' BY <1>0, <2>1, OverlayAssumption DEF Others, World
  <2>7. QED BY <1>10, <2>1, <2>2, <2>3, <2>4, <2>5, <2>6
<1>13. ASSUME NEW m \in Mounts, LengthyLogin(m) PROVE IInv'
  <2>1. /\ ui' = [ui EXCEPT !.lengthy = TRUE] /\ timers' = timers \ {m}
        /\ closed' = (closed /\ ~ui'.login) /\ asked' = (asked /\ ui'.login)
        /\ UNCHANGED <<client, stored, World, ghost, moves>>
    BY <1>13 DEF LengthyLogin, Shows
  <2>2. SameUser(ui, ui') /\ SameCheck(ui, ui') /\ (ui'.login <=> ui.login)
    BY <1>0, <2>1, FieldFacts
  <2>3. ui' \in Contexts BY <2>2 DEF SameUser
  <2>4. Others' BY <1>0, <2>1 DEF Others, World
  <2>5. QED BY <1>d, <1>10, <2>1, <2>2, <2>3, <2>4
(* The check of the context's client is aborted. *)
<1>14. ASSUME ui.client # 0, NEW d, Quiet(client[ui.client], d), client' = [client EXCEPT ![ui.client] = d]
       PROVE  /\ client' \in [Mounts -> ClientType]
              /\ \A n \in Mounts : /\ client'[n].life = client[n].life /\ client'[n].hash = client[n].hash
                                   /\ Live(n) => ~client'[n].checking
                                   /\ client[n].life = "none" => client'[n] = client[n]
  <2>1. ui.client \in Mounts /\ Live(ui.client)
    BY <1>0, <1>14, OverlayAssumption DEF Contexts, Mounts, IInv, OverlayTypeOK
  <2>2. QED BY <1>c, <1>d, <1>14, <2>1, Replaced DEF Quiet, Live
<1>15. CASE Close
  <2>1. /\ client' = AbortOf(ui.client) /\ ui' = HideDialog(ui) /\ closed' = TRUE /\ asked' = FALSE
        /\ UNCHANGED <<timers, stored, World, ghost, moves>>
    BY <1>15 DEF Close
  <2>2. SameUser(ui, ui') BY <1>0, <2>1, ReducerFacts
  <2>3. ui' \in Contexts BY <2>2 DEF SameUser
  <2>4. Others' BY <1>0, <2>1 DEF Others, World
  <2>5. CASE ui.client = 0
    <3>1. client' = client BY <2>1, <2>5 DEF AbortOf
    <3>2. \A n \in Mounts : ~Live(n) BY <1>c, <2>5, OverlayAssumption DEF Mounts
    <3>3. QED BY <1>d, <1>10, <2>1, <2>2, <2>3, <2>4, <3>1, <3>2
  <2>6. CASE ui.client # 0
    <3>1. ui.client \in Mounts BY <1>0, <2>6, OverlayAssumption DEF Contexts, Mounts
    <3>2. client[ui.client] \in ClientType BY <1>d, <3>1
    <3>3. Quiet(client[ui.client], Aborted(client[ui.client])) BY <3>2, AbortedFacts
    <3>4. client' = [client EXCEPT ![ui.client] = Aborted(client[ui.client])] BY <2>1, <2>6 DEF AbortOf
    <3>5. QED BY <1>10, <1>14, <2>1, <2>2, <2>3, <2>4, <2>6, <3>3, <3>4
  <2>7. QED BY <2>5, <2>6
<1>16. CASE HandleLogin
  <2>1. /\ client' = [client EXCEPT ![ui.client] = InNewWindow(client[ui.client])] /\ asked' = TRUE
        /\ ui.client # 0 /\ moves < MaxMoves /\ moves' = moves + 1
        /\ UNCHANGED <<ui, timers, stored, World, closed, ghost>>
    BY <1>16 DEF HandleLogin
  <2>2. Others' BY <1>0, <2>1, OverlayAssumption DEF Others, World
  <2>3. ui.client \in Mounts BY <1>0, <2>1, OverlayAssumption DEF Contexts, Mounts
  <2>4. Quiet(client[ui.client], InNewWindow(client[ui.client]))
    <3>1. client[ui.client] \in ClientType BY <1>d, <2>3
    <3>2. PICK c \in ClientType : c = Aborted(client[ui.client]) /\ Quiet(client[ui.client], c)
      BY <3>1, AbortedFacts DEF Quiet
    <3>3. InNewWindow(client[ui.client]) = [c EXCEPT !.loose = @ + 1] BY <3>2 DEF InNewWindow
    <3>4. QED BY <3>2, <3>3 DEF ClientType, Quiet
  <2>5. QED BY <1>0, <1>e, <1>10, <1>14, <2>1, <2>2, <2>4
<1>17. CASE ShowDialog
  <2>1. /\ \/ ui' = [ui EXCEPT !.login = TRUE] /\ closed' = FALSE /\ asked' = TRUE
           \/ /\ ui' = [ui EXCEPT !.logout = TRUE]
              /\ closed' = (closed /\ ~ui'.login) /\ asked' = (asked /\ ui'.login)
        /\ moves < MaxMoves /\ moves' = moves + 1 /\ UNCHANGED <<client, timers, stored, World, ghost>>
    BY <1>17 DEF ShowDialog, Shows
  <2>2. SameUser(ui, ui') /\ SameCheck(ui, ui')
        /\ (ui'.login \/ ((ui'.login <=> ui.login) /\ closed' = (closed /\ ~ui'.login)))
    <3>1. CASE ui' = [ui EXCEPT !.login = TRUE] BY <1>0, <3>1, FieldFacts
    <3>2. CASE ui' = [ui EXCEPT !.logout = TRUE] /\ closed' = (closed /\ ~ui'.login)
      BY <1>0, <3>2, FieldFacts
    <3>3. QED BY <2>1, <3>1, <3>2
  <2>3. ui' \in Contexts BY <2>2 DEF SameUser
  <2>4. Others'
    <3>1. closed' \in BOOLEAN /\ asked' \in BOOLEAN BY <1>0, <2>1 DEF Others
    <3>2. moves' \in 0..MaxMoves BY <1>0, <2>1, OverlayAssumption DEF Others
    <3>3. QED BY <1>0, <2>1, <3>1, <3>2 DEF Others, World
  <2>5. QED BY <1>d, <1>10, <2>1, <2>2, <2>3, <2>4
<1>18. QED
  BY <1>1, <1>2, <1>3, <1>4, <1>8, <1>9, <1>11, <1>12, <1>13, <1>15, <1>16, <1>17, <1>19, <1>20 DEF Next, Step

LEMMA OverlayInvariant == Spec => []IInv
BY OverlayInit, OverlayNext, PTL DEF Spec

(* Every state is well typed, and the context's client is mounted. *)
THEOREM Typing == Spec => []OverlayTypeOK
BY OverlayInvariant, PTL DEF IInv

(* For any number of mounts: what the dialogs say of the user is what the  *)
(* mounted client last heard, unless a destroyed client's own check was    *)
(* the last to report a status.                                            *)
THEOREM StatusIsShown == Spec => []StatusFollowsClient
BY OverlayInvariant, PTL DEF IInv

(* The dialog is hidden from a user who is not logged in only by the       *)
(* user's own close, unless the start is deferred.                         *)
THEOREM HiddenFromWhom == Spec => []HiddenMeansLoggedIn
BY OverlayInvariant, PTL DEF IInv

(* While the mounted client checks, the dialog shows it and no error of an *)
(* earlier check, unless a destroyed client reports meanwhile.             *)
THEOREM CheckIsSeen == Spec => []CheckIsShown
BY OverlayInvariant, PTL DEF IInv
=============================================================================
