------------------------- MODULE FrontendClient_proofs -------------------------
(***************************************************************************)
(* Theorems about FrontendClient.  The client's methods are functions of   *)
(* the state of one tab, so there is a lemma about each of them, and then  *)
(* one for each action.                                                    *)
(***************************************************************************)
EXTENDS FrontendClient, TLAPS

Statuses == [md5 : 0..MaxSets, stamp : Stamps]
Logins   == {"LOGIN_SUCCESS", "LOGIN_REQUIRED"}
Messages == [event : Logins \cup {"CHILD_ALIVE", "LISTENER_ALIVE"}, data : Statuses]

(* The checks between two handlers, and within one. *)
Settled == Frames \cup {"new", "fetching", "parsing", "gone"}
Within  == Settled \cup {"aborted"}

Pages == [hash : 0..NoHash, checking : BOOLEAN, destroyed : BOOLEAN, ticks : SUBSET BOOLEAN,
          control : Slots \cup {None}, awake : BOOLEAN, timers : SUBSET Slots,
          timer : Slots \cup {None}, armed : BOOLEAN, watch : 0..MaxSets, events : Nat,
          listener : {"off", "initiated", "awake"}, leaving : {"no", "login", "logout"},
          inbox : Seq(Messages), check : [Slots -> Within], answer : [Slots -> Statuses],
          aborted : SUBSET Slots]

Resting == {x \in Pages : x.check \in [Slots -> Settled]}

Typed ==
  /\ stored \in Statuses /\ highest \in Stamps /\ cleared \in BOOLEAN /\ clock \in Stamps
  /\ session \in BOOLEAN /\ set \in 0..MaxSets /\ old \in 0..set
  /\ faults \in 0..MaxFaults /\ moves \in 0..MaxMoves
  /\ tab \in [Tabs -> Resting]

(* Something is under way that resets the flag of x, or its silent login   *)
(* has failed at the server.                                               *)
Working == {"fetching", "parsing", "frame", "mute", "alive", "failed"}

Busy(x) == \/ \E c \in Slots : x.check[c] \in Working
           \/ \E i \in 1..Len(x.inbox) : x.inbox[i].event \in Logins

Flag(x) == x.checking => Busy(x)

(* x shows s, unless it has news to come. *)
Shows(x, s) == x.events = 0 /\ x.leaving = "no" /\ HasStatus(s) /\ x.hash # NoHash => x.hash = s.md5

Good(x, s) == x \in Pages /\ Flag(x) /\ Shows(x, s)

ClientInv == /\ Typed /\ OldStatusOnlyAfterClear
             /\ \A t \in Tabs : Flag(tab[t]) /\ Shows(tab[t], stored)

(* The parts of x that y keeps. *)
Kept(x, y) == y.events = x.events /\ y.leaving = x.leaving /\ y.inbox = x.inbox

LEMMA Constants ==
  /\ MaxStamp \in Nat /\ MaxSets \in Nat /\ MaxFaults \in Nat /\ MaxMoves \in Nat
  /\ NoHash = MaxSets + 1 /\ Fast \in BOOLEAN /\ None \notin Slots
BY ClientAssumption DEF NoHash

-----------------------------------------------------------------------------
(* The client's methods. *)
LEMMA RemoveFramesFacts ==
  ASSUME NEW x \in Pages
  PROVE  /\ RemoveFrames(x) \in Pages /\ Kept(x, RemoveFrames(x))
         /\ RemoveFrames(x).hash = x.hash /\ RemoveFrames(x).checking = x.checking
         /\ \A c \in Slots : RemoveFrames(x).check[c] = IF x.check[c] \in Frames THEN "gone" ELSE x.check[c]
<1>1. [c \in Slots |-> IF x.check[c] \in Frames THEN "gone" ELSE x.check[c]] \in [Slots -> Within]
  BY DEF Pages, Within, Settled
<1>2. QED  BY <1>1 DEF RemoveFrames, Pages, Kept

LEMMA AbortFacts ==
  ASSUME NEW x \in Pages
  PROVE  /\ Abort(x) \in Pages /\ Kept(x, Abort(x))
         /\ Abort(x).hash = x.hash /\ Abort(x).checking = FALSE
<1> DEFINE y == [RemoveFrames(x) EXCEPT !.checking = FALSE, !.aborted = @ \cup Running(x)]
<1>1. y \in Pages /\ Kept(x, y) /\ y.hash = x.hash /\ y.checking = FALSE
  BY RemoveFramesFacts DEF Pages, Kept, Running
<1>2. ASSUME y.control # None
      PROVE  LET z == [y EXCEPT !.check[y.control] = "aborted"]
             IN z \in Pages /\ Kept(x, z) /\ z.hash = x.hash /\ z.checking = FALSE
  <2>1. y.control \in Slots
    BY <1>1, <1>2 DEF Pages
  <2>2. QED  BY <1>1, <2>1 DEF Pages, Kept, Within
<1>3. QED  BY <1>1, <1>2 DEF Abort

LEMMA MicrotasksFacts ==
  ASSUME NEW x \in Pages
  PROVE  /\ Microtasks(x) \in Resting /\ Kept(x, Microtasks(x))
         /\ Microtasks(x).hash = x.hash /\ Microtasks(x).checking = x.checking
         /\ \A c \in Slots : x.check[c] # "aborted" => Microtasks(x).check[c] = x.check[c]
<1> DEFINE went == {c \in Slots : x.check[c] = "aborted"}
<1>1. CASE went = {}
  <2>1. x.check \in [Slots -> Settled]
    BY <1>1 DEF Pages, Within
  <2>2. QED  BY <1>1, <2>1 DEF Microtasks, Resting, Kept
<1>2. CASE went # {}
  <2> DEFINE f == [c \in Slots |-> IF c \in went THEN "frame" ELSE x.check[c]]
  <2>1. f \in [Slots -> Settled] /\ f \in [Slots -> Within]
    BY DEF Pages, Within, Settled, Frames
  <2>2. Microtasks(x) = [x EXCEPT !.check = f, !.awake = FALSE]
    BY <1>2 DEF Microtasks, Pages
  <2>3. \A c \in Slots : x.check[c] # "aborted" => f[c] = x.check[c]
    OBVIOUS
  <2> HIDE DEF f
  <2>4. QED  BY <2>1, <2>2, <2>3 DEF Pages, Resting, Kept
<1>3. QED  BY <1>1, <1>2

LEMMA ArmFacts ==
  ASSUME NEW x \in Pages, NEW s \in Statuses
  PROVE  /\ Arm(x, s) \in Pages /\ Kept(x, Arm(x, s))
         /\ Arm(x, s).hash = x.hash /\ Arm(x, s).checking = x.checking
BY DEF Arm, Pages, Statuses, Kept

LEMMA UpdatedFacts ==
  ASSUME NEW x \in Pages, NEW s \in Statuses
  PROVE  /\ Updated(x, s) \in Pages /\ Kept(x, Updated(x, s))
         /\ HasStatus(s) => Updated(x, s).hash = s.md5 /\ Updated(x, s).checking = FALSE
         /\ ~HasStatus(s) => Updated(x, s) = x
<1>1. CASE ~HasStatus(s)
  BY <1>1 DEF Updated, Kept
<1>2. CASE HasStatus(s) /\ x.hash = s.md5
  BY <1>2, AbortFacts DEF Updated
<1>3. CASE HasStatus(s) /\ x.hash # s.md5
  <2>0. PICK w \in Pages : w = Abort(x) /\ Kept(x, w) /\ w.checking = FALSE
    BY AbortFacts
  <2>1. PICK y \in Pages : y = Arm(w, s) /\ Kept(x, y) /\ y.checking = FALSE
    BY <2>0, ArmFacts DEF Kept
  <2>2. Updated(x, s) = [y EXCEPT !.hash = s.md5]
    BY <1>3, <2>0, <2>1 DEF Updated
  <2>3. s.md5 \in 0..NoHash
    BY Constants DEF Statuses
  <2>4. QED  BY <1>3, <2>1, <2>2, <2>3 DEF Pages, Kept
<1>4. QED  BY <1>1, <1>2, <1>3

LEMMA LoginErrorFacts ==
  ASSUME NEW x \in Pages
  PROVE  /\ LoginError(x) \in Pages /\ Kept(x, LoginError(x))
         /\ LoginError(x).hash = x.hash /\ LoginError(x).checking = FALSE
<1>1. PICK y \in Pages : y = RemoveFrames(x) /\ Kept(x, y) /\ y.hash = x.hash
  BY RemoveFramesFacts
<1>2. LoginError(x) = [y EXCEPT !.checking = FALSE]
  BY <1>1 DEF LoginError
<1>3. QED  BY <1>1, <1>2 DEF Pages, Kept

LEMMA StoreFacts ==
  ASSUME Typed, NEW x \in Pages, NEW s \in Statuses
  PROVE  /\ StoreUserStatus(x, s) \in Pages /\ Kept(x, StoreUserStatus(x, s))
         /\ MoreRecent(s) => StoreUserStatus(x, s).hash = s.md5 /\ HasStatus(s)
         /\ ~MoreRecent(s) => StoreUserStatus(x, s) = x
<1>1. MoreRecent(s) => HasStatus(s)
  BY Constants DEF Typed, MoreRecent, HasStatus, Statuses, Stamps
<1>2. QED  BY <1>1, UpdatedFacts DEF StoreUserStatus, Kept

(* A status that is newer than the stored one keeps a tab good. *)
LEMMA UpdatedGood ==
  ASSUME NEW x \in Pages, NEW s \in Statuses, Flag(x), Shows(x, s) \/ HasStatus(s)
  PROVE  Good(Updated(x, s), s)
<1>1. PICK y \in Pages : /\ y = Updated(x, s)
                         /\ HasStatus(s) => y.hash = s.md5 /\ y.checking = FALSE
                         /\ ~HasStatus(s) => y = x
  BY UpdatedFacts
<1>2. QED  BY <1>1 DEF Good, Flag, Shows

LEMMA NoWaitGood ==
  ASSUME Typed, NEW x \in Pages, Flag(x), Shows(x, stored)
  PROVE  Good(AuthCheckNoWait(x), stored)
<1>1. PICK y \in Pages : y = Updated(x, stored) /\ Flag(y) /\ Shows(y, stored)
  BY UpdatedGood DEF Typed, Good
<1>2. ASSUME NEW z \in Pages, Flag(z), Shows(z, stored)
      PROVE  Good([z EXCEPT !.ticks = @ \cup {TRUE}], stored)
  BY <1>2 DEF Pages, Good, Flag, Busy, Shows
<1>3. QED  BY <1>1, <1>2 DEF AuthCheckNoWait, Good

LEMMA BeginGood ==
  ASSUME Typed, NEW x \in Pages, NEW c \in Slots, Shows(x, stored)
  PROVE  Good(Begin(x, c), stored)
<1> DEFINE y == [x EXCEPT !.checking = TRUE]
           z == [y EXCEPT !.check[c] = "fetching", !.control = c]
           w == [y EXCEPT !.check[c] = "frame", !.awake = FALSE]
<1>1. y \in Pages /\ y.hash = x.hash /\ Kept(x, y)
  BY DEF Pages, Kept
<1>2. /\ z \in Pages /\ z.hash = x.hash /\ Kept(x, z) /\ z.check[c] = "fetching"
  BY <1>1 DEF Pages, Kept, Within, Settled
<1>3. /\ w \in Pages /\ w.hash = x.hash /\ Kept(x, w) /\ w.check[c] = "frame"
  BY <1>1 DEF Pages, Kept, Within, Settled, Frames
<1>4. PICK v \in Pages : /\ v = Begin(x, c) /\ v.hash = x.hash /\ Kept(x, v)
                         /\ v.check[c] \in {"fetching", "frame"}
  BY <1>2, <1>3 DEF Begin, SilentLogin
<1>5. QED  BY <1>4 DEF Good, Flag, Busy, Shows, Kept, Working

LEMMA AuthCheckGood ==
  ASSUME Typed, NEW x \in Pages, NEW c \in Slots, NEW force \in BOOLEAN, Flag(x), Shows(x, stored)
  PROVE  Good(AuthCheck(x, force, c), stored)
<1>1. PICK y \in Pages : /\ y = (IF force THEN x ELSE AuthCheckNoWait(x))
                         /\ Flag(y) /\ Shows(y, stored)
  BY NoWaitGood DEF Good
<1>2. AuthCheck(x, force, c) \in {y, Begin(y, c)}
  BY <1>1 DEF AuthCheck
<1>3. QED  BY <1>1, <1>2, BeginGood DEF Good

-----------------------------------------------------------------------------
(* The end of a handler. *)
LEMMA MicrotasksGood ==
  ASSUME NEW x, NEW s, Good(x, s)
  PROVE  Microtasks(x) \in Resting /\ Flag(Microtasks(x)) /\ Shows(Microtasks(x), s)
<1>1. PICK y \in Resting : /\ y = Microtasks(x) /\ Kept(x, y) /\ y.hash = x.hash /\ y.checking = x.checking
                           /\ \A c \in Slots : x.check[c] # "aborted" => y.check[c] = x.check[c]
  BY MicrotasksFacts DEF Good
<1>2. Shows(y, s)
  BY <1>1 DEF Good, Shows, Kept
<1>3. Flag(y)
  BY <1>1 DEF Good, Flag, Busy, Kept, Working
<1>4. QED  BY <1>1, <1>2, <1>3

Rest == /\ clock \in Stamps /\ session \in BOOLEAN /\ set \in 0..MaxSets /\ old \in 0..set
        /\ faults \in 0..MaxFaults /\ moves \in 0..MaxMoves

LEMMA BecomesKeeps ==
  ASSUME ClientInv, NEW t \in Tabs, NEW x, Good(x, stored), Becomes(t, x), Rest'
  PROVE  ClientInv'
<1>1. PICK y \in Resting : y = Microtasks(x) /\ Flag(y) /\ Shows(y, stored)
  BY MicrotasksGood
<1>2. tab' = [tab EXCEPT ![t] = y] /\ UNCHANGED <<stored, highest, cleared>>
  BY <1>1 DEF Becomes
<1>3. tab' \in [Tabs -> Resting]
  BY <1>2 DEF ClientInv, Typed
<1>4. Typed'
  BY <1>2, <1>3 DEF ClientInv, Typed, Rest
<1>5. ASSUME NEW u \in Tabs  PROVE Flag(tab'[u]) /\ Shows(tab'[u], stored')
  BY <1>1, <1>2 DEF ClientInv, Typed
<1>6. OldStatusOnlyAfterClear'
  BY <1>2 DEF ClientInv, OldStatusOnlyAfterClear
<1>7. QED  BY <1>4, <1>5, <1>6 DEF ClientInv, Flag, Busy, Shows, HasStatus

LEMMA NotifiedFacts ==
  ASSUME Typed, NEW u \in Tabs, Flag(tab[u]), NEW s, Shows(tab[u], s)
  PROVE  /\ Notified(u) \in Resting /\ Flag(Notified(u)) 
         /\ \A r : Shows(Notified(u), r)
<1>1. PICK x \in Resting : x = tab[u]
  BY DEF Typed
<1>2. CASE ~Here(u)
  BY <1>1, <1>2 DEF Notified, Here, Shows
<1>3. CASE Here(u)
  <2>1. PICK y : y = [x EXCEPT !.events = @ + 1]
    OBVIOUS
  <2>2. x \in Pages /\ x.events \in Nat /\ x.events + 1 \in Nat /\ x.check \in [Slots -> Settled]
    BY DEF Resting, Pages
  <2>7. y \in Pages /\ y.events = x.events + 1 /\ y.check = x.check
    BY <2>1, <2>2 DEF Pages
  <2>8. y \in Resting
    BY <2>2, <2>7 DEF Resting
  <2>3. y.inbox = x.inbox /\ y.check = x.check /\ y.checking = x.checking
    BY <2>1 DEF Resting, Pages
  <2>4. Flag(y)
    BY <1>1, <2>3 DEF Flag, Busy
  <2>5. y.events # 0
    BY <2>2, <2>7
  <2>6. QED  BY <1>1, <1>3, <2>1, <2>8, <2>4, <2>5 DEF Notified, Shows
<1>4. QED  BY <1>2, <1>3

LEMMA StoresKeeps ==
  ASSUME ClientInv, NEW t \in Tabs, NEW s \in Statuses, NEW x, Stores(t, x, s), Rest',
         Good(x, IF MoreRecent(s) THEN s ELSE stored)
  PROVE  ClientInv'
<1>1. CASE ~MoreRecent(s)
  BY <1>1, BecomesKeeps DEF Stores, Becomes
<1>2. CASE MoreRecent(s)
  <2>1. PICK y \in Resting : y = Microtasks(x) /\ Flag(y) /\ Shows(y, s)
    BY <1>2, MicrotasksGood
  <2>2. /\ stored' = s /\ highest' = IF s.stamp > highest THEN s.stamp ELSE highest
        /\ cleared' = (cleared /\ s.stamp <= highest)
        /\ tab' = [u \in Tabs |-> IF u = t THEN y ELSE Notified(u)]
    BY <1>2, <2>1 DEF Stores
  <2>3. ASSUME NEW u \in Tabs  PROVE tab'[u] \in Resting /\ Flag(tab'[u]) /\ Shows(tab'[u], s)
    BY <2>1, <2>2, NotifiedFacts DEF ClientInv
  <2>4. tab' \in [Tabs -> Resting]
    BY <2>2, <2>3
  <2>5. highest' \in Stamps /\ cleared' \in BOOLEAN
    BY <2>2 DEF ClientInv, Typed, Statuses
  <2>6. Typed'
    BY <2>2, <2>4, <2>5 DEF Typed, Rest
  <2>7. stored'.stamp < highest' => stored.stamp < highest /\ s.stamp <= highest
    BY <1>2, <2>2, Constants DEF ClientInv, Typed, Statuses, Stamps, MoreRecent
  <2>8. OldStatusOnlyAfterClear'
    BY <2>2, <2>7 DEF ClientInv, OldStatusOnlyAfterClear
  <2>9. QED  BY <2>2, <2>3, <2>6, <2>8 DEF ClientInv, Flag, Busy, Shows, HasStatus
<1>3. QED  BY <1>1, <1>2

-----------------------------------------------------------------------------
(* The actions.  A tab, its status and the world between two steps: *)
LEMMA TabFacts ==
  ASSUME ClientInv, NEW t \in Tabs
  PROVE  /\ tab[t] \in Pages /\ tab[t].check \in [Slots -> Settled] /\ Flag(tab[t]) /\ Shows(tab[t], stored)
         /\ Typed /\ stored \in Statuses /\ Rest
BY DEF ClientInv, Typed, Resting, Rest

LEMMA ChecksKeep ==
  ASSUME ClientInv, NEW t \in Tabs, NEW x \in Pages, NEW force \in BOOLEAN,
         Flag(x), Shows(x, stored), Checks(t, x, force), Rest'
  PROVE  ClientInv'
<1>1. PICK c \in Slots : Becomes(t, AuthCheck(x, force, c))
  BY DEF Checks
<1>2. PICK y : y = AuthCheck(x, force, c) /\ Good(y, stored)
  BY TabFacts, AuthCheckGood
<1>3. QED  BY <1>1, <1>2, BecomesKeeps

LEMMA RunTickStep ==
  ASSUME ClientInv, NEW t \in Tabs, RunTick(t)  PROVE ClientInv'
<1>1. Rest'
  BY TabFacts DEF RunTick, World, Rest
<1>w. PICK w \in Pages : w = tab[t] /\ Flag(w) /\ Shows(w, stored)
  BY TabFacts
<1>2. PICK force \in w.ticks :
        LET x == [w EXCEPT !.ticks = @ \ {force}]
        IN IF x.destroyed THEN Becomes(t, x) ELSE Checks(t, x, force)
  BY <1>w DEF RunTick
<1>3. PICK x : x = [w EXCEPT !.ticks = @ \ {force}]
  OBVIOUS
<1>4. force \in BOOLEAN /\ Good(x, stored)
  BY <1>w, <1>3 DEF Good, Pages, Flag, Busy, Shows
<1>5. QED  BY <1>1, <1>2, <1>3, <1>4, BecomesKeeps, ChecksKeep DEF Good

LEMMA FocusStep ==
  ASSUME ClientInv, NEW t \in Tabs, Focus(t)  PROVE ClientInv'
<1>1. Rest'
  BY TabFacts DEF Focus, World, Rest
<1>2. PICK y : y = AuthCheckNoWait(tab[t]) /\ Good(y, stored)
  BY TabFacts, NoWaitGood
<1>3. QED  BY <1>1, <1>2, BecomesKeeps DEF Focus

LEMMA ExpirationStep ==
  ASSUME ClientInv, NEW t \in Tabs, ExpirationFires(t)  PROVE ClientInv'
<1>1. Rest'
  BY TabFacts DEF ExpirationFires, World, Rest
<1>w. PICK w \in Pages : w = tab[t] /\ Flag(w) /\ Shows(w, stored)
  BY TabFacts
<1>2. PICK x : x = [w EXCEPT !.armed = FALSE] /\ Checks(t, x, TRUE)
  BY <1>w DEF ExpirationFires
<1>3. Good(x, stored)
  BY <1>w, <1>2 DEF Good, Pages, Flag, Busy, Shows
<1>4. QED  BY <1>1, <1>2, <1>3, ChecksKeep DEF Good

LEMMA StorageEventStep ==
  ASSUME ClientInv, NEW t \in Tabs, HandleStorageEvent(t)  PROVE ClientInv'
<1>1. Rest'
  BY TabFacts DEF HandleStorageEvent, World, Rest
<1>w. PICK w \in Pages : w = tab[t] /\ Flag(w) /\ Shows(w, stored)
  BY TabFacts
<1>2. PICK x : x = [w EXCEPT !.events = @ - 1] /\ w.events > 0 /\ Becomes(t, Updated(x, stored))
  BY <1>w DEF HandleStorageEvent
<1>3. x \in Pages /\ Flag(x)
  BY <1>w, <1>2 DEF HandleStorageEvent, Pages, Flag, Busy
<1>4. Shows(x, stored) \/ HasStatus(stored)
  BY DEF Shows
<1>5. PICK y : y = Updated(x, stored) /\ Good(y, stored)
  BY <1>3, <1>4, TabFacts, UpdatedGood
<1>6. QED  BY <1>1, <1>2, <1>5, BecomesKeeps

LEMMA RenewedFacts ==
  ASSUME Typed  PROVE Renewed \in Nat /\ old <= Renewed /\ set <= Renewed
BY Constants DEF Typed, Renewed

LEMMA AnsweredStep ==
  ASSUME ClientInv, NEW t \in Tabs, NEW c \in Slots, FetchAnswered(t, c)  PROVE ClientInv'
<1>0. Typed /\ Renewed \in Nat
  BY TabFacts, RenewedFacts
<1>1. clock + 1 \in Stamps /\ set' \in 0..MaxSets /\ set <= set'
  BY <1>0, RenewedFacts, Constants DEF FetchAnswered, Typed, Stamps
<1>2. Rest'
  BY <1>0, <1>1 DEF FetchAnswered, Typed, Rest
<1>w. PICK w \in Pages : w = tab[t] /\ Flag(w) /\ Shows(w, stored)
  BY TabFacts
<1>3. PICK s, x :
        /\ s = Status(IF session THEN Renewed ELSE 0, clock + 1)
        /\ x = [w EXCEPT !.check[c] = "parsing", !.control = None, !.answer[c] = s]
        /\ Becomes(t, x)
  BY <1>w DEF FetchAnswered
<1>4. s \in Statuses
  BY <1>0, <1>1, <1>3, Constants DEF FetchAnswered, Status, Statuses
<1>5. x \in Pages /\ x.check[c] = "parsing" /\ Kept(w, x) /\ x.hash = w.hash
  BY <1>3, <1>4 DEF Pages, Kept, Within, Settled
<1>6. Good(x, stored)
  BY <1>w, <1>5 DEF Good, Flag, Busy, Working, Shows, Kept
<1>7. QED  BY <1>2, <1>3, <1>6, BecomesKeeps

(* A silent login is under way in its iframe. *)
LEMMA SilentLoginGood ==
  ASSUME NEW x \in Pages, NEW c \in Slots, NEW s, Shows(x, s)
  PROVE  Good(SilentLogin(x, c), s)
<1>1. PICK y : y = SilentLogin(x, c)
  OBVIOUS
<1>2. y \in Pages /\ y.check[c] = "frame" /\ Kept(x, y) /\ y.hash = x.hash
  BY <1>1 DEF SilentLogin, Pages, Kept, Within, Settled, Frames
<1>3. QED  BY <1>1, <1>2 DEF Good, Flag, Busy, Working, Shows, Kept

LEMMA FailsStep ==
  ASSUME ClientInv, NEW t \in Tabs, NEW c \in Slots, FetchFails(t, c)  PROVE ClientInv'
<1>1. Rest'
  BY TabFacts, Constants DEF FetchFails, World, Rest
<1>2. PICK y : y = SilentLogin(tab[t], c) /\ Good(y, stored)
  BY TabFacts, SilentLoginGood
<1>3. QED  BY <1>1, <1>2, BecomesKeeps DEF FetchFails

(* The end of a check that was heard of. *)
LEMMA DoneGood ==
  ASSUME NEW x \in Pages, NEW s, Shows(x, s)
  PROVE  Good([x EXCEPT !.checking = FALSE], s)
BY DEF Good, Pages, Flag, Shows

LEMMA ParsedStep ==
  ASSUME ClientInv, NEW t \in Tabs, NEW c \in Slots, Parsed(t, c)  PROVE ClientInv'
<1>1. Rest'
  BY TabFacts DEF Parsed, World, Rest
<1>2. CASE tab[t].answer[c].md5 = 0
  <2>1. PICK y : y = SilentLogin(tab[t], c) /\ Good(y, stored)
    BY TabFacts, SilentLoginGood
  <2>2. QED  BY <1>1, <1>2, <2>1, BecomesKeeps DEF Parsed
<1>3. CASE tab[t].answer[c].md5 # 0
  <2>w. PICK w \in Pages : w = tab[t] /\ Flag(w) /\ Shows(w, stored)
    BY TabFacts
  <2>1. PICK s, x : /\ s = w.answer[c] /\ x = [w EXCEPT !.check[c] = "gone"]
                    /\ Stores(t, [StoreUserStatus(x, s) EXCEPT !.checking = FALSE], s)
    BY <1>3, <2>w DEF Parsed
  <2>2. s \in Statuses /\ x \in Pages /\ Kept(w, x) /\ x.hash = w.hash
    BY <2>1 DEF Pages, Kept, Within, Settled
  <2>3. Shows(x, stored)
    BY <2>2, <2>w DEF Shows, Kept
  <2>4. PICK y \in Pages : /\ y = StoreUserStatus(x, s)
                           /\ Shows(y, IF MoreRecent(s) THEN s ELSE stored)
    BY <2>2, <2>3, TabFacts, StoreFacts DEF Shows
  <2>5. PICK z : z = [y EXCEPT !.checking = FALSE] /\ Good(z, IF MoreRecent(s) THEN s ELSE stored)
    BY <2>4, DoneGood
  <2>6. QED  BY <1>1, <2>1, <2>2, <2>4, <2>5, StoresKeeps
<1>4. QED  BY <1>2, <1>3

-----------------------------------------------------------------------------
(* A message is put at the end of the inbox. *)
LEMMA Posted ==
  ASSUME NEW x \in Pages, NEW m \in Messages
  PROVE  /\ Append(x.inbox, m) \in Seq(Messages)
         /\ Len(Append(x.inbox, m)) = Len(x.inbox) + 1 /\ Len(x.inbox) \in Nat
         /\ \A i \in 1..Len(x.inbox) : Append(x.inbox, m)[i] = x.inbox[i]
         /\ Append(x.inbox, m)[Len(x.inbox) + 1] = m
BY DEF Pages

LEMMA PostedGood ==
  ASSUME NEW x \in Pages, NEW y \in Pages, NEW m \in Messages, NEW s,
         y.inbox = Append(x.inbox, m), y.hash = x.hash, y.events = x.events, y.leaving = x.leaving,
         Shows(x, s),
         y.checking => \/ m.event \in Logins
                       \/ Busy(x) /\ \A c \in Slots : x.check[c] \in Working => y.check[c] \in Working
  PROVE  Good(y, s)
<1>1. Shows(y, s)
  BY DEF Shows
<1>2. CASE m.event \in Logins
  <2>1. Len(x.inbox) + 1 \in 1..Len(y.inbox) /\ y.inbox[Len(x.inbox) + 1].event \in Logins
    BY <1>2, Posted
  <2>2. QED  BY <1>1, <2>1 DEF Good, Flag, Busy
<1>3. CASE y.checking /\ m.event \notin Logins
  <2>1. ASSUME NEW i \in 1..Len(x.inbox), x.inbox[i].event \in Logins
        PROVE  i \in 1..Len(y.inbox) /\ y.inbox[i].event \in Logins
    BY <2>1, Posted
  <2>2. Busy(y)
    BY <1>3, <2>1 DEF Busy
  <2>3. QED  BY <1>1, <2>2 DEF Good, Flag
<1>4. QED  BY <1>1, <1>2, <1>3 DEF Good, Flag

LEMMA NoStatusFacts ==
  /\ NoStatus \in Statuses /\ ~HasStatus(NoStatus)
  /\ \A e \in Logins \cup {"CHILD_ALIVE", "LISTENER_ALIVE"}, s \in Statuses :
       Message(e, s) \in Messages /\ Message(e, s).event = e
BY Constants DEF NoStatus, Status, Statuses, Stamps, HasStatus, Message, Messages

LEMMA ScriptStep ==
  ASSUME ClientInv, NEW t \in Tabs, NEW c \in Slots, FrameScript(t, c)  PROVE ClientInv'
<1>1. Rest'
  BY TabFacts DEF FrameScript, World, Rest
<1>2. PICK m \in Messages : m = Message("CHILD_ALIVE", NoStatus)
  BY NoStatusFacts
<1>w. PICK w \in Pages : w = tab[t] /\ Flag(w) /\ Shows(w, stored)
  BY TabFacts
<1>3. PICK x : /\ x = [w EXCEPT !.check[c] = "alive", !.inbox = Append(@, m)]
               /\ Becomes(t, x)
  BY <1>w, <1>2 DEF FrameScript
<1>4. /\ x \in Pages /\ x.inbox = Append(w.inbox, m) /\ x.hash = w.hash
      /\ x.events = w.events /\ x.leaving = w.leaving /\ x.checking = w.checking
      /\ \A d \in Slots : x.check[d] = IF d = c THEN "alive" ELSE w.check[d]
  BY <1>3, Posted DEF Pages, Within, Settled, Frames
<1>5. \A d \in Slots : w.check[d] \in Working => x.check[d] \in Working
  BY <1>4 DEF Working
<1>7. Good(x, stored)
  BY <1>w, <1>4, <1>5, PostedGood DEF Flag
<1>6. QED  BY <1>1, <1>3, <1>7, BecomesKeeps

(* x with another state of one check, which stays among the working ones. *)
LEMMA StillGood ==
  ASSUME NEW x \in Pages, NEW y \in Pages, NEW s, Flag(x), Shows(x, s), Kept(x, y),
         y.hash = x.hash, y.checking => x.checking,
         \A c \in Slots : x.check[c] \in Working => y.check[c] \in Working
  PROVE  Good(y, s)
BY DEF Good, Flag, Busy, Shows, Kept

LEMMA MuteStep ==
  ASSUME ClientInv, NEW t \in Tabs, NEW c \in Slots, FrameMute(t, c)  PROVE ClientInv'
<1>1. Rest'
  BY TabFacts, Constants DEF FrameMute, World, Rest
<1>w. PICK w \in Pages : w = tab[t] /\ Flag(w) /\ Shows(w, stored)
  BY TabFacts
<1>2. PICK x : x = [w EXCEPT !.check[c] = "mute"] /\ Becomes(t, x)
  BY <1>w DEF FrameMute
<1>3. /\ x \in Pages /\ x.hash = w.hash /\ Kept(w, x) /\ x.checking = w.checking
      /\ \A d \in Slots : x.check[d] = IF d = c THEN "mute" ELSE w.check[d]
  BY <1>2 DEF Pages, Kept, Within, Settled, Frames
<1>4. Good(x, stored)
  BY <1>w, <1>3, StillGood DEF Working
<1>5. QED  BY <1>1, <1>2, <1>4, BecomesKeeps

LEMMA ServerFailsStep ==
  ASSUME ClientInv, NEW t \in Tabs, NEW c \in Slots, ServerFails(t, c)  PROVE ClientInv'
<1>1. Rest'
  BY TabFacts, Constants DEF ServerFails, World, Rest
<1>w. PICK w \in Pages : w = tab[t] /\ Flag(w) /\ Shows(w, stored)
  BY TabFacts
<1>2. PICK x : x = [w EXCEPT !.check[c] = "failed"] /\ Becomes(t, x)
  BY <1>w DEF ServerFails
<1>3. /\ x \in Pages /\ x.hash = w.hash /\ Kept(w, x) /\ x.checking = w.checking
      /\ \A d \in Slots : x.check[d] = IF d = c THEN "failed" ELSE w.check[d]
  BY <1>2 DEF Pages, Kept, Within, Settled, Frames
<1>4. Good(x, stored)
  BY <1>w, <1>3, StillGood DEF Working
<1>5. QED  BY <1>1, <1>2, <1>4, BecomesKeeps

LEMMA LoadsStep ==
  ASSUME ClientInv, NEW t \in Tabs, NEW c \in Slots, FrameLoads(t, c)  PROVE ClientInv'
<1>1. Rest'
  BY TabFacts DEF FrameLoads, World, Rest
<1>w. PICK w \in Pages : w = tab[t] /\ Flag(w) /\ Shows(w, stored)
  BY TabFacts
<1>2. PICK x : x = [w EXCEPT !.timers = @ \cup {c}, !.timer = c] /\ Becomes(t, x)
  BY <1>w DEF FrameLoads
<1>3. /\ x \in Pages /\ x.hash = w.hash /\ Kept(w, x) /\ x.checking = w.checking
      /\ x.check = w.check
  BY <1>2 DEF Pages, Kept
<1>4. Good(x, stored)
  BY <1>w, <1>3, StillGood
<1>5. QED  BY <1>1, <1>2, <1>4, BecomesKeeps

LEMMA TimerStep ==
  ASSUME ClientInv, NEW t \in Tabs, NEW c \in Slots, TimerFires(t, c)  PROVE ClientInv'
<1>1. Rest'
  BY TabFacts DEF TimerFires, World, Rest
<1>w. PICK w \in Pages : w = tab[t] /\ Flag(w) /\ Shows(w, stored)
  BY TabFacts
<1>2. PICK x : /\ x = [w EXCEPT !.timers = @ \ {c}]
               /\ Becomes(t, IF x.awake THEN x ELSE LoginError(x))
  BY <1>w DEF TimerFires
<1>3. /\ x \in Pages /\ x.hash = w.hash /\ Kept(w, x) /\ x.checking = w.checking
      /\ x.check = w.check
  BY <1>2 DEF Pages, Kept
<1>4. Good(x, stored)
  BY <1>w, <1>3, StillGood
<1>5. PICK y \in Pages : y = LoginError(x) /\ Kept(x, y) /\ y.hash = x.hash /\ y.checking = FALSE
  BY <1>3, LoginErrorFacts
<1>7. Good(y, stored)
  BY <1>4, <1>5 DEF Good, Flag, Shows, Kept
<1>6. QED  BY <1>1, <1>2, <1>4, <1>5, <1>7, BecomesKeeps

LEMMA ServerPostsStep ==
  ASSUME ClientInv, NEW t \in Tabs, NEW c \in Slots, ServerPosts(t, c)  PROVE ClientInv'
<1>0. Typed /\ Renewed \in Nat
  BY TabFacts, RenewedFacts
<1>w. PICK w \in Pages : w = tab[t] /\ Flag(w) /\ Shows(w, stored)
  BY TabFacts
<1>1. PICK n, s, m :
        /\ n \in (IF session THEN {Renewed, set + 1} ELSE {0})
        /\ n <= MaxSets /\ set' = (IF session THEN n ELSE set)
        /\ s = Status(n, clock + 1)
        /\ m = Message(IF session THEN "LOGIN_SUCCESS" ELSE "LOGIN_REQUIRED", s)
        /\ Becomes(t, [w EXCEPT !.check[c] = "posted", !.inbox = Append(@, m)])
  BY <1>w DEF ServerPosts
<1>2. clock + 1 \in Stamps /\ n \in 0..MaxSets /\ set' \in 0..MaxSets /\ set <= set'
  BY <1>0, <1>1, RenewedFacts, Constants DEF ServerPosts, Typed, Stamps
<1>3. Rest'
  BY <1>0, <1>2 DEF ServerPosts, Typed, Rest
<1>4. s \in Statuses
  BY <1>1, <1>2 DEF Status, Statuses
<1>5. m \in Messages /\ m.event \in Logins
  BY <1>1, <1>4, NoStatusFacts DEF Logins
<1>6. PICK x : x = [w EXCEPT !.check[c] = "posted", !.inbox = Append(@, m)] /\ Becomes(t, x)
  BY <1>1
<1>7. /\ x \in Pages /\ x.inbox = Append(w.inbox, m) /\ x.hash = w.hash
      /\ x.events = w.events /\ x.leaving = w.leaving
  BY <1>5, <1>6, Posted DEF Pages, Within, Settled, Frames
<1>8. Good(x, stored)
  BY <1>w, <1>5, <1>7, PostedGood
<1>9. QED  BY <1>3, <1>6, <1>8, BecomesKeeps

LEMMA Taken ==
  ASSUME NEW x \in Pages, x.inbox # <<>>
  PROVE  /\ Head(x.inbox) \in Messages /\ Head(x.inbox) = x.inbox[1]
         /\ Tail(x.inbox) \in Seq(Messages) /\ Len(Tail(x.inbox)) = Len(x.inbox) - 1
         /\ Len(x.inbox) \in Nat \ {0}
         /\ \A i \in 1..Len(x.inbox) - 1 : Tail(x.inbox)[i] = x.inbox[i + 1]
BY DEF Pages

LEMMA TakenFacts ==
  ASSUME NEW x \in Pages, x.inbox # <<>>, Flag(x), NEW s, Shows(x, s), NEW y, y = [x EXCEPT !.inbox = Tail(@)]
  PROVE  /\ y \in Pages /\ Shows(y, s)
         /\ Head(x.inbox).event \notin Logins => Flag(y)
<1>1. y \in Pages /\ y.inbox = Tail(x.inbox) /\ y.check = x.check /\ y.checking = x.checking
  BY Taken DEF Pages
<1>2. Shows(y, s)
  BY DEF Pages, Shows
<1>3. ASSUME Head(x.inbox).event \notin Logins, NEW i \in 1..Len(x.inbox), x.inbox[i].event \in Logins
      PROVE  \E j \in 1..Len(y.inbox) : y.inbox[j].event \in Logins
  <2>0. i # 1 /\ Len(x.inbox) \in Nat
    BY <1>3, Taken
  <2>1. i - 1 \in 1..Len(x.inbox) - 1 /\ (i - 1) + 1 = i
    BY <2>0
  <2>2. i - 1 \in 1..Len(y.inbox) /\ y.inbox[i - 1] = x.inbox[i]
    BY <1>1, <2>1, Taken
  <2>3. QED  BY <1>3, <2>2
<1>4. QED  BY <1>1, <1>2, <1>3 DEF Flag, Busy

LEMMA MessageStep ==
  ASSUME ClientInv, NEW t \in Tabs, HandleMessage(t)  PROVE ClientInv'
<1>1. Rest'
  BY TabFacts DEF HandleMessage, World, Rest
<1>w. PICK w \in Pages : w = tab[t] /\ Flag(w) /\ Shows(w, stored)
  BY TabFacts
<1> DEFINE m == Head(w.inbox)
<1>2. w.inbox # <<>> /\ m \in Messages /\ m.data \in Statuses
  BY <1>w, Taken DEF HandleMessage, Messages
<1>3. PICK x : x = [w EXCEPT !.inbox = Tail(@)]
  OBVIOUS
<1>4. x \in Pages /\ Shows(x, stored) /\ (m.event \notin Logins => Flag(x))
  BY <1>w, <1>2, <1>3, TakenFacts
<1>5. PICK z \in Pages : /\ z = StoreUserStatus(x, m.data)
                         /\ Shows(z, IF MoreRecent(m.data) THEN m.data ELSE stored)
  BY <1>2, <1>4, TabFacts, StoreFacts DEF Shows
<1>6. PICK v \in Pages : v = RemoveFrames(z) /\ Shows(v, IF MoreRecent(m.data) THEN m.data ELSE stored)
  BY <1>5, RemoveFramesFacts DEF Shows, Kept
<1>7. PICK y : y = [v EXCEPT !.checking = FALSE] /\ Good(y, IF MoreRecent(m.data) THEN m.data ELSE stored)
  BY <1>6, DoneGood
<1>8. /\ m.event = "CHILD_ALIVE" => Becomes(t, [x EXCEPT !.awake = TRUE, !.timers = @ \ {x.timer}])
      /\ m.event = "LISTENER_ALIVE" => Becomes(t, IF x.listener = "off" THEN x ELSE [x EXCEPT !.listener = "awake"])
      /\ m.event = "LOGIN_SUCCESS" => Stores(t, RemoveListener(y), m.data)
      /\ m.event = "LOGIN_REQUIRED" => Stores(t, y, m.data)
  BY <1>w, <1>3, <1>5, <1>6, <1>7 DEF HandleMessage
<1> HIDE DEF m
<1>9. CASE m.event = "CHILD_ALIVE"
  <2>1. PICK u : u = [x EXCEPT !.awake = TRUE, !.timers = @ \ {x.timer}]
    OBVIOUS
  <2>2. u \in Pages /\ u.hash = x.hash /\ Kept(x, u) /\ u.checking = x.checking /\ u.check = x.check
    BY <1>4, <2>1 DEF Pages, Kept
  <2>3. Good(u, stored)
    BY <1>4, <1>9, <2>2, StillGood DEF Logins
  <2>4. QED  BY <1>1, <1>8, <1>9, <2>1, <2>3, BecomesKeeps
<1>10. CASE m.event = "LISTENER_ALIVE"
  <2>1. PICK u : u = [x EXCEPT !.listener = "awake"]
    OBVIOUS
  <2>2. u \in Pages /\ u.hash = x.hash /\ Kept(x, u) /\ u.checking = x.checking /\ u.check = x.check
    BY <1>4, <2>1 DEF Pages, Kept
  <2>3. Good(u, stored) /\ Good(x, stored)
    BY <1>4, <1>10, <2>2, StillGood DEF Logins, Good
  <2>4. QED  BY <1>1, <1>8, <1>10, <2>1, <2>3, BecomesKeeps
<1>11. CASE m.event = "LOGIN_SUCCESS"
  <2>0. PICK u, s : /\ u = [y EXCEPT !.listener = "off"]
                    /\ s = (IF MoreRecent(m.data) THEN m.data ELSE stored) /\ Good(y, s)
    BY <1>7
  <2>1. u = RemoveListener(y) /\ Good(u, s)
    BY <2>0 DEF RemoveListener, Good, Pages, Flag, Busy, Shows
  <2>2. QED  BY <1>1, <1>2, <1>8, <1>11, <2>0, <2>1, StoresKeeps
<1>12. CASE m.event = "LOGIN_REQUIRED"
  BY <1>1, <1>2, <1>7, <1>8, <1>12, StoresKeeps
<1>13. QED  BY <1>2, <1>9, <1>10, <1>11, <1>12 DEF Messages, Logins

-----------------------------------------------------------------------------
(* Logins in a new window, forms and the world. *)
LEMMA PrepareStep ==
  ASSUME ClientInv, NEW t \in Tabs, PrepareNewWindowLogin(t)  PROVE ClientInv'
<1>1. Rest'
  BY TabFacts, Constants DEF PrepareNewWindowLogin, World, Rest
<1>w. PICK w \in Pages : w = tab[t] /\ Flag(w) /\ Shows(w, stored)
  BY TabFacts
<1>2. PICK x : x = [w EXCEPT !.listener = "initiated"] /\ Becomes(t, x)
  BY <1>w DEF PrepareNewWindowLogin
<1>3. x \in Pages /\ x.hash = w.hash /\ Kept(w, x) /\ x.checking = w.checking /\ x.check = w.check
  BY <1>2 DEF Pages, Kept
<1>4. Good(x, stored)
  BY <1>w, <1>3, StillGood
<1>5. QED  BY <1>1, <1>2, <1>4, BecomesKeeps

LEMMA ListenerStep ==
  ASSUME ClientInv, NEW t \in Tabs, ListenerLoads(t)  PROVE ClientInv'
<1>1. Rest'
  BY TabFacts, Constants DEF ListenerLoads, World, Rest
<1>w. PICK w \in Pages : w = tab[t] /\ Flag(w) /\ Shows(w, stored)
  BY TabFacts
<1>2. PICK m \in Messages : m = Message("LISTENER_ALIVE", NoStatus)
  BY NoStatusFacts
<1>3. PICK x, y : /\ x = [w EXCEPT !.inbox = Append(@, m)] /\ y = [w EXCEPT !.listener = "off"]
                  /\ Becomes(t, x) \/ Becomes(t, y)
  BY <1>w, <1>2 DEF ListenerLoads, RemoveListener
<1>4. /\ x \in Pages /\ x.inbox = Append(w.inbox, m) /\ x.hash = w.hash /\ x.check = w.check
      /\ x.events = w.events /\ x.leaving = w.leaving /\ x.checking = w.checking
  BY <1>3, Posted DEF Pages
<1>5. Good(x, stored)
  BY <1>w, <1>4, PostedGood DEF Flag
<1>6. y \in Pages /\ y.hash = w.hash /\ Kept(w, y) /\ y.checking = w.checking /\ y.check = w.check
  BY <1>3 DEF Pages, Kept
<1>7. Good(y, stored)
  BY <1>w, <1>6, StillGood
<1>8. QED  BY <1>1, <1>3, <1>5, <1>7, BecomesKeeps

(* A tab after abortBackgroundLogins. *)
LEMMA Aborted ==
  ASSUME ClientInv, NEW t \in Tabs
  PROVE  /\ Abort(tab[t]) \in Pages /\ Abort(tab[t]).checking = FALSE
         /\ Shows(Abort(tab[t]), stored)
<1>w. PICK w \in Pages : w = tab[t] /\ Flag(w) /\ Shows(w, stored)
  BY TabFacts
<1>1. PICK y \in Pages : y = Abort(w) /\ Kept(w, y) /\ y.hash = w.hash /\ y.checking = FALSE
  BY AbortFacts
<1>2. Shows(y, stored)
  BY <1>w, <1>1 DEF Shows, Kept
<1>3. QED  BY <1>w, <1>1, <1>2

LEMMA NewWindowStep ==
  ASSUME ClientInv, NEW t \in Tabs, NewWindowLogin(t)  PROVE ClientInv'
<1>0. Typed
  BY TabFacts
<1>1. clock + 1 \in Stamps /\ set + 1 \in 0..MaxSets /\ set \in Nat
  BY <1>0, Constants DEF NewWindowLogin, Typed, Stamps
<1>2. Rest'
  BY <1>0, <1>1, Constants DEF NewWindowLogin, Typed, Rest
<1>3. PICK m \in Messages : m = Message("LOGIN_SUCCESS", Status(set + 1, clock + 1)) /\ m.event \in Logins
  BY <1>1, NoStatusFacts DEF Status, Statuses, Logins
<1>4. PICK w \in Pages : w = Abort(tab[t]) /\ Shows(w, stored)
  BY Aborted
<1>5. PICK x : x = [w EXCEPT !.inbox = Append(@, m)] /\ Becomes(t, x)
  BY <1>3, <1>4 DEF NewWindowLogin
<1>6. /\ x \in Pages /\ x.inbox = Append(w.inbox, m) /\ x.hash = w.hash
      /\ x.events = w.events /\ x.leaving = w.leaving
  BY <1>5, Posted DEF Pages
<1>7. Good(x, stored)
  BY <1>3, <1>4, <1>6, PostedGood
<1>8. QED  BY <1>2, <1>5, <1>7, BecomesKeeps

LEMMA LoginStep ==
  ASSUME ClientInv, NEW t \in Tabs, HandleLogin(t)  PROVE ClientInv'
<1>1. Rest'
  BY TabFacts, Constants DEF HandleLogin, World, Rest
<1>2. PICK w \in Pages : w = Abort(tab[t]) /\ w.checking = FALSE
  BY Aborted
<1>3. PICK x : x = [w EXCEPT !.leaving = "login"] /\ Becomes(t, x)
  BY <1>2 DEF HandleLogin
<1>4. Good(x, stored)
  BY <1>2, <1>3 DEF Good, Pages, Flag, Shows
<1>5. QED  BY <1>1, <1>3, <1>4, BecomesKeeps

LEMMA DestroyStep ==
  ASSUME ClientInv, NEW t \in Tabs, Destroy(t)  PROVE ClientInv'
<1>1. Rest'
  BY TabFacts, Constants DEF Destroy, World, Rest
<1>2. PICK w \in Pages : w = Abort(tab[t]) /\ w.checking = FALSE /\ Shows(w, stored)
  BY Aborted
<1>3. PICK x : x = [[w EXCEPT !.listener = "off"] EXCEPT !.destroyed = TRUE] /\ Becomes(t, x)
  BY <1>2 DEF Destroy, RemoveListener
<1>4. Good(x, stored)
  BY <1>2, <1>3 DEF Good, Pages, Flag, Shows
<1>5. QED  BY <1>1, <1>3, <1>4, BecomesKeeps

LEMMA LogoutStep ==
  ASSUME ClientInv, NEW t \in Tabs, HandleLogout(t)  PROVE ClientInv'
<1>1. Rest'
  BY TabFacts, Constants DEF HandleLogout, World, Rest
<1>w. PICK w \in Pages : w = tab[t] /\ Flag(w) /\ Shows(w, stored)
  BY TabFacts
<1>2. PICK x : x = [w EXCEPT !.leaving = "logout"]
  OBVIOUS
<1>3. x \in Pages /\ x.check = w.check /\ x.inbox = w.inbox /\ x.checking = w.checking
  BY <1>2 DEF Pages
<1>4. x \in Resting /\ Flag(x)
  BY <1>w, <1>3, TabFacts DEF Resting, Flag, Busy
<1>5. /\ stored' = NoStatus /\ cleared' = TRUE /\ highest' = highest
      /\ tab' = [u \in Tabs |-> IF u = t THEN x ELSE IF HasStatus(stored) THEN Notified(u) ELSE tab[u]]
  BY <1>w, <1>2 DEF HandleLogout
<1>6. ASSUME NEW u \in Tabs  PROVE tab'[u] \in Resting /\ Flag(tab'[u])
  BY <1>4, <1>5, TabFacts, NotifiedFacts DEF Resting
<1>7. tab' \in [Tabs -> Resting]
  BY <1>5, <1>6
<1>8. Typed'
  BY <1>1, <1>5, <1>7, TabFacts, NoStatusFacts DEF Typed, Rest
<1>9. OldStatusOnlyAfterClear'
  BY <1>5 DEF OldStatusOnlyAfterClear
<1>10. ASSUME NEW u \in Tabs  PROVE Shows(tab'[u], stored')
  BY <1>5, NoStatusFacts DEF Shows, HasStatus
<1>11. QED  BY <1>6, <1>8, <1>9, <1>10 DEF ClientInv, Flag, Busy, Shows, HasStatus

LEMMA PageFacts == Page \in Resting /\ Flag(Page) /\ \A s : Shows(Page, s)
<1>1. [c \in Slots |-> "new"] \in [Slots -> Settled] /\ [c \in Slots |-> "new"] \in [Slots -> Within]
  BY DEF Settled, Within
<1>2. [c \in Slots |-> NoStatus] \in [Slots -> Statuses]
  BY NoStatusFacts
<1>3. Page \in Pages
  BY <1>1, <1>2, Constants DEF Page, Pages
<1>4. QED  BY <1>1, <1>3 DEF Page, Resting, Flag, Shows

LEMMA ComesBackStep ==
  ASSUME ClientInv, NEW t \in Tabs, ComesBack(t)  PROVE ClientInv'
<1>1. Rest'
  BY TabFacts, Constants DEF ComesBack, Rest
<1>2. PICK y \in Resting : y = Page /\ Flag(y) /\ \A s : Shows(y, s)
  BY PageFacts
<1>3. tab' = [tab EXCEPT ![t] = y] /\ UNCHANGED <<stored, highest, cleared>>
  BY <1>2 DEF ComesBack
<1>4. tab' \in [Tabs -> Resting]
  BY <1>3, TabFacts DEF Typed
<1>5. Typed'
  BY <1>1, <1>3, <1>4, TabFacts DEF Typed, Rest
<1>6. ASSUME NEW u \in Tabs  PROVE Flag(tab'[u]) /\ Shows(tab'[u], stored')
  BY <1>2, <1>3, TabFacts DEF Typed
<1>7. OldStatusOnlyAfterClear'
  BY <1>3 DEF ClientInv, OldStatusOnlyAfterClear
<1>8. QED  BY <1>5, <1>6, <1>7 DEF ClientInv, Flag, Busy, Shows, HasStatus

LEMMA WorldStep ==
  ASSUME ClientInv, AccessExpires \/ SessionEnds \/ UNCHANGED vars  PROVE ClientInv'
<1>1. UNCHANGED <<tab, stored, highest, cleared>>
  BY DEF AccessExpires, SessionEnds, vars
<1>2. Rest'
  <2>1. Rest
    BY DEF ClientInv, Typed, Rest
  <2>2. old' \in 0..set' /\ set' \in 0..MaxSets
    BY <2>1, Constants DEF Rest, AccessExpires, SessionEnds, vars
  <2>3. session' = session \/ session' = FALSE
    BY DEF AccessExpires, SessionEnds, vars
  <2>4. session' \in BOOLEAN
    BY <2>1, <2>3, Zenon DEF Rest
  <2>5. UNCHANGED <<clock, faults, moves>>
    BY DEF AccessExpires, SessionEnds, vars
  <2>6. QED  BY <2>1, <2>2, <2>4, <2>5 DEF Rest
<1>4. Typed'
  BY <1>1, <1>2 DEF ClientInv, Typed, Rest
<1>3. QED  BY <1>1, <1>4 DEF ClientInv, OldStatusOnlyAfterClear, Flag, Busy, Shows, HasStatus

-----------------------------------------------------------------------------
LEMMA ClientInit ==
  ASSUME Init  PROVE ClientInv
<1>0. tab \in [Tabs -> Resting]
  BY PageFacts DEF Init
<1>1. Typed
  <2>1. cleared \in BOOLEAN /\ session \in BOOLEAN
    BY Zenon DEF Init
  <2>2. 0 \in Stamps /\ 0 \in 0..MaxSets /\ 0 \in 0..0 /\ 0 \in 0..MaxFaults /\ 0 \in 0..MaxMoves
    BY Constants DEF Stamps
  <2>3. QED  BY <1>0, <2>1, <2>2, NoStatusFacts DEF Init, Typed
<1>2. QED  BY <1>1, PageFacts DEF Init, ClientInv, OldStatusOnlyAfterClear, NoStatus, Status

LEMMA ClientStep ==
  ASSUME ClientInv, [Next]_vars  PROVE ClientInv'
<1>1. CASE AccessExpires \/ SessionEnds \/ UNCHANGED vars
  BY <1>1, WorldStep
<1>2. ASSUME NEW t \in Tabs, Work(t)  PROVE ClientInv'
  BY <1>2, RunTickStep, StorageEventStep, MessageStep, AnsweredStep, ParsedStep, ScriptStep,
     LoadsStep, TimerStep, ServerPostsStep DEF Work
<1>3. ASSUME NEW t \in Tabs,
             \/ Focus(t) \/ ExpirationFires(t) \/ PrepareNewWindowLogin(t) \/ ListenerLoads(t)
             \/ NewWindowLogin(t) \/ HandleLogin(t) \/ HandleLogout(t) \/ ComesBack(t) \/ Destroy(t)
             \/ \E c \in Slots : FetchFails(t, c) \/ FrameMute(t, c) \/ ServerFails(t, c)
      PROVE  ClientInv'
  BY <1>3, FocusStep, ExpirationStep, PrepareStep, ListenerStep, NewWindowStep, LoginStep,
     LogoutStep, ComesBackStep, DestroyStep, FailsStep, MuteStep, ServerFailsStep
<1>4. QED  BY <1>1, <1>2, <1>3 DEF Next

(* Everything above holds always. *)
THEOREM ClientInvariant == Spec => []ClientInv
BY ClientInit, ClientStep, PTL DEF Spec

(* Every variable has its type. *)
THEOREM ClientTyping == Spec => []ClientTypeOK
<1>1. ASSUME ClientInv  PROVE ClientTypeOK
  <2>1. Typed
    BY <1>1 DEF ClientInv
  <2>2. ASSUME NEW t \in Tabs
        PROVE  /\ tab[t].hash \in 0..NoHash /\ tab[t].checking \in BOOLEAN
               /\ tab[t].check \in [Slots -> Frames \cup {"new", "fetching", "parsing", "gone"}]
               /\ tab[t].timers \subseteq Slots /\ tab[t].control \in Slots \cup {None}
    <3>1. PICK x \in Resting : x = tab[t]
      BY <2>1 DEF Typed
    <3>2. x \in Pages /\ x.check \in [Slots -> Frames \cup {"new", "fetching", "parsing", "gone"}]
      BY DEF Resting, Settled
    <3>3. QED  BY <3>1, <3>2 DEF Pages
  <2>3. QED  BY <2>1, <2>2 DEF Typed, Statuses, ClientTypeOK
<1>2. QED  BY ClientInvariant, <1>1, PTL

(* isAuthChecking keeps other checks out only while something that resets  *)
(* it is under way, or after the server failed a silent login whose iframe *)
(* had said that it is alive.                                              *)
THEOREM FlagSafe == Spec => []FlagMeansWork
<1>1. ASSUME ClientInv  PROVE FlagMeansWork
  <2>1. ASSUME NEW t \in Tabs  PROVE DOMAIN tab[t].inbox = 1..Len(tab[t].inbox)
    BY <1>1, TabFacts DEF Pages
  <2>2. QED  BY <1>1, <2>1 DEF ClientInv, FlagMeansWork, ResetComes, Flag, Busy, Working, Logins
<1>2. QED  BY ClientInvariant, <1>1, PTL

(* Tabs without news to come show the stored status. *)
THEOREM TabsSafe == Spec => []TabsConverge
<1>1. ASSUME ClientInv  PROVE TabsConverge
  BY <1>1 DEF ClientInv, TabsConverge, Shows, Here
<1>2. QED  BY ClientInvariant, <1>1, PTL

(* The storage goes back to an older status only after a logout cleared it. *)
THEOREM NewestIsStored == Spec => []OldStatusOnlyAfterClear
<1>1. ASSUME ClientInv  PROVE OldStatusOnlyAfterClear
  BY <1>1 DEF ClientInv
<1>2. QED  BY ClientInvariant, <1>1, PTL
=============================================================================
