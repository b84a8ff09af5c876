-------------------------- MODULE OidcConfig_proofs --------------------------
(***************************************************************************)
(* An update that is answered with true has the key that its requests      *)
(* asked for, for any number of keys, requests and failures, and any       *)
(* delays and expiries of keys.                                            *)
(***************************************************************************)
EXTENDS OidcConfig, TLAPS

(* The previous key is the one before the current one. *)
KeysOK ==
  /\ now \in Nat /\ keys \in [cur : Nat, start : Nat, prev : Nat, exp : Nat]
  /\ phase \in {"keyless", "starting", "running"}
  /\ phase = "keyless" => keys = NoKeys
  /\ phase # "keyless" => keys.cur >= 1
  /\ keys.prev # 0 => keys.prev = keys.cur - 1

(* A request is of a key that was made, or of the constructor. *)
Known(r) ==
  /\ r \in [kind : Kinds, key : Nat]
  /\ r.kind \in {"start", "news"} => r.key \in 1..keys.cur
  /\ r.kind \in {"refresh", "init"} => phase = "running"

(* Each request has one timer and is made once; the one of the current key *)
(* not before the key starts.                                              *)
TimersOK ==
  \A t \in timers :
    /\ Known(t.req) /\ t.at \in Nat
    /\ \A u \in timers : u.req = t.req => u = t
    /\ \A a \in asked : a.req # t.req
    /\ t.req.kind = "start" /\ t.req.key = keys.cur => t.at >= keys.start

(* The active key never goes back. *)
AskedOK ==
  \A a \in asked : /\ Known(a.req) /\ a.key \in Nat /\ a.key <= ActiveKey
                   /\ a.req.kind = "start" => a.key >= a.req.key

AnsweredOK == \A r \in update.by \cup pending \cup updated : \E a \in asked : a.req = r

(* The running update has the key of all that it will answer, and is no    *)
(* step back for those that were answered.                                 *)
InTime ==
  update # NoUpdate => \A a \in asked : a.req \in update.by \cup updated => update.key >= a.key

Numbers == config \in Nat /\ update.key \in Nat

IInv == KeysOK /\ TimersOK /\ AskedOK /\ AnsweredOK /\ InTime /\ FreshAnswers /\ Numbers

------------------------------------------------------------------------------
LEMMA InvInit == Init => IInv
<1> SUFFICES ASSUME Init PROVE IInv OBVIOUS
<1>1. KeysOK BY DEF Init, KeysOK, NoKeys
<1>2. TimersOK /\ AskedOK /\ FreshAnswers BY DEF Init, TimersOK, AskedOK, FreshAnswers
<1>3. AnsweredOK /\ InTime /\ Numbers BY DEF Init, AnsweredOK, InTime, Numbers, NoUpdate
<1>4. QED BY <1>1, <1>2, <1>3 DEF IInv

LEMMA ActiveFacts ==
  ASSUME KeysOK
  PROVE  /\ ActiveKey \in Nat /\ ActiveKey <= keys.cur /\ ActiveKey >= keys.cur - 1
         /\ keys.start <= now => ActiveKey = keys.cur
BY DEF KeysOK, ActiveKey, Active

(* The keys change only forwards. *)
Grows ==
  /\ ActiveKey' >= ActiveKey /\ keys'.cur >= keys.cur
  /\ phase = "running" => phase' = "running"

LEMMA RotatedFacts ==
  ASSUME KeysOK, phase # "keyless"
  PROVE  LET k == Rotated(keys, keys.cur + 1, now) IN
         /\ k \in [cur : Nat, start : Nat, prev : Nat, exp : Nat]
         /\ k.cur = keys.cur + 1 /\ k.prev = keys.cur /\ k.start = now + StartDelay
         /\ Active(k, now) = keys.cur
BY OidcAssumption DEF KeysOK, Rotated, NoKeys, Active

LEMMA FirstFacts ==
  ASSUME KeysOK
  PROVE  /\ FirstKeys(1) = [cur |-> 1, start |-> 0, prev |-> 0, exp |-> 0]
         /\ Rotated(FirstKeys(1), 2, now) =
              [cur |-> 2, start |-> now + StartDelay, prev |-> 1, exp |-> now + PrevExpiry]
BY DEF FirstKeys, Rotated, NoKeys

(* While there are no keys there are no timers and no requests. *)
LEMMA KeylessFacts ==
  ASSUME IInv, phase = "keyless"
  PROVE  timers = {} /\ asked = {} /\ ActiveKey = 0 /\ keys.cur = 0
<1>1. keys.cur = 0 /\ keys.prev = 0 BY DEF IInv, KeysOK, NoKeys
<1>2. \A r : ~Known(r) BY <1>1 DEF Known, Kinds
<1>3. timers = {} /\ asked = {} BY <1>2 DEF IInv, TimersOK, AskedOK
<1>4. QED BY <1>1, <1>3 DEF ActiveKey, Active

KeysChange == FindKeys \/ MakeFirstKeys \/ MakeKeys \/ HearOfKeys

LEMMA KeysStep ==
  ASSUME IInv, KeysChange \/ Tick \/ Construct \/ UNCHANGED <<now, keys, phase>>
  PROVE  KeysOK' /\ Grows
<1>0. KeysOK BY DEF IInv
<1>1. CASE FindKeys
  <2>1. \E k \in {FirstKeys(1), Rotated(FirstKeys(1), 2, now)} : keys' = k
    BY <1>1 DEF FindKeys, Holds
  <2>2. phase = "keyless" /\ phase' = "starting" /\ now' = now BY <1>1 DEF FindKeys, Holds
  <2>3. KeysOK' BY <1>0, <2>1, <2>2, FirstFacts, OidcAssumption DEF KeysOK
  <2>4. ActiveKey' \in Nat /\ keys'.cur >= 0
    BY <2>3 DEF KeysOK, ActiveKey, Active
  <2>5. QED BY <2>2, <2>3, <2>4, KeylessFacts DEF Grows
<1>2. CASE MakeFirstKeys
  <2>1. keys' = FirstKeys(1) /\ phase = "keyless" /\ phase' = "starting" /\ now' = now
    BY <1>2 DEF MakeFirstKeys, Made, Holds
  <2>2. KeysOK' BY <1>0, <2>1, FirstFacts DEF KeysOK
  <2>3. ActiveKey' \in Nat /\ keys'.cur >= 0
    BY <2>2 DEF KeysOK, ActiveKey, Active
  <2>4. QED BY <2>1, <2>2, <2>3, KeylessFacts DEF Grows
<1>3. CASE MakeKeys \/ HearOfKeys
  <2>1. /\ keys' = Rotated(keys, keys.cur + 1, now) /\ phase # "keyless"
        /\ phase' = phase /\ now' = now
    BY <1>3 DEF MakeKeys, HearOfKeys, MayGetNewKeys, Made, Holds
  <2>2. KeysOK' BY <1>0, <2>1, RotatedFacts DEF KeysOK
  <2>3. ActiveKey' = keys.cur BY <1>0, <2>1, RotatedFacts DEF ActiveKey
  <2>4. QED BY <1>0, <2>1, <2>2, <2>3, RotatedFacts, ActiveFacts DEF Grows, KeysOK
<1>4. CASE Tick
  BY <1>0, <1>4 DEF Tick, KeysOK, Grows, ActiveKey, Active
<1>5. CASE Construct
  <2>1. phase = "starting" /\ phase' = "running" /\ UNCHANGED <<now, keys>>
    BY <1>5 DEF Construct
  <2>2. QED BY <1>0, <2>1, ActiveFacts DEF KeysOK, Grows, ActiveKey
<1>6. CASE UNCHANGED <<now, keys, phase>>
  BY <1>0, <1>6, ActiveFacts DEF KeysOK, Grows, ActiveKey
<1>7. QED BY <1>1, <1>2, <1>3, <1>4, <1>5, <1>6 DEF KeysChange

LEMMA KnownStays ==
  ASSUME KeysOK, KeysOK', Grows, NEW r, Known(r)
  PROVE  Known(r)'
BY DEF Known, Grows, KeysOK

(* Steps that leave the requests alone: the invariants of the answers stay, *)
(* whether the configuration is fetched for the first time or not at all.   *)
LEMMA AskedStays ==
  ASSUME IInv, KeysOK', Grows, UNCHANGED asked
  PROVE  AskedOK'
<1>1. KeysOK /\ AskedOK BY DEF IInv
<1>2. ActiveKey \in Nat BY <1>1, ActiveFacts
<1>3. ActiveKey' \in Nat BY DEF KeysOK, ActiveKey, Active
<1>4. \A a \in asked : Known(a.req)' BY <1>1, KnownStays DEF AskedOK
<1>5. QED BY <1>1, <1>2, <1>3, <1>4 DEF AskedOK, Grows

LEMMA AnswersStay ==
  ASSUME IInv, UNCHANGED <<asked, update, pending, updated>>
  PROVE  /\ AnsweredOK' /\ InTime'
         /\ asked = {} \/ config' = config => FreshAnswers'
         /\ config' \in Nat \/ config' = config => Numbers'
BY DEF IInv, AnsweredOK, InTime, FreshAnswers, Numbers

(* Fewer timers, or the same. *)
LEMMA TimersStay ==
  ASSUME IInv, KeysOK', Grows, timers' \subseteq timers, UNCHANGED <<keys, asked>>
  PROVE  TimersOK'
<1>1. KeysOK /\ TimersOK BY DEF IInv
<1>2. \A t \in timers : Known(t.req)' BY <1>1, KnownStays DEF TimersOK
<1>3. QED BY <1>1, <1>2 DEF TimersOK

(* One more timer, of a request that was never made. *)
LEMMA TimerAdded ==
  ASSUME IInv, KeysOK', Grows, NEW t, timers' = timers \cup {t}, UNCHANGED asked,
         Known(t.req)', t.at \in Nat,
         \A u \in timers : u.req # t.req, \A a \in asked : a.req # t.req,
         t.req.kind = "start" => t.at >= keys'.start,
         \A u \in timers : u.req.kind = "start" => u.req.key < keys'.cur
  PROVE  TimersOK'
<1>1. KeysOK /\ TimersOK BY DEF IInv
<1>2. \A u \in timers : Known(u.req)' BY <1>1, KnownStays DEF TimersOK
<1>3. \A u \in timers : u.req.key \in Nat BY <1>1 DEF TimersOK, Known
<1>4. keys'.cur \in Nat BY DEF KeysOK
<1>5. QED BY <1>1, <1>2, <1>3, <1>4 DEF TimersOK

LEMMA NewKeysSteps ==
  ASSUME IInv, KeysChange
  PROVE  IInv'
<1>1. KeysOK' /\ Grows /\ KeysOK BY KeysStep DEF IInv
<1>2. UNCHANGED <<now, update, pending, asked, updated>>
  BY DEF KeysChange, FindKeys, MakeFirstKeys, MakeKeys, HearOfKeys, Made, Holds
<1>3. asked = {} \/ config' = config
  BY KeylessFacts DEF KeysChange, FindKeys, MakeFirstKeys, MakeKeys, HearOfKeys
<1>4. TimersOK'
  <2>1. CASE FindKeys
    BY <2>1, <1>1, KeylessFacts DEF FindKeys, TimersOK
  <2>2. CASE MakeFirstKeys
    <3>1. /\ timers' = timers \cup {Timer("start", 1, IF keys'.start = 0 THEN now ELSE keys'.start)}
          /\ keys' = FirstKeys(1) /\ phase = "keyless"
      BY <2>2, FirstFacts, <1>1 DEF MakeFirstKeys, Made, Holds
    <3>2. keys'.start = 0 /\ keys'.cur = 1 BY <3>1, <1>1, FirstFacts
    <3>0. PICK t : t = Timer("start", 1, now) OBVIOUS
    <3>3. t.at \in Nat /\ t.at >= keys'.start /\ t.req = [kind |-> "start", key |-> 1]
      BY <1>1, <3>0, <3>2, OidcAssumption DEF Timer, Request, KeysOK
    <3>4. Known(t.req)' BY <3>2, <3>3 DEF Known, Kinds
    <3>5. timers' = timers \cup {t} BY <3>0, <3>1, <3>2
    <3>6. QED BY <1>1, <1>2, <3>1, <3>3, <3>4, <3>5, KeylessFacts, TimerAdded
  <2>3. CASE MakeKeys \/ HearOfKeys
    <3>1. /\ keys' = Rotated(keys, keys.cur + 1, now) /\ phase # "keyless"
          /\ now + StartDelay < MaxTime
      BY <2>3 DEF MakeKeys, HearOfKeys, MayGetNewKeys, Made, Holds
    <3>2. keys'.cur = keys.cur + 1 /\ keys'.start = now + StartDelay /\ keys.cur \in Nat
      BY <1>1, <3>1, RotatedFacts DEF KeysOK
    <3>3. now \in Nat /\ {StartDelay, MillisAsSecs, MaxTime} \subseteq Nat /\ StartDelay > 0
      BY <1>1, OidcAssumption DEF KeysOK
    <3>4. PICK kind \in {"start", "news"}, at \in Nat :
            /\ timers' = timers \cup {Timer(kind, keys.cur + 1, at)}
            /\ kind = "start" => at = keys'.start
      <4>1. CASE MakeKeys
        BY <4>1, <3>1, <3>2, <3>3 DEF MakeKeys, Made
      <4>2. CASE HearOfKeys
        BY <4>2, <3>3 DEF HearOfKeys
      <4>3. QED BY <2>3, <4>1, <4>2
    <3>0. PICK t : t = Timer(kind, keys.cur + 1, at) OBVIOUS
    <3>5. /\ t.at \in Nat /\ t.req = [kind |-> kind, key |-> keys.cur + 1]
          /\ t.req.kind = "start" => t.at >= keys'.start
      BY <3>0, <3>1, <3>2, <3>3, <3>4 DEF Timer, Request
    <3>6. Known(t.req)' BY <3>2, <3>5, <1>1 DEF Known, Kinds
    <3>7. \A r : Known(r) => r # t.req /\ (r.kind = "start" => r.key < keys'.cur)
      BY <3>2, <3>5 DEF Known
    <3>8. (\A u \in timers : Known(u.req)) /\ \A a \in asked : Known(a.req)
      BY DEF IInv, TimersOK, AskedOK
    <3>9. timers' = timers \cup {t} BY <3>0, <3>4
    <3>10. QED BY <1>1, <1>2, <3>5, <3>6, <3>7, <3>8, <3>9, TimerAdded
  <2>4. QED BY <2>1, <2>2, <2>3 DEF KeysChange
<1>5. config' \in Nat \/ config' = config
  <2>1. CASE FindKeys
    BY <1>1, <2>1, FirstFacts, OidcAssumption DEF FindKeys, Active, KeysOK
  <2>2. CASE ~FindKeys
    BY <2>2 DEF KeysChange, MakeFirstKeys, MakeKeys, HearOfKeys
  <2>3. QED BY <2>1, <2>2
<1>6. QED BY <1>1, <1>2, <1>3, <1>4, <1>5, AskedStays, AnswersStay DEF IInv

(* The constructor sets its timers once, and no request is of its kinds    *)
(* before it.                                                              *)
LEMMA ConstructStep ==
  ASSUME IInv, Construct
  PROVE  IInv'
<1>1. KeysOK' /\ Grows /\ KeysOK BY KeysStep DEF IInv
<1>2. UNCHANGED <<now, keys, update, pending, asked, updated, config>>
  BY DEF Construct
<1>3. phase = "starting" /\ phase' = "running" BY DEF Construct
<1>4. TimersOK'
  <2>0. PICK r1, r2 : r1 = Timer("refresh", 0, now + RefreshAfter) /\ r2 = Timer("init", 0, now)
    OBVIOUS
  <2>1. timers' \subseteq timers \cup {r1, r2} BY <2>0 DEF Construct
  <2>2. /\ r1.req = [kind |-> "refresh", key |-> 0] /\ r2.req = [kind |-> "init", key |-> 0]
        /\ r1.at \in Nat /\ r2.at \in Nat
    BY <1>1, <2>0, OidcAssumption DEF Timer, Request, KeysOK
  <2>3. Known(r1.req)' /\ Known(r2.req)' BY <2>2, <1>3 DEF Known, Kinds
  <2>4. \A r : Known(r) => r # r1.req /\ r # r2.req
    BY <2>2, <1>3 DEF Known
  <2>5. \A u \in timers : Known(u.req)' BY <1>1, KnownStays DEF IInv, TimersOK
  <2>6. (\A u \in timers : Known(u.req)) /\ (\A a \in asked : Known(a.req)) /\ TimersOK
    BY DEF IInv, TimersOK, AskedOK
  <2>7. r1.req # r2.req /\ r1.req.kind # "start" /\ r2.req.kind # "start" BY <2>2
  <2>8. QED BY <1>2, <2>1, <2>2, <2>3, <2>4, <2>5, <2>6, <2>7 DEF TimersOK
<1>5. QED BY <1>1, <1>2, <1>4, AskedStays, AnswersStay DEF IInv

LEMMA FireEarlyStep ==
  ASSUME IInv, NEW t \in timers, FireEarly(t)
  PROVE  IInv'
<1>1. /\ UNCHANGED <<now, keys, phase, config, update, pending, asked, updated>>
      /\ timers' \subseteq timers
  BY DEF FireEarly, Due
<1>2. KeysOK' /\ Grows BY <1>1, KeysStep
<1>3. QED BY <1>1, <1>2, TimersStay, AskedStays, AnswersStay DEF IInv

(* The clock, and Keycloak's introspection. *)
LEMMA OtherSteps ==
  ASSUME IInv, Tick \/ (\E k \in 1..MaxKeys : Introspect(k)) \/ UNCHANGED vars
  PROVE  IInv'
<1>1. UNCHANGED <<keys, phase, config, timers, update, pending, asked, updated>>
  BY DEF Tick, Introspect, vars
<1>2. KeysOK' /\ Grows
  <2>1. CASE Tick BY <2>1, KeysStep
  <2>2. CASE ~Tick BY <2>2, KeysStep DEF Introspect, vars
  <2>3. QED BY <2>1, <2>2
<1>3. QED BY <1>1, <1>2, TimersStay, AskedStays, AnswersStay DEF IInv

(* A request that comes is new: who waits already is another.              *)
LEMMA FireStep ==
  ASSUME IInv, NEW t \in timers, Fire(t)
  PROVE  IInv'
<1>1. /\ UNCHANGED <<now, keys, phase, config, updated>>
      /\ timers' = timers \ {t} /\ now >= t.at /\ phase = "running"
      /\ asked' = asked \cup {[req |-> t.req, key |-> ActiveKey]}
      /\ IF update = NoUpdate
         THEN update' = Update({t.req}) /\ UNCHANGED pending
         ELSE pending' = pending \cup {t.req} /\ UNCHANGED update
  BY DEF Fire, Due, RequestUpdate, Ask
<1>2. /\ KeysOK /\ TimersOK /\ AskedOK /\ AnsweredOK /\ InTime /\ FreshAnswers
      /\ KeysOK' /\ Grows
  BY <1>1, KeysStep DEF IInv
<1>3. ActiveKey \in Nat /\ ActiveKey' = ActiveKey BY <1>1, <1>2, ActiveFacts DEF ActiveKey
<1>4. \A a \in asked : a.req # t.req BY <1>2 DEF TimersOK
<1>5. t.req \notin update.by \cup pending \cup updated BY <1>2, <1>4 DEF AnsweredOK
<1>6. TimersOK'
  <2>1. \A u \in timers : Known(u.req)' BY <1>2, KnownStays DEF TimersOK
  <2>2. \A u \in timers \ {t} : u.req # t.req BY <1>2 DEF TimersOK
  <2>3. QED BY <1>1, <1>2, <2>1, <2>2 DEF TimersOK
<1>7. AskedOK'
  <2>1. \A a \in asked : Known(a.req)' BY <1>2, KnownStays DEF AskedOK
  <2>2. Known(t.req)' /\ Known(t.req) BY <1>2, KnownStays DEF TimersOK
  <2>3. t.req.kind = "start" => ActiveKey >= t.req.key
    <3> SUFFICES ASSUME t.req.kind = "start" PROVE ActiveKey >= t.req.key OBVIOUS
    <3>1. t.req.key \in 1..keys.cur BY <2>2 DEF Known
    <3>2. keys.cur \in Nat /\ keys.start \in Nat /\ now \in Nat BY <1>2 DEF KeysOK
    <3>3. CASE t.req.key = keys.cur
      <4>1. keys.start <= now BY <1>1, <1>2, <3>2, <3>3 DEF TimersOK
      <4>2. QED BY <1>2, <4>1, <3>2, <3>3, ActiveFacts
    <3>4. CASE t.req.key # keys.cur
      BY <1>2, <3>1, <3>2, <3>4, ActiveFacts
    <3>5. QED BY <3>3, <3>4
  <2>4. QED BY <1>1, <1>2, <1>3, <2>1, <2>2, <2>3 DEF AskedOK
<1>8. AnsweredOK'
  <2>1. update'.by \cup pending' \cup updated' \subseteq update.by \cup pending \cup updated \cup {t.req}
    BY <1>1 DEF Update
  <2>2. \E a \in asked' : a.req = t.req
    <3> DEFINE a == [req |-> t.req, key |-> ActiveKey]
    <3>1. a \in asked' /\ a.req = t.req BY <1>1
    <3>2. QED BY <3>1, Zenon
  <2>3. QED BY <1>1, <1>2, <2>1, <2>2 DEF AnsweredOK
<1>9. InTime'
  <2>1. CASE update = NoUpdate
    <3>1. update'.key = ActiveKey BY <1>1, <2>1 DEF Update
    <3>2. \A a \in asked' : ActiveKey >= a.key BY <1>1, <1>2, <1>3 DEF AskedOK
    <3>3. QED BY <3>1, <3>2 DEF InTime
  <2>2. CASE update # NoUpdate
    BY <1>1, <1>2, <1>5, <2>2 DEF InTime
  <2>3. QED BY <2>1, <2>2
<1>10. FreshAnswers' BY <1>1, <1>2, <1>5 DEF FreshAnswers
<1>11. Numbers' BY <1>1, <1>3 DEF IInv, Numbers, Update
<1>12. QED BY <1>2, <1>6, <1>7, <1>8, <1>9, <1>10, <1>11 DEF IInv

(* The update ends, and the one that waited begins. *)
LEMMA EndStep ==
  ASSUME IInv, UpdateDone \/ UpdateFails
  PROVE  IInv'
<1>1. /\ UNCHANGED <<now, keys, phase, timers, asked>> /\ update # NoUpdate
      /\ update' = IF pending = {} THEN NoUpdate ELSE Update(pending)
      /\ pending' = {}
      /\ \/ config' = update.key /\ updated' = updated \cup update.by
         \/ UNCHANGED <<config, updated>>
  BY DEF UpdateDone, UpdateFails, BeginNext
<1>2. KeysOK' /\ Grows BY <1>1, KeysStep
<1>3. KeysOK /\ AskedOK /\ AnsweredOK /\ InTime /\ FreshAnswers BY DEF IInv
<1>4. ActiveKey \in Nat BY <1>3, ActiveFacts
<1>5. AnsweredOK'
  <2>1. update'.by \subseteq pending BY <1>1 DEF Update, NoUpdate
  <2>2. QED BY <1>1, <1>3, <2>1 DEF AnsweredOK
<1>6. InTime'
  <2>1. update' # NoUpdate => update'.key = ActiveKey BY <1>1 DEF Update
  <2>2. \A a \in asked : ActiveKey >= a.key BY <1>3, <1>4 DEF AskedOK
  <2>3. QED BY <1>1, <2>1, <2>2 DEF InTime
<1>7. FreshAnswers' BY <1>1, <1>3 DEF FreshAnswers, InTime
<1>8. Numbers' BY <1>1, <1>4 DEF IInv, Numbers, Update, NoUpdate
<1>9. QED BY <1>1, <1>2, <1>5, <1>6, <1>7, <1>8, TimersStay, AskedStays DEF IInv

LEMMA InvNext == IInv /\ [Next]_vars => IInv'
<1> SUFFICES ASSUME IInv, [Next]_vars PROVE IInv' OBVIOUS
<1>1. CASE KeysChange BY <1>1, NewKeysSteps
<1>2. CASE UpdateDone \/ UpdateFails BY <1>2, EndStep
<1>3. CASE Construct BY <1>3, ConstructStep
<1>4. ASSUME NEW t \in timers, FireEarly(t) \/ Fire(t) PROVE IInv'
  BY <1>4, FireEarlyStep, FireStep
<1>5. CASE Tick \/ (\E k \in 1..MaxKeys : Introspect(k)) \/ UNCHANGED vars
  BY <1>5, OtherSteps
<1>6. QED BY <1>1, <1>2, <1>3, <1>4, <1>5 DEF Next, KeysChange

------------------------------------------------------------------------------
(* Who is answered with true has a configuration with a key no older than  *)
(* the one that was active when it asked, however many requests share an   *)
(* update and whichever updates fail between: updateOpenIdConfig.          *)
THEOREM AnswersAreFresh == Spec => []FreshAnswers
<1>1. IInv => FreshAnswers BY DEF IInv
<1>2. QED BY <1>1, InvInit, InvNext, PTL DEF Spec

(* Keycloak is asked to introspect with the new key, as the timer of a key *)
(* does not fire before the key is active: generateClusterKeys.            *)
THEOREM NewKeysAreTested == Spec => []NewKeyIsTested
<1>1. IInv => NewKeyIsTested
  <2> SUFFICES ASSUME IInv, NEW k \in 1..MaxKeys, Request("start", k) \in updated
               PROVE  config >= k
    BY DEF NewKeyIsTested
  <2>1. PICK a \in asked : a.req = Request("start", k) BY DEF IInv, AnsweredOK
  <2>2. config >= a.key /\ a.key \in Nat /\ a.key >= k
    BY <2>1 DEF IInv, FreshAnswers, AskedOK, Request
  <2>3. QED BY <2>2 DEF IInv, Numbers
<1>2. QED BY <1>1, InvInit, InvNext, PTL DEF Spec

(* The active key never goes back, and the previous key is the one before  *)
(* the current one: what the answers rest on (getActiveConnectorKeys).     *)
THEOREM KeysGoForward == Spec => [][ActiveKey' >= ActiveKey]_vars
<1>1. IInv /\ [Next]_vars => [ActiveKey' >= ActiveKey]_vars
  <2> SUFFICES ASSUME IInv, Next PROVE ActiveKey' >= ActiveKey OBVIOUS
  <2>1. KeysChange \/ Tick \/ Construct \/ UNCHANGED <<now, keys, phase>>
    BY DEF Next, KeysChange, UpdateDone, UpdateFails, FireEarly, Fire, Introspect
  <2>2. QED BY <2>1, KeysStep DEF Grows
<1>2. QED BY <1>1, InvInit, InvNext, PTL DEF Spec

------------------------------------------------------------------------------
(***************************************************************************)
(* The types, and the life of a job: its request is made once, so that its *)
(* tries are counted from the start of its introspection.                  *)
(***************************************************************************)
Positions == {"none", "waiting", "updating", "introspecting", "finished"}

(* The request of job k is still to come, or waits for its answer. *)
Awaited(k) == \/ \E t \in timers : t.req = Request("start", k)
              \/ Request("start", k) \in update.by \cup pending

JobsOK ==
  /\ update.by \cap pending = {}
  /\ \A k \in 1..MaxKeys :
       /\ job[k] # "finished" => tries[k] < MaxTries
       /\ k > keys.cur => job[k] = "none"
       /\ Awaited(k) => job[k] \in {"waiting", "updating"}

TypeInv == IInv /\ OidcTypeOK /\ JobsOK

(* What follows of it for the key that is active. *)
LEMMA BoundedFacts ==
  ASSUME TypeInv
  PROVE  /\ ActiveKey \in 0..MaxKeys /\ keys.cur \in 0..MaxKeys /\ keys.prev \in 0..MaxKeys
         /\ keys.start \in Nat /\ keys.exp \in Nat /\ now \in Nat /\ MaxKeys \in Nat /\ MaxTries \in Nat \ {0}
         /\ OidcTypeOK /\ JobsOK /\ IInv
BY OidcAssumption DEF TypeInv, OidcTypeOK, KeySets, ActiveKey, Active

LEMMA TypeInit ==
  ASSUME Init  PROVE TypeInv
<1>1. OidcTypeOK
  <2>1. mark \in BOOLEAN
    BY Zenon DEF Init
  <2>2. keys \in KeySets(MaxKeys) /\ update \in [by : SUBSET Requests, key : 0..MaxKeys, since : Nat]
    BY OidcAssumption DEF Init, KeySets, NoKeys, NoUpdate
  <2>3. /\ job \in [1..MaxKeys -> {"none", "waiting", "updating", "introspecting", "finished"}]
        /\ tries \in [1..MaxKeys -> 0..MaxTries]
    BY OidcAssumption DEF Init
  <2>4. QED  BY <2>1, <2>2, <2>3, OidcAssumption DEF Init, OidcTypeOK
<1>2. JobsOK
  BY OidcAssumption DEF Init, JobsOK, Awaited, NoUpdate
<1>3. QED  BY <1>1, <1>2, InvInit DEF TypeInv

(* A timer is of a request. *)
LEMMA TimerFacts ==
  ASSUME NEW kind \in Kinds, NEW k \in 0..MaxKeys, NEW at \in Nat
  PROVE  /\ Timer(kind, k, at).req \in Requests /\ Timer(kind, k, at).req = Request(kind, k)
         /\ Timer(kind, k, at).at \in Nat
BY OidcAssumption DEF Timer, Request, Requests

LEMMA RotatedTyped ==
  ASSUME TypeInv, keys.cur < MaxKeys, phase # "keyless"
  PROVE  /\ Rotated(keys, keys.cur + 1, now) \in KeySets(MaxKeys) /\ keys.cur + 1 \in 1..MaxKeys
         /\ Rotated(keys, keys.cur + 1, now).cur = keys.cur + 1
         /\ Rotated(keys, keys.cur + 1, now).start = now + StartDelay
<1>1. keys # NoKeys
  BY DEF TypeInv, IInv, KeysOK, NoKeys
<1>2. QED  BY <1>1, BoundedFacts, OidcAssumption DEF Rotated, KeySets

(* Keys that are made here. *)
LEMMA MadeTyped ==
  ASSUME TypeInv, NEW k \in KeySets(MaxKeys), k.cur \in 1..MaxKeys, k.cur = keys.cur + 1, Made(k),
         phase' \in {"keyless", "starting", "running"}, config' \in 0..MaxKeys
  PROVE  OidcTypeOK' /\ JobsOK'
<1>1. PICK t : /\ t = Timer("start", k.cur, IF k.start = 0 THEN now ELSE k.start)
               /\ t.req = Request("start", k.cur) /\ t.req \in Requests /\ t.at \in Nat
  BY BoundedFacts, TimerFacts DEF KeySets, Kinds
<1>2. /\ timers' = timers \cup {t} /\ keys' = k /\ job' = [job EXCEPT ![k.cur] = "waiting"]
      /\ UNCHANGED <<now, mark, update, pending, asked, updated, failures, tries, caches>>
  BY <1>1 DEF Made, Holds
<1>3. job' \in [1..MaxKeys -> Positions]
  BY <1>2, BoundedFacts DEF OidcTypeOK, Positions
<1>4. OidcTypeOK'
  BY <1>1, <1>2, <1>3, BoundedFacts DEF OidcTypeOK, Positions
<1>5. job[k.cur] = "none" /\ \A j \in 1..MaxKeys : j > k.cur => j > keys.cur /\ j # k.cur
  BY BoundedFacts DEF JobsOK
<1>6. \A j \in 1..MaxKeys : job'[j] = IF j = k.cur THEN "waiting" ELSE job[j]
  BY <1>2, BoundedFacts DEF OidcTypeOK
<1>7. \A j \in 1..MaxKeys : j # k.cur => (Awaited(j)' => Awaited(j))
  BY <1>1, <1>2 DEF Awaited, Request
<1>8. JobsOK'
  BY <1>2, <1>5, <1>6, <1>7, BoundedFacts DEF JobsOK
<1>9. QED  BY <1>4, <1>8

LEMMA KeysTyped ==
  ASSUME TypeInv, KeysChange  PROVE OidcTypeOK' /\ JobsOK'
<1>1. /\ FirstKeys(1) \in KeySets(MaxKeys) /\ FirstKeys(1).cur = 1
      /\ Rotated(FirstKeys(1), 2, now) \in KeySets(MaxKeys) /\ 1 \in 1..MaxKeys /\ 1 \in 0..MaxKeys
      /\ Active(FirstKeys(1), now) \in 0..MaxKeys /\ Active(Rotated(FirstKeys(1), 2, now), now) \in 0..MaxKeys
  BY BoundedFacts, FirstFacts, OidcAssumption DEF KeySets, Active, IInv
<1>2. CASE FindKeys
  <2>1. PICK k \in KeySets(MaxKeys) :
          /\ keys' = k /\ config' \in 0..MaxKeys /\ phase' = "starting"
          /\ UNCHANGED <<now, mark, update, pending, asked, updated, failures, tries, caches, timers, job>>
    BY <1>1, <1>2 DEF FindKeys, Holds
  <2>2. OidcTypeOK'
    BY <2>1, BoundedFacts DEF OidcTypeOK
  <2>3. keys.cur = 0 /\ k.cur \in Nat
    BY <1>2, <2>1, KeylessFacts, BoundedFacts DEF FindKeys, KeySets
  <2>4. JobsOK'
    BY <2>1, <2>3, BoundedFacts DEF JobsOK, Awaited
  <2>5. QED  BY <2>2, <2>4
<1>3. CASE MakeFirstKeys
  BY <1>1, <1>3, MadeTyped, KeylessFacts, BoundedFacts DEF MakeFirstKeys
<1>4. CASE MakeKeys
  <2>1. keys.cur < MaxKeys /\ phase # "keyless" /\ Made(Rotated(keys, keys.cur + 1, now))
    BY <1>4 DEF MakeKeys, MayGetNewKeys
  <2>2. UNCHANGED <<phase, config>> /\ phase' \in {"keyless", "starting", "running"} /\ config' \in 0..MaxKeys
    BY <1>4, BoundedFacts DEF MakeKeys, OidcTypeOK
  <2>3. QED  BY <2>1, <2>2, RotatedTyped, MadeTyped
<1>5. CASE HearOfKeys
  <2>1. /\ keys.cur < MaxKeys /\ phase # "keyless" /\ keys' = Rotated(keys, keys.cur + 1, now)
        /\ timers' = timers \cup {Timer("news", keys.cur + 1, now + MillisAsSecs)}
        /\ UNCHANGED <<now, mark, update, pending, asked, updated, failures, tries, caches, phase, config, job>>
    BY <1>5 DEF HearOfKeys, MayGetNewKeys, Holds
  <2>2. keys' \in KeySets(MaxKeys) /\ keys'.cur = keys.cur + 1 /\ keys.cur + 1 \in 1..MaxKeys
    BY <2>1, RotatedTyped
  <2>3. PICK t : /\ t = Timer("news", keys.cur + 1, now + MillisAsSecs)
                 /\ t.req = Request("news", keys.cur + 1) /\ t.req \in Requests /\ t.at \in Nat
    <3>1. now + MillisAsSecs \in Nat /\ keys.cur + 1 \in 0..MaxKeys
      BY <2>2, BoundedFacts, OidcAssumption
    <3>2. QED  BY <3>1, TimerFacts DEF Kinds
  <2>4. OidcTypeOK'
    BY <2>1, <2>2, <2>3, BoundedFacts DEF OidcTypeOK
  <2>5. \A j \in 1..MaxKeys : Awaited(j)' => Awaited(j)
    BY <2>1, <2>3 DEF Awaited, Request
  <2>6. JobsOK'
    BY <2>1, <2>2, <2>5, BoundedFacts DEF JobsOK
  <2>7. QED  BY <2>4, <2>6
<1>6. QED  BY <1>2, <1>3, <1>4, <1>5 DEF KeysChange

(* A request that was made has no timer any more. *)
LEMMA MadeOnce ==
  ASSUME TypeInv
  PROVE  /\ \A r \in update.by \cup pending \cup updated : \A t \in timers : t.req # r
         /\ \A k : Request("start", k) \in update.by \cup pending => k \in 1..keys.cur
BY DEF TypeInv, IInv, AnsweredOK, TimersOK, AskedOK, Known, Request

LEMMA FiredTyped ==
  ASSUME TypeInv, NEW t \in timers, FireEarly(t) \/ Fire(t)  PROVE OidcTypeOK' /\ JobsOK'
<1>1. /\ t.req \in Requests /\ timers' = timers \ {t}
      /\ UNCHANGED <<now, keys, phase, config, updated, failures, tries, caches>>
  BY BoundedFacts DEF FireEarly, Fire, Due, OidcTypeOK
<1>2. /\ \A u \in timers \ {t} : u.req # t.req
      /\ t.req \notin update.by \cup pending
      /\ t.req.kind = "start" => t.req.key \in 1..keys.cur /\ t.req = Request("start", t.req.key)
  <2>1. TimersOK /\ Known(t.req)
    BY DEF TypeInv, IInv, TimersOK
  <2>2. t.req.kind = "start" => t.req = Request("start", t.req.key)
    BY <1>1 DEF Requests, Request
  <2>3. QED  BY <2>1, <2>2, MadeOnce DEF TimersOK, Known
<1>3. CASE FireEarly(t)
  <2>1. UNCHANGED <<update, pending, asked>>
    BY <1>3 DEF FireEarly
  <2>2. mark' \in BOOLEAN
    BY <1>3, BoundedFacts, Zenon DEF FireEarly, OidcTypeOK
  <2>3. job' = job \/ (t.req.kind = "start" /\ job' = [job EXCEPT ![t.req.key] = "finished"])
    BY <1>3 DEF FireEarly
  <2>4. job' \in [1..MaxKeys -> Positions]
    BY <2>3, BoundedFacts DEF OidcTypeOK, Positions
  <2>5. OidcTypeOK'
    BY <1>1, <2>1, <2>2, <2>4, BoundedFacts DEF OidcTypeOK, Positions
  <2>6. ASSUME NEW k \in 1..MaxKeys
        PROVE  /\ Awaited(k)' => Awaited(k)
               /\ job'[k] = job[k] \/ (job'[k] = "finished" /\ t.req = Request("start", k) /\ k \in 1..keys.cur)
    <3>1. Awaited(k)' => Awaited(k)
      BY <1>1, <2>1 DEF Awaited
    <3>2. job \in [1..MaxKeys -> Positions]
      BY BoundedFacts DEF OidcTypeOK, Positions
    <3>3. QED  BY <1>2, <2>3, <3>1, <3>2
  <2>7. \A k \in 1..MaxKeys : t.req = Request("start", k) => ~Awaited(k)'
    BY <1>1, <1>2, <2>1 DEF Awaited
  <2>8. JobsOK'
    BY <1>1, <2>1, <2>6, <2>7, BoundedFacts DEF JobsOK
  <2>9. QED  BY <2>5, <2>8
<1>4. CASE Fire(t)
  <2>1. /\ mark' = mark /\ asked' = asked \cup {[req |-> t.req, key |-> ActiveKey]}
        /\ \/ update = NoUpdate /\ update' = Update({t.req}) /\ pending' = pending
           \/ update' = update /\ pending' = pending \cup {t.req}
        /\ job' = job \/ (t.req.kind = "start" /\ job' = [job EXCEPT ![t.req.key] = "updating"])
    BY <1>4 DEF Fire, RequestUpdate, Ask
  <2>2. job' \in [1..MaxKeys -> Positions]
    BY <2>1, BoundedFacts DEF OidcTypeOK, Positions
  <2>3. Update({t.req}) \in [by : SUBSET Requests, key : 0..MaxKeys, since : Nat] /\ Update({t.req}).by = {t.req}
    BY <1>1, BoundedFacts DEF Update
  <2>10. /\ update' \in [by : SUBSET Requests, key : 0..MaxKeys, since : Nat]
         /\ pending' \subseteq Requests /\ asked' \subseteq [req : Requests, key : 0..MaxKeys]
    <3>1. /\ update \in [by : SUBSET Requests, key : 0..MaxKeys, since : Nat] /\ pending \subseteq Requests
          /\ asked \subseteq [req : Requests, key : 0..MaxKeys]
      BY BoundedFacts DEF OidcTypeOK
    <3>2. [req |-> t.req, key |-> ActiveKey] \in [req : Requests, key : 0..MaxKeys]
      BY <1>1, BoundedFacts
    <3>3. update' \in [by : SUBSET Requests, key : 0..MaxKeys, since : Nat] /\ pending' \subseteq Requests
      BY <1>1, <2>1, <2>3, <3>1
    <3>4. QED  BY <2>1, <3>1, <3>2, <3>3
  <2>4. OidcTypeOK'
    BY <1>1, <2>1, <2>2, <2>10, BoundedFacts DEF OidcTypeOK, Positions
  <2>5. ASSUME NEW k \in 1..MaxKeys
        PROVE  /\ Awaited(k)' => Awaited(k)
               /\ job'[k] = job[k] \/ (job'[k] = "updating" /\ t.req = Request("start", k) /\ k \in 1..keys.cur)
    <3>1. Awaited(k)' => Awaited(k)
      BY <1>1, <2>1, <2>3 DEF Awaited
    <3>2. job \in [1..MaxKeys -> Positions]
      BY BoundedFacts DEF OidcTypeOK, Positions
    <3>3. QED  BY <1>2, <2>1, <3>1, <3>2
  <2>6. \A k \in 1..MaxKeys : t.req = Request("start", k) => Awaited(k)
    BY DEF Awaited
  <2>7. update'.by \cap pending' = {}
    BY <1>2, <2>1, <2>3, BoundedFacts DEF JobsOK
  <2>8. JobsOK'
    BY <1>1, <2>5, <2>6, <2>7, BoundedFacts DEF JobsOK
  <2>9. QED  BY <2>4, <2>8
<1>5. QED  BY <1>3, <1>4

LEMMA EndTyped ==
  ASSUME TypeInv, UpdateDone \/ UpdateFails  PROVE OidcTypeOK' /\ JobsOK'
<1>1. /\ UNCHANGED <<now, keys, phase, timers, mark, asked, tries, caches>>
      /\ update' = (IF pending = {} THEN NoUpdate ELSE Update(pending)) /\ pending' = {}
      /\ job' = [k \in 1..MaxKeys |-> IF Request("start", k) \in update.by THEN "introspecting" ELSE job[k]]
  BY DEF UpdateDone, UpdateFails, BeginNext, Resume
<1>2. /\ config' = config \/ config' = update.key
      /\ updated' = updated \/ updated' = updated \cup update.by
      /\ failures' = failures \/ (failures < MaxFailures /\ failures' = failures + 1)
  BY DEF UpdateDone, UpdateFails
<1>3. /\ update' \in [by : SUBSET Requests, key : 0..MaxKeys, since : Nat]
      /\ update'.by = pending
  <2>1. pending \subseteq Requests
    BY BoundedFacts DEF OidcTypeOK
  <2>2. QED  BY <1>1, <2>1, BoundedFacts DEF Update, NoUpdate
<1>4. job' \in [1..MaxKeys -> Positions]
  BY <1>1, BoundedFacts DEF OidcTypeOK, Positions
<1>5. /\ config' \in 0..MaxKeys /\ updated' \subseteq Requests /\ failures' \in 0..MaxFailures
  <2>1. /\ config \in 0..MaxKeys /\ update.key \in 0..MaxKeys /\ update.by \subseteq Requests
        /\ updated \subseteq Requests /\ failures \in 0..MaxFailures /\ MaxFailures \in Nat
    BY BoundedFacts, OidcAssumption DEF OidcTypeOK
  <2>2. QED  BY <1>2, <2>1
<1>6. OidcTypeOK'
  BY <1>1, <1>3, <1>4, <1>5, BoundedFacts DEF OidcTypeOK, Positions
<1>7. ASSUME NEW k \in 1..MaxKeys
      PROVE  /\ job'[k] = IF Request("start", k) \in update.by THEN "introspecting" ELSE job[k]
             /\ Awaited(k)' => Awaited(k)
             /\ Request("start", k) \in update.by => Awaited(k) /\ ~Awaited(k)' /\ k \in 1..keys.cur
  BY <1>1, <1>3, MadeOnce, BoundedFacts DEF Awaited, JobsOK
<1>8. JobsOK'
  BY <1>1, <1>3, <1>7, BoundedFacts DEF JobsOK
<1>9. QED  BY <1>6, <1>8

LEMMA IntrospectTyped ==
  ASSUME TypeInv, NEW k \in 1..MaxKeys, Introspect(k)  PROVE OidcTypeOK' /\ JobsOK'
<1>1. /\ UNCHANGED <<now, keys, phase, config, timers, mark, update, pending, asked, updated, failures, caches>>
      /\ job[k] = "introspecting" /\ tries' = [tries EXCEPT ![k] = tries[k] + 1]
      /\ job' = [job EXCEPT ![k] = "finished"] \/ (tries[k] + 1 < MaxTries /\ job' = job)
  BY DEF Introspect
<1>2. tries[k] \in Nat /\ tries[k] + 1 \in 0..MaxTries
  <2>1. tries[k] \in 0..MaxTries
    BY DEF TypeInv, OidcTypeOK
  <2>2. tries[k] < MaxTries
    BY <1>1 DEF TypeInv, JobsOK
  <2>3. QED  BY <2>1, <2>2, BoundedFacts
<1>3. tries' \in [1..MaxKeys -> 0..MaxTries] /\ job' \in [1..MaxKeys -> Positions]
  BY <1>1, <1>2, BoundedFacts DEF OidcTypeOK, Positions
<1>4. OidcTypeOK'
  BY <1>1, <1>3, BoundedFacts DEF OidcTypeOK, Positions
<1>5. ASSUME NEW j \in 1..MaxKeys
      PROVE  /\ j # k => job'[j] = job[j] /\ tries'[j] = tries[j]
             /\ j = k => job'[j] = "finished" \/ (job'[j] = job[j] /\ tries'[j] < MaxTries)
             /\ Awaited(j)' => Awaited(j)
  BY <1>1, BoundedFacts DEF OidcTypeOK, Awaited
<1>6. JobsOK'
  BY <1>1, <1>5, BoundedFacts DEF JobsOK
<1>7. QED  BY <1>4, <1>6

LEMMA RestTyped ==
  ASSUME TypeInv, Tick \/ Construct \/ UNCHANGED vars  PROVE OidcTypeOK' /\ JobsOK'
<1>1. UNCHANGED <<keys, config, mark, update, pending, asked, updated, failures, job, tries>>
  BY DEF Tick, Construct, vars
<1>2. now' \in Nat /\ caches' \in 0..MaxKeys /\ phase' \in {"keyless", "starting", "running"}
  BY BoundedFacts DEF OidcTypeOK, Tick, Construct, MakeCaches, vars
<1>3. PICK r1, r2 : /\ r1 = Timer("refresh", 0, now + RefreshAfter) /\ r2 = Timer("init", 0, now)
                    /\ r1.req = Request("refresh", 0) /\ r2.req = Request("init", 0)
                    /\ r1.req \in Requests /\ r1.at \in Nat /\ r2.req \in Requests /\ r2.at \in Nat
  <2>1. now + RefreshAfter \in Nat /\ now \in Nat /\ 0 \in 0..MaxKeys
    BY BoundedFacts, OidcAssumption
  <2>2. QED  BY <2>1, TimerFacts DEF Kinds
<1>4. timers' \subseteq timers \cup {r1, r2}
  BY <1>3 DEF Tick, Construct, vars
<1>5. OidcTypeOK'
  BY <1>1, <1>2, <1>3, <1>4, BoundedFacts DEF OidcTypeOK
<1>6. \A k \in 1..MaxKeys : Awaited(k)' => Awaited(k)
  BY <1>1, <1>3, <1>4 DEF Awaited, Request
<1>7. JobsOK'
  BY <1>1, <1>6, BoundedFacts DEF JobsOK
<1>8. QED  BY <1>5, <1>7

(* Every variable has its type: keys and tries stay within their bounds, as *)
(* the request of each job is made once (updateOidcServer). *)
THEOREM OidcTyping == Spec => []OidcTypeOK
<1>1. ASSUME TypeInv, [Next]_vars  PROVE TypeInv'
  <2>1. IInv'
    BY <1>1, InvNext DEF TypeInv
  <2>2. OidcTypeOK' /\ JobsOK'
    BY <1>1, KeysTyped, FiredTyped, EndTyped, IntrospectTyped, RestTyped DEF Next, KeysChange
  <2>3. QED  BY <2>1, <2>2 DEF TypeInv
<1>2. TypeInv => OidcTypeOK
  BY DEF TypeInv
<1>3. QED  BY <1>1, <1>2, TypeInit, PTL DEF Spec
==============================================================================
