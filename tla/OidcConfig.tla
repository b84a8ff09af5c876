------------------------------ MODULE OidcConfig ------------------------------
(***************************************************************************)
(* How one instance comes to sign with the active key: the OIDC            *)
(* configuration of class KeycloakConnector holds the key that signs its   *)
(* client assertions, and updateOpenIdConfig builds a new configuration    *)
(* with the key that is active then.  Updates do not overlap: a request    *)
(* made while one runs is kept, and all that come meanwhile share it.      *)
(*                                                                         *)
(* A request is a timer that fires: "start", of the instance that made the *)
(* keys, when the new key starts; "news", of an instance that was told of  *)
(* them (handleNewJwks); "refresh", refreshConfigMins after the            *)
(* constructor; "init", when the constructor finds a mark left by a        *)
(* "start" that fired before it.  It is named by its kind and its key.     *)
(*                                                                         *)
(* How the keys reach the instance is in module ClusterKeys; here they     *)
(* change at once, made by the instance or by another.  The read of the    *)
(* store by "news" finds the keys that the instance has.  Keycloak answers *)
(* the discovery in the end, or fails; MaxFailures bounds the failures.    *)
(***************************************************************************)
EXTENDS Naturals, FiniteSets

CONSTANTS StartDelay, MaxStartDelay, PrevExpiry, MaxPrevExpiry,
          MillisAsSecs,   \* how long a timer of `epoch seconds' ms runs: 20 days
          RefreshAfter,   \* refreshConfigMins
          MaxTries,       \* of updateOidcServer, 4 in the code
          MaxTime, MaxKeys, MaxFailures

ASSUME OidcAssumption ==
  /\ {StartDelay, PrevExpiry, MillisAsSecs, RefreshAfter, MaxTries} \subseteq Nat \ {0}
  /\ {MaxStartDelay, MaxPrevExpiry, MaxTime, MaxFailures} \subseteq Nat
  /\ MaxKeys \in Nat \ {0, 1}   \* an instance may start with two keys

INSTANCE ConnectorKeys

VARIABLES
  now,
  keys,       \* clusterConnectorKeys
  phase,      \* "keyless", "starting" (it has its first keys), "running"
  config,     \* the key of oidcConfig; before "running", of the one being fetched
  caches,     \* the key of the configuration that the token cache was made with
  timers,     \* timers that will ask for an update
  mark,       \* initPendingOidcServerUpdate
  update,     \* updateOidcConfig: who waits for the running update, its key and begin
  pending,    \* updateOidcConfigPending: who waits for the next update
  asked,      \* history: the requests, each with the key that was active then
  updated,    \* history: the requests that were answered with true
  failures,
  job,        \* the rotations made here: what follows the "start" timer
  tries

vars == <<now, keys, phase, config, caches, timers, mark, update, pending, asked, updated,
          failures, job, tries>>

Kinds    == {"start", "news", "refresh", "init"}
Requests == [kind : Kinds, key : 0..MaxKeys]
Request(kind, key) == [kind |-> kind, key |-> key]

NoUpdate == [by |-> {}, key |-> 0, since |-> 0]

ActiveKey == Active(keys, now)

Update(by) == [by |-> by, key |-> ActiveKey, since |-> now]

Timer(kind, key, t) == [req |-> Request(kind, key), at |-> IF t > MaxTime THEN MaxTime + 1 ELSE t]

Init ==
  /\ now = 2 /\ keys = NoKeys /\ phase = "keyless" /\ config = 0 /\ caches = 0
  /\ timers = {} /\ mark = FALSE
  /\ update = NoUpdate /\ pending = {}
  /\ asked = {} /\ updated = {} /\ failures = 0
  /\ job = [k \in 1..MaxKeys |-> "none"] /\ tries = [k \in 1..MaxKeys |-> 0]

------------------------------------------------------------------------------
(***************************************************************************)
(* The keys of the instance.                                               *)
(***************************************************************************)
Holds(k) ==
  /\ keys' = k
  /\ UNCHANGED <<now, mark, update, pending, asked, updated, failures, tries, caches>>

(* getActiveKeys of init, with the keys of an earlier run or of another
   instance, whose key may not have started. *)
FindKeys ==
  /\ phase = "keyless" /\ phase' = "starting"
  /\ \E k \in {FirstKeys(1), Rotated(FirstKeys(1), 2, now)} :
       Holds(k) /\ config' = Active(k, now)
  /\ UNCHANGED <<timers, job>>

(* Mutant of Made: the timer does not wait for the start. *)
Made_NoWait(k) ==
  /\ Holds(k)
  /\ timers' = timers \cup {Timer("start", k.cur, now)}
  /\ job' = [job EXCEPT ![k.cur] = "waiting"]

(* generateClusterKeys: the timer runs until the new key starts. *)
Made(k) ==
  /\ Holds(k)
  /\ timers' = timers \cup {Timer("start", k.cur, IF k.start = 0 THEN now ELSE k.start)}
  /\ job' = [job EXCEPT ![k.cur] = "waiting"]

MakeFirstKeys ==
  /\ phase = "keyless" /\ phase' = "starting"
  /\ Made(FirstKeys(1)) /\ config' = 1

(* The last rotation leaves room for its start. *)
MayGetNewKeys ==
  /\ phase # "keyless" /\ keys.cur < MaxKeys /\ MayRotate(keys, now)
  /\ now + StartDelay < MaxTime

MakeKeys ==
  /\ MayGetNewKeys
  /\ Made(Rotated(keys, keys.cur + 1, now))
  /\ UNCHANGED <<phase, config>>

(* handleNewJwks: the timer of currentStart milliseconds, though currentStart
   is a number of seconds. *)
HearOfKeys ==
  /\ MayGetNewKeys
  /\ Holds(Rotated(keys, keys.cur + 1, now))
  /\ timers' = timers \cup {Timer("news", keys.cur + 1, now + MillisAsSecs)}
  /\ UNCHANGED <<phase, config, job>>

(***************************************************************************)
(* updateOpenIdConfig.  The key is read when an update begins.             *)
(***************************************************************************)
Ask(r) == asked' = asked \cup {[req |-> r, key |-> ActiveKey]}

(* Mutant of RequestUpdate: a request joins the update that is running. *)
RequestUpdate_JoinRunning(r) ==
  /\ Ask(r)
  /\ update' = IF update = NoUpdate THEN Update({r})
               ELSE [update EXCEPT !.by = @ \cup {r}]
  /\ UNCHANGED pending

RequestUpdate(r) ==
  /\ Ask(r)
  /\ IF update = NoUpdate
     THEN update' = Update({r}) /\ UNCHANGED pending
     ELSE pending' = pending \cup {r} /\ UNCHANGED update

(* The update that waited begins in the same turn of the event loop in which
   the running one ends. *)
BeginNext ==
  /\ update' = IF pending = {} THEN NoUpdate ELSE Update(pending)
  /\ pending' = {}

(* What follows for the job of a "start" request, whatever the answer is:
   updateOidcServer. *)
Resume(answered) ==
  job' = [k \in 1..MaxKeys |->
            IF Request("start", k) \in answered THEN "introspecting" ELSE job[k]]

UpdateDone ==
  /\ update # NoUpdate
  /\ config' = update.key
  /\ updated' = updated \cup update.by
  /\ BeginNext /\ Resume(update.by)
  /\ UNCHANGED <<now, keys, phase, timers, mark, asked, failures, tries, caches>>

UpdateFails ==
  /\ update # NoUpdate /\ failures < MaxFailures
  /\ failures' = failures + 1
  /\ BeginNext /\ Resume(update.by)
  /\ UNCHANGED <<now, keys, phase, config, timers, mark, asked, updated, tries, caches>>

(***************************************************************************)
(* The timers.  Before the constructor registers the callbacks there is no *)
(* onActiveKeyUpdate, and updateOidcServer only leaves a mark.             *)
(***************************************************************************)
Due(t) == t \in timers /\ now >= t.at /\ timers' = timers \ {t}

FireEarly(t) ==
  /\ Due(t) /\ phase = "starting"
  /\ IF t.req.kind = "start"
     THEN mark' = TRUE /\ job' = [job EXCEPT ![t.req.key] = "finished"]
     ELSE UNCHANGED <<mark, job>>
  /\ UNCHANGED <<now, keys, phase, config, update, pending, asked, updated, failures, tries, caches>>

Fire(t) ==
  /\ Due(t) /\ phase = "running"
  /\ RequestUpdate(t.req)
  /\ job' = IF t.req.kind = "start" THEN [job EXCEPT ![t.req.key] = "updating"] ELSE job
  /\ UNCHANGED <<now, keys, phase, config, mark, updated, failures, tries, caches>>

(* init makes the token cache with the configuration it just fetched. *)
MakeCaches == caches' = config

(* Mutant of Construct: registerCallbacks does not look for the mark. *)
Construct_NoMark ==
  /\ phase = "starting" /\ phase' = "running" /\ MakeCaches
  /\ timers' = timers \cup {Timer("refresh", 0, now + RefreshAfter)}
  /\ UNCHANGED <<now, keys, config, mark, update, pending, asked, updated, failures, job, tries>>

(* The first configuration has come: the constructor and registerCallbacks. *)
Construct ==
  /\ phase = "starting" /\ phase' = "running" /\ MakeCaches
  /\ timers' = timers \cup {Timer("refresh", 0, now + RefreshAfter)}
                      \cup {Timer("init", 0, now) : x \in {mark} \cap {TRUE}}
  /\ UNCHANGED <<now, keys, config, mark, update, pending, asked, updated, failures, job, tries>>

(* updateOidcServer asks Keycloak to introspect, which makes it fetch the public
   keys; after that, or when all tries failed, the job is finished. *)
Introspect(k) ==
  /\ job[k] = "introspecting"
  /\ tries' = [tries EXCEPT ![k] = @ + 1]
  /\ \/ job' = [job EXCEPT ![k] = "finished"]
     \/ tries[k] + 1 < MaxTries /\ UNCHANGED job
  /\ UNCHANGED <<now, keys, phase, config, timers, mark, update, pending, asked, updated, failures, caches>>

(* A unit of time is a minute: due timers fire within it, and so does a
   discovery end (its timeout is 15 seconds), though not in the minute it began.
   The first discovery is tried again for long. *)
Tick ==
  /\ now < MaxTime /\ now' = now + 1
  /\ \A t \in timers : t.at > now
  /\ update = NoUpdate \/ update.since = now
  /\ UNCHANGED <<keys, phase, config, timers, mark, update, pending, asked, updated,
                 failures, job, tries, caches>>

Next ==
  \/ FindKeys \/ MakeFirstKeys \/ MakeKeys \/ HearOfKeys
  \/ UpdateDone \/ UpdateFails \/ Construct \/ Tick
  \/ \E t \in timers : FireEarly(t) \/ Fire(t)
  \/ \E k \in 1..MaxKeys : Introspect(k)

Fairness ==
  /\ WF_vars(Tick) /\ WF_vars(Construct) /\ WF_vars(UpdateDone)
  /\ WF_vars(\E t \in timers : FireEarly(t) \/ Fire(t))
  /\ \A k \in 1..MaxKeys : WF_vars(Introspect(k))

Spec == Init /\ [][Next]_vars /\ Fairness

------------------------------------------------------------------------------
(* Type correctness. *)
OidcTypeOK ==
  /\ now \in Nat /\ keys \in KeySets(MaxKeys)
  /\ {config, caches} \subseteq 0..MaxKeys
  /\ phase \in {"keyless", "starting", "running"} /\ mark \in BOOLEAN
  /\ \A t \in timers : t.req \in Requests /\ t.at \in Nat
  /\ update \in [by : SUBSET Requests, key : 0..MaxKeys, since : Nat]
  /\ pending \subseteq Requests /\ updated \subseteq Requests
  /\ asked \subseteq [req : Requests, key : 0..MaxKeys]
  /\ failures \in 0..MaxFailures
  /\ job \in [1..MaxKeys -> {"none", "waiting", "updating", "introspecting", "finished"}]
  /\ tries \in [1..MaxKeys -> 0..MaxTries]

(* A request that is answered with true got what it asked for: the
   configuration has a key no older than the one that was active when it was
   made, however many requests share the update.  (updateOpenIdConfig) *)
FreshAnswers ==
  \A a \in asked : a.req \in updated => config >= a.key

(* Keycloak is asked to introspect, which makes it fetch the public keys, with
   the new key, unless the update failed.  (the start timer of
   generateClusterKeys, updateOidcServer) *)
NewKeyIsTested ==
  \A k \in 1..MaxKeys :
    job[k] = "introspecting" /\ Request("start", k) \in updated => config >= k

(* An instance that makes keys ends up with a configuration that uses them,
   also when they start before its constructor registered the callbacks, unless
   Keycloak's answer failed.  (generateClusterKeys, registerCallbacks) *)
MakerSwitches ==
  \A k \in 1..MaxKeys : job[k] = "waiting" ~> config >= k \/ failures > 0

(* What a comment of handleNewJwks says: an instance that was told of new keys
   uses the new one once it is active. *)
HeardOf(key) == \E t \in timers : t.req = Request("news", key)

ActiveKeyUsed ==
  /\ phase = "running" /\ HeardOf(keys.cur) /\ now > keys.start
  /\ update = NoUpdate /\ failures = 0
  => config = keys.cur

(* What why.md:13 promises, "Automatic asymmetric key rotation on the fly": an
   instance whose configuration has the current key signs the refreshes of its
   token cache, too, with a key that Keycloak finds among the public ones. *)
PublicKeys == {keys.cur} \cup {k \in {keys.prev} : PrevValid(keys, now)}

RefreshKeyIsPublic ==
  phase = "running" /\ config = keys.cur => caches \in PublicKeys

(* What a comment of the constructor says of the option refreshConfigMins,
   "updating the OP oidc configuration periodically": at any time the next of
   these updates is to come, or is under way. *)
RefreshIsPeriodic ==
  phase = "running" =>
    \/ \E t \in timers : t.req = Request("refresh", 0)
    \/ Request("refresh", 0) \in update.by \cup pending
==============================================================================
