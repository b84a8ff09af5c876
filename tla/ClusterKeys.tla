----------------------------- MODULE ClusterKeys -----------------------------
(***************************************************************************)
(* The signing keys that the instances of a cluster share: class           *)
(* ClusterKeyProvider over the redis cluster provider.  What an instance   *)
(* does with the active key (the callbacks) is in module OidcConfig.       *)
(*                                                                         *)
(* A rotation (generateClusterKeys) takes the cluster lock, reads the      *)
(* stored keys, makes new ones that start later, announces them as         *)
(* pending, stores them if it still holds the lock, announces them as new  *)
(* and unlocks.  It is run for a request that arrives on the channel (a    *)
(* job) and by an instance that starts and finds no keys (generateKeys).   *)
(*                                                                         *)
(* A process is one call of generateClusterKeys: the node itself names the *)
(* call its start makes.                                                   *)
(*                                                                         *)
(* A redis command takes effect together with the handling of its reply,   *)
(* except the reads whose result is assigned to clusterConnectorKeys:      *)
(* messages come on a connection of their own and may overtake the reply.  *)
(* Publishing is never rejected.  Faults: "loss" of messages, "crash", and *)
(* "reject": a command of a call is rejected, done or not.  A read that is *)
(* rejected in a timer, where nothing catches it, or in init is a crash.   *)
(* A job reports to whoever asked for it; its heartbeats after the start   *)
(* are left out.                                                           *)
(* triggerKeySync builds a throttled function and never calls it: it does  *)
(* nothing.                                                                *)
(* Bounds: MaxTime, MaxKeys, MaxAttempts (10 in the code) and one fault.   *)
(***************************************************************************)
EXTENDS Naturals, Sequences, FiniteSets

CONSTANTS Nodes, Jobs, At, None,
          LockTtl, StartDelay, MaxStartDelay, PrevExpiry, MaxPrevExpiry,
          MillisAsSecs,  \* how long a timer of `epoch seconds' ms runs: 20 days
          MaxTime, MaxKeys, MaxAttempts,
          Found,   \* what redis may hold at first: "nothing", "first", "rotated"
          Faults

ASSUME KeysAssumption ==
  /\ At \in [Jobs -> Nodes] /\ Nodes \cap Jobs = {} /\ None \notin Nodes \cup Jobs
  /\ {LockTtl, StartDelay, PrevExpiry, MillisAsSecs} \subseteq Nat \ {0}
  /\ {MaxStartDelay, MaxPrevExpiry, MaxTime, MaxKeys, MaxAttempts} \subseteq Nat
  /\ Found \subseteq {"nothing", "first", "rotated"}
  /\ Faults \subseteq {"loss", "crash", "reject"}

(* The constants of ClusterKeyProvider: a rotation is over long before its key
   starts, the previous key outlives that start, and both the start and the end
   of the previous key are reasonable. *)
ASSUME DelaysAssumption ==
  /\ LockTtl < StartDelay /\ StartDelay < MaxStartDelay
  /\ StartDelay <= PrevExpiry /\ PrevExpiry < MaxPrevExpiry
  /\ MaxAttempts > 0 /\ \A f \in Found : MaxKeys >= (IF f = "nothing" THEN 0 ELSE IF f = "first" THEN 1 ELSE 2)

INSTANCE RedisLock
INSTANCE ConnectorKeys

Procs == Nodes \cup Jobs

NodeOf(p) == IF p \in Nodes THEN p ELSE At[p]

VARIABLES
  now,
  lock,       \* redis: the lock of the rotation
  store,      \* redis: the stored keys
  queue,      \* messages on their way to each node
  status,     \* "down", "starting", "up" (it got its first keys) or "dead"
  keys,       \* clusterConnectorKeys
  reads,      \* replies of the store on their way to each node
  timers,     \* setTimeout, per node
  step,       \* where each process stands
  made,       \* the keys it made
  endOfLock,
  attempts,   \* of generateKeys
  nextKey,
  lost,       \* history: nodes that lost a message
  between,    \* history: nodes that started between two announcements of a call
  raced,      \* history: nodes whose newer keys an older reply may overwrite
  overrun,    \* history: a call stored or announced keys when its lock was over
  heard,      \* the last report of each job, and (history) the key that it stored
  refused,    \* history: calls whose store was refused
  rejected    \* history: calls that had a command rejected

redisVars == <<now, lock, store, queue>>
nodeVars  == <<status, keys, reads, timers>>
procVars  == <<step, made, endOfLock, attempts, nextKey>>
histVars  == <<lost, between, raced, overrun>>
jobVars   == <<heard, refused, rejected>>
vars      == <<redisVars, nodeVars, procVars, histVars, jobVars>>

(* Redis outlives the processes: the cluster may find no keys, the first keys
   of an earlier run, or keys whose previous key is still valid. *)
Init ==
  /\ now = 2 /\ lock = NoLock
  /\ \E f \in Found :
       /\ store = CASE f = "nothing" -> NoKeys
                    [] f = "first"   -> FirstKeys(1)
                    [] f = "rotated" -> [cur |-> 2, start |-> 1, prev |-> 1, exp |-> 2]
       /\ nextKey = store.cur + 1
  /\ queue = [n \in Nodes |-> <<>>]
  /\ status = [n \in Nodes |-> "down"]
  /\ keys = [n \in Nodes |-> NoKeys]
  /\ reads = [n \in Nodes |-> {}] /\ timers = [n \in Nodes |-> {}]
  /\ step = [p \in Procs |-> "idle"]
  /\ made = [p \in Procs |-> NoKeys]
  /\ endOfLock = [p \in Procs |-> 0]
  /\ attempts = [n \in Nodes |-> 0]
  /\ lost = {} /\ between = {} /\ raced = {} /\ overrun = FALSE
  /\ heard = [j \in Jobs |-> [event |-> "nothing", key |-> 0]] /\ refused = {} /\ rejected = {}

------------------------------------------------------------------------------
(* getPublicKeys.  The previous keys are added as the connector keys object
   and not as its public JWK. *)
Jwk(key) == [jwk |-> TRUE, key |-> key]
Bundle(key) == [jwk |-> FALSE, key |-> key]

PublicKeys(k) ==
  {Jwk(x) : x \in {k.cur} \ {0}} \cup
  {Bundle(x) : x \in IF PrevValid(k, now) THEN {k.prev} \ {0} ELSE {}}

(* A process that answers: it subscribed before it read its first keys. *)
Alive(n) == status[n] \in {"starting", "up"}

(* A node ignores the messages it sent. *)
Broadcast(m) ==
  queue' = [n \in Nodes |-> IF Alive(n) /\ n # NodeOf(m.proc)
                            THEN Append(queue[n], m) ELSE queue[n]]

Msg(event, p, k) == [event |-> event, proc |-> p, keys |-> k, end |-> endOfLock[p]]

Timer(kind, t, p) == [kind |-> kind, at |-> t, proc |-> p]

AddTimer(n, t) == timers' = [timers EXCEPT ![n] = @ \cup {t}]

(* The redis GET of getKeysFromCluster; `why' is what its reply is for. *)
ReadStore(n, why) == reads' = [reads EXCEPT ![n] = @ \cup {[why |-> why, val |-> store]}]

To(p, s) == step' = [step EXCEPT ![p] = s]

(* The lock may be gone, or be that of a later call of the same node.  It was
   taken after the time was read from which p counts. *)
Overrun(p) == overrun' = (overrun \/ now >= endOfLock[p] \/ lock.by # p)

(* What the job of a call publishes on the channel of who asked for it. *)
Reports(p, event) == heard' = [j \in Jobs |-> IF j = p THEN [heard[j] EXCEPT !.event = event] ELSE heard[j]]

InCall(n) == step[n] \notin {"idle", "done"}

(* Newer keys reach n while older ones are on their way to it: in the reply of
   a read, in an announcement, or in the call that its start makes. *)
Overtaken(n, older) ==
  raced' = IF older \/ reads[n] # {} THEN raced \cup {n} ELSE raced

(***************************************************************************)
(* A node starts: factory subscribes, then init asks for the active keys.  *)
(***************************************************************************)
StartNode(n) ==
  /\ status[n] = "down"
  /\ status' = [status EXCEPT ![n] = "starting"]
  /\ ReadStore(n, "init")
  /\ between' = IF \E p \in Procs : step[p] \in {"storing", "publishing"}
                THEN between \cup {n} ELSE between
  /\ UNCHANGED <<redisVars, keys, timers, procVars, lost, raced, overrun, jobVars>>

Keyed(n, k) ==
  /\ keys' = [keys EXCEPT ![n] = k]
  /\ status' = [status EXCEPT ![n] = "up"]

(* generateClusterKeys, up to the lock. *)
Begin(p) ==
  /\ To(p, "locking")
  /\ endOfLock' = [endOfLock EXCEPT ![p] = now + LockTtl]

(* The request to rotate, as a node's subscriber sees it. *)
BeginJob(j) ==
  /\ step[j] = "idle" /\ Alive(At[j])
  /\ Begin(j)
  /\ UNCHANGED <<redisVars, nodeVars, made, attempts, nextKey, histVars, jobVars>>

(***************************************************************************)
(* generateClusterKeys.                                                    *)
(***************************************************************************)
Step(p, from, to) ==
  /\ step[p] = from
  /\ To(p, to)
  /\ UNCHANGED <<now, status, reads, endOfLock, attempts, lost, between, rejected>>

(* The locals of a call that is over are reset. *)
Forget(p) == /\ made' = [made EXCEPT ![p] = NoKeys]
             /\ endOfLock' = [endOfLock EXCEPT ![p] = 0]

(* What a call returns: a job is over; generateKeys stores the keys, or
   tries again a number of times. *)
Return(p, k) ==
  IF p \in Jobs
  THEN To(p, "done") /\ UNCHANGED <<status, keys, reads, attempts>>
  ELSE /\ attempts' = [attempts EXCEPT ![p] = IF k = NoKeys THEN @ + 1 ELSE 0]
       /\ IF k # NoKeys
          THEN To(p, "done") /\ Keyed(p, k) /\ UNCHANGED reads
          ELSE /\ keys' = [keys EXCEPT ![p] = NoKeys]
               /\ To(p, "idle")
               /\ IF attempts[p] + 1 < MaxAttempts
                  THEN ReadStore(p, "init") /\ UNCHANGED status
                  ELSE status' = [status EXCEPT ![p] = "dead"] /\ UNCHANGED reads

GetLock(p) ==
  /\ CanLock(lock, now)
  /\ lock' = ForceLock(NodeOf(p), p, now)
  /\ Step(p, "locking", "reading")
  /\ Reports(p, "start")
  /\ UNCHANGED <<store, queue, keys, timers, made, nextKey, raced, overrun, refused>>

NoLockForUs(p) ==
  /\ step[p] = "locking"
  /\ ~CanLock(lock, now)
  /\ Return(p, NoKeys) /\ Forget(p)
  /\ Reports(p, "heartbeat")
  /\ UNCHANGED <<redisVars, timers, nextKey, histVars, refused, rejected>>

(* Mutant of ReadKeys: the keys of the node instead of those of the store. *)
ReadKeys_Local(p) ==
  LET k == keys[NodeOf(p)] IN
  /\ MayRotate(k, now) /\ nextKey <= MaxKeys
  /\ Step(p, "reading", IF k = NoKeys THEN "storing" ELSE "warning")
  /\ made' = [made EXCEPT ![p] = Rotated(k, nextKey, now)]
  /\ nextKey' = nextKey + 1
  /\ UNCHANGED <<lock, store, queue, keys, timers, raced, overrun, heard, refused>>

(* Mutant of ReadKeys: the job does not report that there is nothing to do. *)
ReadKeys_Mute(p) ==
  \/ /\ MayRotate(store, now) /\ nextKey <= MaxKeys
     /\ Step(p, "reading", IF store = NoKeys THEN "storing" ELSE "warning")
     /\ made' = [made EXCEPT ![p] = Rotated(store, nextKey, now)]
     /\ nextKey' = nextKey + 1
     /\ UNCHANGED <<lock, store, queue, keys, timers, raced, overrun, heard, refused>>
  \/ /\ ~MayRotate(store, now)
     /\ Step(p, "reading", "unlocking")
     /\ UNCHANGED <<lock, store, queue, keys, timers, made, nextKey, raced, overrun, heard, refused>>

ReadKeys(p) ==
  \/ /\ MayRotate(store, now) /\ nextKey <= MaxKeys
     /\ Step(p, "reading", IF store = NoKeys THEN "storing" ELSE "warning")
     /\ made' = [made EXCEPT ![p] = Rotated(store, nextKey, now)]
     /\ nextKey' = nextKey + 1
     /\ UNCHANGED <<lock, store, queue, keys, timers, raced, overrun, heard, refused>>
  \/ /\ ~MayRotate(store, now)
     /\ Step(p, "reading", "unlocking")
     /\ Reports(p, "fatal")
     /\ UNCHANGED <<lock, store, queue, keys, timers, made, nextKey, raced, overrun, refused>>

PublishPending(p) ==
  /\ Step(p, "warning", "storing")
  /\ Broadcast(Msg("pending", p, NoKeys))
  /\ UNCHANGED <<lock, store, keys, timers, made, nextKey, raced, overrun, heard, refused>>

StoreKeys(p) ==
  /\ OwnedBy(lock, NodeOf(p), now)
  /\ Step(p, "storing", "publishing")
  /\ store' = made[p]
  /\ keys' = [keys EXCEPT ![NodeOf(p)] = made[p]]
  /\ LET n == NodeOf(p) IN
     Overtaken(n, \/ p \in Jobs /\ InCall(n)
                  \/ \E i \in DOMAIN queue[n] : queue[n][i].event = "new")
  /\ Overrun(p)
  /\ heard' = [j \in Jobs |-> IF j = p THEN [heard[j] EXCEPT !.key = made[p].cur] ELSE heard[j]]
  /\ UNCHANGED <<lock, queue, timers, made, nextKey, refused>>

StoreRefused(p) ==
  /\ ~OwnedBy(lock, NodeOf(p), now)
  /\ Step(p, "storing", IF made[p].start # 0 THEN "cancelling" ELSE "unlocking")
  /\ made' = [made EXCEPT ![p] = NoKeys]
  /\ refused' = refused \cup {p}
  /\ UNCHANGED <<lock, store, queue, keys, timers, nextKey, raced, overrun, heard>>

PublishCancel(p) ==
  /\ Step(p, "cancelling", "unlocking")
  /\ Broadcast(Msg("cancel", p, NoKeys))
  /\ UNCHANGED <<lock, store, keys, timers, made, nextKey, raced, overrun, heard, refused>>

(* Mutant of AwaitStart: the timer does not wait for the start. *)
AwaitStart_Now(p) ==
  timers' = [n \in Nodes |-> timers[n] \cup
               {Timer("final", now, j) : j \in IF n = NodeOf(p) THEN Jobs \cap {p} ELSE {}}]

(* The timer of the final messages; it belongs to the job.  That of a start
   only runs the callbacks of module OidcConfig. *)
AwaitStart(p) ==
  timers' = [n \in Nodes |-> timers[n] \cup
               {Timer("final", IF made[p].start = 0 THEN now ELSE made[p].start, j) :
                  j \in IF n = NodeOf(p) THEN Jobs \cap {p} ELSE {}}]

PublishNew(p) ==
  /\ Step(p, "publishing", "unlocking")
  /\ Broadcast(Msg("new", p, made[p]))
  /\ Overrun(p) /\ AwaitStart(p)
  /\ UNCHANGED <<lock, store, keys, made, nextKey, raced, heard, refused>>

UnlockKeys(p) ==
  /\ step[p] = "unlocking"
  /\ lock' = Unlocked(lock, NodeOf(p), now)
  /\ Return(p, made[p]) /\ Forget(p)
  /\ UNCHANGED <<now, store, queue, timers, nextKey, histVars, jobVars>>

(* The call throws: a job is over, and init, and with it the node, does not
   start. *)
Throw(p) ==
  /\ To(p, "done") /\ Forget(p)
  /\ status' = IF p \in Nodes THEN [status EXCEPT ![p] = "dead"] ELSE status
  /\ UNCHANGED <<keys, reads, timers, attempts>>

UnlockAndThrow(p) ==
  /\ step[p] = "failing"
  /\ lock' = Unlocked(lock, NodeOf(p), now)
  /\ Throw(p)
  /\ UNCHANGED <<now, store, queue, nextKey, histVars, jobVars>>

Generate(p) ==
  \/ GetLock(p) \/ NoLockForUs(p) \/ ReadKeys(p) \/ PublishPending(p)
  \/ StoreKeys(p) \/ StoreRefused(p) \/ PublishCancel(p) \/ PublishNew(p) \/ UnlockKeys(p)
  \/ UnlockAndThrow(p)

(***************************************************************************)
(* pubSubMessageHandler and handleNewJwks.                                 *)
(***************************************************************************)
Received(n, event) ==
  /\ queue[n] # <<>> /\ Head(queue[n]).event = event
  /\ queue' = [queue EXCEPT ![n] = Tail(@)]
  /\ UNCHANGED <<now, lock, store, status, reads, procVars, lost, between, overrun, jobVars>>

NoPending(n, p) == {t \in timers[n] : ~(t.kind = "pending" /\ t.proc = p)}

(* Mutant of ReceivePending: no timer is set. *)
ReceivePending_NoTimer(n) ==
  Received(n, "pending") /\ UNCHANGED <<keys, timers, raced>>

ReceivePending(n) ==
  LET m == Head(queue[n]) IN
  /\ Received(n, "pending")
  /\ AddTimer(n, Timer("pending", m.end, m.proc))
  /\ UNCHANGED <<keys, raced>>

ReceiveCancel(n) ==
  /\ Received(n, "cancel")
  /\ timers' = [timers EXCEPT ![n] = NoPending(n, Head(queue[n]).proc)]
  /\ UNCHANGED <<keys, raced>>

(* handleNewJwks sets a timer of currentStart milliseconds, though
   currentStart is a number of seconds.  Beyond the end of the clock all times
   are one. *)
StartTimer(k) ==
  LET t == now + (IF k.start = 0 THEN 0 ELSE MillisAsSecs) IN
  Timer("refresh", IF t > MaxTime THEN MaxTime + 1 ELSE t, None)

ReceiveNew(n) ==
  LET m == Head(queue[n]) IN
  /\ Received(n, "new")
  /\ keys' = [keys EXCEPT ![n] = m.keys]
  /\ timers' = [timers EXCEPT ![n] = NoPending(n, m.proc) \cup {StartTimer(m.keys)}]
  /\ Overtaken(n, InCall(n))

(***************************************************************************)
(* Timers, and the replies of the reads they and the start ask for.        *)
(***************************************************************************)
Fire(n, t) ==
  /\ t \in timers[n] /\ now >= t.at /\ Alive(n)
  /\ timers' = [timers EXCEPT ![n] = @ \ {t}]
  /\ UNCHANGED <<redisVars, status, keys, procVars, histVars, refused, rejected>>

FireRead(n) ==
  \E t \in timers[n] :
    /\ t.kind \in {"pending", "refresh"}
    /\ Fire(n, t)
    /\ ReadStore(n, t.kind)
    /\ UNCHANGED heard

(* The callbacks of module OidcConfig, and the report. *)
FireFinal(n) ==
  \E t \in timers[n] :
    /\ t.kind = "final"
    /\ Fire(n, t)
    /\ Reports(t.proc, "finish")
    /\ UNCHANGED reads

Reply(n, rd) ==
  /\ rd \in reads[n]
  /\ reads' = [reads EXCEPT ![n] = @ \ {rd}]
  /\ UNCHANGED <<redisVars, made, attempts, nextKey, lost, between, overrun, jobVars>>

ReplyToStart(n) ==
  \E rd \in reads[n] :
    /\ rd.why = "init"
    /\ Reply(n, rd)
    /\ IF rd.val # NoKeys
       THEN Keyed(n, rd.val) /\ UNCHANGED <<step, endOfLock>>
       ELSE /\ keys' = [keys EXCEPT ![n] = NoKeys]
            /\ Begin(n)
            /\ UNCHANGED status
    /\ UNCHANGED <<timers, raced>>

ReplyToTimer(n) ==
  \E rd \in reads[n] :
    /\ rd.why \in {"pending", "refresh"}
    /\ Reply(n, rd)
    /\ keys' = IF rd.val # NoKeys THEN [keys EXCEPT ![n] = rd.val] ELSE keys
    /\ IF rd.why = "pending" /\ rd.val # NoKeys
       THEN AddTimer(n, StartTimer(rd.val)) ELSE UNCHANGED timers
    /\ raced' = IF InCall(n) /\ rd.val # NoKeys THEN raced \cup {n} ELSE raced
    /\ UNCHANGED <<status, step, endOfLock>>

(***************************************************************************)
(* Faults and time.                                                        *)
(***************************************************************************)
NoFault == lost = {} /\ rejected = {} /\ \A n \in Nodes : status[n] # "dead"

LoseMessage(n) ==
  /\ "loss" \in Faults /\ NoFault /\ queue[n] # <<>>
  /\ queue' = [queue EXCEPT ![n] = Tail(@)]
  /\ lost' = {n}
  /\ UNCHANGED <<now, lock, store, nodeVars, procVars, between, raced, overrun, jobVars>>

(* A command is rejected: its reply is lost, or it was not done. *)
Rejects(p, from) ==
  /\ "reject" \in Faults /\ NoFault /\ step[p] \in from
  /\ rejected' = {p}
  /\ UNCHANGED <<now, queue, nextKey, lost, between, raced, heard, refused>>

LockRejected(p) ==
  /\ Rejects(p, {"locking"}) /\ Throw(p)
  /\ lock' \in {lock} \cup (IF CanLock(lock, now) THEN {ForceLock(NodeOf(p), p, now)} ELSE {})
  /\ UNCHANGED <<store, overrun>>

CallRejected(p) ==
  /\ Rejects(p, {"reading", "storing"})
  /\ To(p, "failing") /\ made' = [made EXCEPT ![p] = NoKeys]
  /\ \/ UNCHANGED <<store, overrun>>
     \/ /\ step[p] = "storing" /\ OwnedBy(lock, NodeOf(p), now)
        /\ store' = made[p] /\ Overrun(p)
  /\ UNCHANGED <<lock, nodeVars, endOfLock, attempts>>

UnlockRejected(p) ==
  /\ Rejects(p, {"unlocking", "failing"}) /\ Throw(p)
  /\ lock' \in {lock, Unlocked(lock, NodeOf(p), now)}
  /\ UNCHANGED <<store, overrun>>

Crash(n) ==
  /\ "crash" \in Faults /\ NoFault /\ Alive(n)
  /\ status' = [status EXCEPT ![n] = "dead"]
  /\ queue' = [queue EXCEPT ![n] = <<>>]
  /\ reads' = [reads EXCEPT ![n] = {}] /\ timers' = [timers EXCEPT ![n] = {}]
  /\ step' = [p \in Procs |-> IF NodeOf(p) = n THEN "done" ELSE step[p]]
  /\ UNCHANGED <<now, lock, store, keys, made, endOfLock, attempts,
                 nextKey, histVars, jobVars>>

(* A unit of time is the life of a lock, one minute: messages, replies and
   due timers take less, a call of generateClusterKeys may take more. *)
Tick ==
  /\ now < MaxTime
  /\ \A n \in Nodes : Alive(n) =>
       queue[n] = <<>> /\ reads[n] = {} /\ \A t \in timers[n] : t.at > now
  /\ now' = now + 1
  /\ UNCHANGED <<lock, store, queue, nodeVars, procVars, histVars, jobVars>>

NodeStep(n) ==
  \/ ReplyToStart(n) \/ ReplyToTimer(n) \/ FireRead(n) \/ FireFinal(n)
  \/ ReceivePending(n) \/ ReceiveCancel(n) \/ ReceiveNew(n)

Next ==
  \/ \E n \in Nodes : \/ StartNode(n) \/ NodeStep(n) \/ LoseMessage(n) \/ Crash(n)
  \/ \E j \in Jobs : BeginJob(j)
  \/ \E p \in Procs : Generate(p) \/ LockRejected(p) \/ CallRejected(p) \/ UnlockRejected(p)
  \/ Tick

Spec == Init /\ [][Next]_vars

------------------------------------------------------------------------------
(* Type correctness. *)
KeysTypeOK ==
  /\ now \in Nat /\ nextKey \in 1..(MaxKeys + 1)
  /\ lock \in Locks(Nodes, Procs)
  /\ store \in KeySets(MaxKeys) /\ keys \in [Nodes -> KeySets(MaxKeys)] /\ made \in [Procs -> KeySets(MaxKeys)]
  /\ status \in [Nodes -> {"down", "starting", "up", "dead"}]
  /\ step \in [Procs -> {"idle", "locking", "reading", "warning", "storing",
                         "cancelling", "publishing", "unlocking", "failing", "done"}]
  /\ endOfLock \in [Procs -> Nat] /\ attempts \in [Nodes -> 0..MaxAttempts]
  /\ \A n \in Nodes :
       /\ \A rd \in reads[n] : rd.why \in {"init", "pending", "refresh"} /\ rd.val \in KeySets(MaxKeys)
       /\ \A t \in timers[n] : t.kind \in {"pending", "refresh", "final"} /\ t.at \in Nat
       /\ \A i \in DOMAIN queue[n] : queue[n][i].event \in {"pending", "cancel", "new"}
                                     /\ queue[n][i].keys \in KeySets(MaxKeys)
  /\ {lost, between, raced} \subseteq SUBSET Nodes /\ overrun \in BOOLEAN
  /\ {refused, rejected} \subseteq SUBSET Procs
  /\ heard \in [Jobs -> [event : {"nothing", "heartbeat", "start", "finish", "fatal"}, key : 0..MaxKeys]]

(* Rotations form a chain: keys are replaced only by keys made from them, and
   only once their start and the validity of their previous key are over,
   unless a call outlived its lock: set-if-locked checks the node that holds
   the lock and not the call.  (set-if-locked.lua, generateClusterKeys) *)
RotationsChain ==
  [][store' # store /\ store # NoKeys =>
       \/ /\ store'.prev = store.cur
          /\ store.start = 0 \/ store.start + 1 <= now
          /\ store.exp = 0 \/ store.exp + 1 <= now
       \/ overrun']_vars

(* A node to which nothing is on its way, not even a timer. *)
Settled(n) ==
  /\ status[n] = "up" /\ queue[n] = <<>> /\ reads[n] = {} /\ ~InCall(n)
  /\ \A t \in timers[n] : t.kind # "pending"
  /\ \A p \in Procs : step[p] # "publishing"

(* Where a node cannot be expected to have the stored keys: older keys overtook
   newer ones, a call outlived its lock, or the node started too late for the
   first of two announcements, one of which was lost. *)
Excused(n) == n \in raced \/ overrun \/ (n \in between /\ ~NoFault)

(* A node that never learns whether its own store was done. *)
Rejected(n) == \E p \in rejected : NodeOf(p) = n

(* A settled node has the stored keys, even if a message to it was lost, the
   rotating node crashed or a command of its was rejected: "pending" and "new"
   cover for each other.  Not the node whose own command was rejected.
   (generateClusterKeys, pubSubMessageHandler, handleNewJwks) *)
SettledAgree ==
  \A n \in Nodes : Settled(n) => keys[n] = store \/ Excused(n) \/ Rejected(n)

(* The delay before a new key starts is long enough: whatever key a node signs
   with, every other node that is up knows it, whatever was lost, crashed or
   rejected.  The exceptions are those of SettledAgree, and a call that is about
   to announce its keys too late.
   (CURR_JWKS_START_DELAY_SECS, getActiveConnectorKeys, getPublicKeys) *)
Known(k) == {k.cur} \cup (IF PrevValid(k, now) THEN {k.prev} ELSE {})

SigningKeyKnown ==
  \A n, m \in Nodes :
    /\ status[n] = "up" /\ status[m] = "up"
    /\ ~Excused(n) /\ ~Excused(m) /\ ~Rejected(n) /\ ~Rejected(m)
    /\ \A p \in Procs : step[p] = "publishing" => now < endOfLock[p]
    => Active(keys[n], now) \in Known(keys[m])

(* Who asked for a rotation and hears that it is finished may rely on the new
   key: every node that is up signs with it, or with a newer one.
   (ClusterJob.finish, the final timer of generateClusterKeys) *)
FinishMeansActive ==
  \A j \in Jobs, n \in Nodes :
    heard[j].event = "finish" /\ status[n] = "up" =>
      Active(keys[n], now) >= heard[j].key \/ Excused(n) \/ Rejected(n)

(* Who hears that the rotation started hears how it ended: a call that is over
   has reported it, or left the timer that will.  Not when the store was refused,
   a command rejected or the node died: then the call ends and reports nothing.
   (generateClusterKeys, ClusterJob) *)
StartedJobsReport ==
  \A j \in Jobs :
    heard[j].event = "start" /\ step[j] = "done" =>
      \/ \E t \in timers[At[j]] : t.kind = "final" /\ t.proc = j
      \/ j \in refused \cup rejected
      \/ status[At[j]] = "dead"

(* What a comment of getPublicKeys says: while the previous key is valid, its
   public JWK is published. *)
PreviousKeyPublished ==
  \A n \in Nodes :
    PrevValid(keys[n], now) => Jwk(keys[n].prev) \in PublicKeys(keys[n])

(* What a comment of generateClusterKeys says: all listeners are advised of the
   pending update "in case the future publish is missed", so that a node that
   is settled and runs no call has the stored keys.  The node itself ignores
   its own messages. *)
AllAreAdvised ==
  \A n \in Nodes :
    Settled(n) /\ (\A p \in Procs : NodeOf(p) = n => step[p] \in {"idle", "done"})
      => keys[n] = store \/ Excused(n)
==============================================================================
