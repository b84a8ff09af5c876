------------------------- MODULE ClusterCacheProvider -------------------------
(***************************************************************************)
(* The clustered cache: class ClusterCacheProvider over the redis cluster  *)
(* provider.  get and its instance lock are those of CacheProvider; the    *)
(* cache miss becomes a protocol between the instances (handleCacheMiss):  *)
(* listen on the key's channel, look into the cluster store, take the      *)
(* cluster lock or wait for the holder's broadcast, run the callback,      *)
(* store, broadcast, unlock.  invalidateCache breaks the lock, removes the *)
(* stored datum and broadcasts the removal.                                *)
(*                                                                         *)
(* The locals of a call are reset once nothing reads them any more.        *)
(*                                                                         *)
(* Every await is a step.  A redis command takes effect in one step with   *)
(* the handling of its reply; the next command is another step, so other   *)
(* requests run between any two commands.                                  *)
(*                                                                         *)
(* One key, as in CacheProvider.  Faults says which failures may happen:   *)
(* "redis" (a command is rejected), "loss" (a published message does not   *)
(* arrive), "crash" (a process dies and is started again).                 *)
(* Bounds: at most MaxInv invalidations, MaxFailures rejected commands and *)
(* lost messages, and one crash.                                           *)
(***************************************************************************)
EXTENDS CacheProvider, Sequences, FiniteSets

CONSTANTS LockTtl, Faults, MaxInv, MaxFailures

ASSUME ClusterAssumption ==
  /\ {LockTtl, MaxInv, MaxFailures} \subseteq Nat
  /\ Faults \subseteq {"redis", "loss", "crash"}
  /\ None \notin Instances

INSTANCE RedisLock

(* The client id of a process that is gone. *)
DeadClient == "dead process"

VARIABLES
  lock,       \* the redis lock of the key
  store,      \* the redis value of the key
  listeners,  \* per instance, the gets whose listener is on the key's channel
  wrapped,    \* the listener that unsubscribe would remove, per instance
  pending,    \* pendingRefresh, per instance: whose deferred it holds
  heard,      \* per request, how its deferredRefresh was resolved, if it was
  hasLock,    \* requests whose `lock' variable is true
  leaseEnd,   \* endOfLockTime
  outcome,    \* what handleCacheMiss is about to return
  data,       \* its `data' variable
  queue,      \* messages on their way to each instance
  inv,        \* invalidateCache in progress on each instance
  invSrc,     \* history: source version when it started
  invCount,   \* invalidations so far
  robbed,     \* history: requests whose lock was taken away while it lasted
  crashed,    \* instances that were restarted
  failed      \* commands rejected and messages lost so far

subVars     == <<listeners, wrapped>>
missVars    == <<pending, heard, hasLock, leaseEnd, outcome, data>>
invVars     == <<inv, invSrc, invCount>>
clusterVars == <<lock, store, subVars, missVars, queue, invVars, robbed, crashed, failed>>
vars        == <<cacheVars, clusterVars>>

localVars == <<now, src, cached, tainted, fence>>

MissPhases == {"subscribing", "reading", "locking", "awaiting", "calling",
               "storing", "leaving", "publishing", "unlocking"}

Init ==
  /\ CacheInit
  /\ lock = NoLock
  /\ store = NoEntry
  /\ listeners = [i \in Instances |-> {}]
  /\ wrapped = [i \in Instances |-> None]
  /\ pending = [i \in Instances |-> None]
  /\ heard = [r \in Requests |-> {}]
  /\ hasLock = {}
  /\ leaseEnd = [r \in Requests |-> 0]
  /\ outcome = [r \in Requests |-> None]
  /\ data = [r \in Requests |-> None]
  /\ queue = [i \in Instances |-> <<>>]
  /\ inv = [i \in Instances |-> "idle"]
  /\ invSrc = [i \in Instances |-> 0]
  /\ invCount = 0
  /\ robbed = {}
  /\ crashed = {}
  /\ failed = 0

(***************************************************************************)
(* get without a cluster command: as in CacheProvider.                     *)
(***************************************************************************)
LocalGet(r) ==
  /\ GetHit(r) \/ GetJoin(r) \/ JoinResolved(r) \/ JoinTimeout(r) \/ Serve(r)
  /\ UNCHANGED clusterVars

(***************************************************************************)
(* handleCacheMiss.                                                        *)
(***************************************************************************)
To(r, phase) == pc' = [pc EXCEPT ![r] = phase]

Step(r, from, to) == pc[r] = from /\ To(r, to)

getRest == <<startedAt, waitsOn, lockId, resolved, result>>

BeginMiss(r) ==
  /\ LockForMiss(r, "subscribing")
  /\ pending' = [pending EXCEPT ![Home[r]] = r]
  /\ UNCHANGED <<localVars, callVars, waitsOn, resolved, result, lock, store, subVars,
                 heard, hasLock, leaseEnd, outcome, data, queue, invVars, robbed, crashed, failed>>

(* A command is rejected, or a message does not arrive. *)
Fail(kind) ==
  /\ kind \in Faults /\ failed < MaxFailures
  /\ failed' = failed + 1

(* A failed subscription is logged by the provider and ignored here. *)
Subscribe(r) ==
  /\ Step(r, "subscribing", "reading")
  /\ wrapped' = [wrapped EXCEPT ![Home[r]] = r]
  /\ \/ listeners' = [listeners EXCEPT ![Home[r]] = @ \cup {r}] /\ UNCHANGED failed
     \/ Fail("redis") /\ UNCHANGED listeners
  /\ UNCHANGED <<localVars, callVars, getRest, lock, store, missVars, queue, invVars,
                 robbed, crashed>>

(* The value of endOfLockTime is computed before the lock is asked for. *)
AskForLock(r) ==
  /\ To(r, "locking")
  /\ leaseEnd' = [leaseEnd EXCEPT ![r] = now + LockTtl]

StoreLive == store.val # None /\ now - store.at <= Ttl

(* Mutant of ReadStore: the cluster store is not looked at. *)
ReadStore_Skipped(r) ==
  /\ pc[r] = "reading"
  /\ AskForLock(r)
  /\ UNCHANGED <<localVars, callVars, getRest, lock, store, subVars, pending, heard,
                 hasLock, outcome, data, queue, invVars, robbed, crashed, failed>>

ReadStore(r) ==
  /\ pc[r] = "reading"
  /\ \/ /\ StoreLive
        /\ To(r, "leaving")
        /\ outcome' = [outcome EXCEPT ![r] = store.val]
        /\ UNCHANGED leaseEnd
     \/ /\ ~StoreLive
        /\ AskForLock(r)
        /\ UNCHANGED outcome
  /\ UNCHANGED <<localVars, callVars, getRest, lock, store, subVars, pending, heard,
                 hasLock, data, queue, invVars, robbed, crashed, failed>>

TryLock(r) ==
  /\ pc[r] = "locking"
  /\ \/ /\ CanLock(lock, now)
        /\ lock' = ForceLock(Home[r], r, now)
        /\ hasLock' = hasLock \cup {r}
        /\ To(r, "calling")
        /\ StartCallback(r)
     \/ /\ ~CanLock(lock, now)
        /\ To(r, "awaiting")
        /\ UNCHANGED <<lock, hasLock, callAt, called>>
  /\ UNCHANGED <<localVars, ver, getRest, store, subVars, pending, heard, leaseEnd,
                 outcome, data, queue, invVars, robbed, crashed, failed>>

(* promiseWait on the deferred refresh, when a datum came. *)
HearData(r) ==
  /\ Step(r, "awaiting", "leaving")
  /\ \E v \in heard[r] \ {None} : outcome' = [outcome EXCEPT ![r] = v]
  /\ UNCHANGED <<localVars, callVars, getRest, lock, store, subVars, pending, heard,
                 hasLock, leaseEnd, data, queue, invVars, robbed, crashed, failed>>

FinalRetry(r) == startedAt[r] + MaxWait

(* Mutant of RetryOrGiveUp: the wait for a broadcast has no timer. *)
RetryOrGiveUp_NoTimer(r) ==
  /\ pc[r] = "awaiting"
  /\ heard[r] = {None}
  /\ AskForLock(r)
  /\ UNCHANGED <<localVars, callVars, getRest, lock, store, subVars, pending, heard, hasLock,
                 outcome, data, queue, invVars, robbed, crashed, failed>>

(* ... when undefined came, or the timer: try again until the final retry
   time, after that run the callback without the lock. *)
RetryOrGiveUp(r) ==
  /\ pc[r] = "awaiting"
  /\ heard[r] = {None} \/ (heard[r] = {} /\ now >= FinalRetry(r))
  /\ \/ /\ now <= FinalRetry(r)
        /\ AskForLock(r)
        /\ UNCHANGED <<callAt, called>>
     \/ /\ now > FinalRetry(r)
        /\ To(r, "calling")
        /\ StartCallback(r)
        /\ UNCHANGED leaseEnd
  /\ UNCHANGED <<localVars, ver, getRest, lock, store, subVars, pending, heard, hasLock,
                 outcome, data, queue, invVars, robbed, crashed, failed>>

CallbackReturns(r) ==
  /\ \E v \in {r, None} :
       /\ CallbackYields(r, v)
       /\ data' = [data EXCEPT ![r] = v]
       /\ To(r, IF v = None THEN "leaving" ELSE "storing")
  /\ callAt' = [callAt EXCEPT ![r] = 0]
  /\ UNCHANGED <<localVars, called, ver, getRest, lock, store, subVars, pending, heard,
                 hasLock, leaseEnd, outcome, queue, invVars, robbed, crashed, failed>>

CallbackTimesOut(r) ==
  /\ CallbackTimeout(r)
  /\ To(r, "leaving")
  /\ callAt' = [callAt EXCEPT ![r] = 0]
  /\ UNCHANGED <<localVars, called, ver, getRest, clusterVars>>

(* set-if-locked.lua: refused unless this process holds the lock.  The
   refusal is not looked at: the datum is returned either way. *)
StoreObject(r) ==
  /\ Step(r, "storing", "leaving")
  /\ store' = IF OwnedBy(lock, Home[r], now)
              THEN [val |-> data[r], by |-> r, at |-> now] ELSE store
  /\ outcome' = [outcome EXCEPT ![r] = data[r]]
  /\ UNCHANGED <<localVars, callVars, getRest, lock, subVars, pending, heard, hasLock,
                 leaseEnd, data, queue, invVars, robbed, crashed, failed>>

okVars == <<lock, store, subVars, missVars, queue, invVars, robbed, crashed>>

(* A rejected command is caught, and the miss yields undefined. *)
CommandFails(r) ==
  /\ Fail("redis")
  /\ pc[r] \in {"reading", "locking", "storing"}
  /\ To(r, "leaving")
  /\ UNCHANGED <<localVars, callVars, getRest, okVars>>

(* The finally block.  The map of listeners is keyed by the handler, which all
   gets share: it names the listener of the last get that subscribed, and that
   one is removed, whichever get leaves.  Another one stays for good. *)
StopListening(r) ==
  /\ listeners' = [listeners EXCEPT ![Home[r]] = @ \ {wrapped[Home[r]]}]
  /\ wrapped' = [wrapped EXCEPT ![Home[r]] = None]

(* Back in get, within the step in which the last reply of the miss is handled. *)
ReturnOutcome(r) ==
  /\ FinishMiss(r, outcome[r])
  /\ outcome' = [outcome EXCEPT ![r] = None]

HoldsLease(r) == r \in hasLock /\ leaseEnd[r] >= now

(* Mutant of Unsubscribe: the lock is given back without a broadcast. *)
Unsubscribe_NoPublish(r) ==
  /\ pc[r] = "leaving"
  /\ StopListening(r)
  /\ pending' = [pending EXCEPT ![Home[r]] = None]
  /\ heard' = [heard EXCEPT ![r] = {}]
  /\ data' = [data EXCEPT ![r] = None]
  /\ \/ HoldsLease(r) /\ To(r, "unlocking") /\ UNCHANGED <<getRest, cached, outcome>>
     \/ ~HoldsLease(r) /\ ReturnOutcome(r)
  /\ UNCHANGED <<now, src, tainted, fence, callVars, lock, store, hasLock, leaseEnd,
                 queue, invVars, robbed, crashed, failed>>

Unsubscribe(r) ==
  /\ pc[r] = "leaving"
  /\ StopListening(r)
  /\ pending' = [pending EXCEPT ![Home[r]] = None]
  /\ heard' = [heard EXCEPT ![r] = {}]
  /\ \/ /\ HoldsLease(r)
        /\ To(r, "publishing")
        /\ UNCHANGED <<getRest, cached, data, outcome>>
     \/ /\ ~HoldsLease(r)
        /\ ReturnOutcome(r)
        /\ data' = [data EXCEPT ![r] = None]
  /\ UNCHANGED <<now, src, tainted, fence, callVars, lock, store, hasLock, leaseEnd,
                 queue, invVars, robbed, crashed, failed>>

Update(r) == [kind |-> "update", val |-> data[r], by |-> r, src |-> 0]

(* The instances whose subscriber hears the key's channel. *)
Listening == {i \in Instances : listeners[i] # {}}

Broadcast(m, instances) ==
  queue' = [i \in Instances |-> IF i \in instances THEN Append(queue[i], m) ELSE queue[i]]

PublishResult(r) ==
  /\ Step(r, "publishing", "unlocking")
  /\ \/ Broadcast(Update(r), Listening) /\ UNCHANGED failed
     \/ Fail("redis") /\ UNCHANGED queue
  /\ data' = [data EXCEPT ![r] = None]
  /\ UNCHANGED <<localVars, callVars, getRest, lock, store, subVars, pending, heard,
                 hasLock, leaseEnd, outcome, invVars, robbed, crashed>>

(* del-if-locked.lua: deletes whatever lock this process holds. *)
Release(client, by) ==
  /\ lock' = Unlocked(lock, client, now)
  /\ robbed' = IF OwnedBy(lock, client, now) THEN robbed \cup ({lock.by} \ {by, None})
               ELSE robbed

Unlock(r) ==
  /\ pc[r] = "unlocking"
  /\ Release(Home[r], r)
  /\ ReturnOutcome(r)
  /\ UNCHANGED <<now, src, tainted, fence, callVars, store, subVars, pending, heard,
                 hasLock, leaseEnd, data, queue, invVars, crashed, failed>>

(* The unlock is rejected out of the finally block: get rejects, without
   giving the instance lock back and without an answer to those who wait. *)
UnlockFails(r) ==
  /\ Fail("redis")
  /\ Step(r, "unlocking", "returned")
  /\ UNCHANGED <<localVars, callVars, getRest, okVars>>

(***************************************************************************)
(* invalidateCache of the cluster provider.                                *)
(***************************************************************************)
InvStep(i, from, to) ==
  /\ inv[i] = from
  /\ inv' = [inv EXCEPT ![i] = to]
  /\ UNCHANGED <<now, src, getVars, callVars, cached, fence, subVars, missVars, crashed>>

AllUnderWay == UNION {UnderWay(i) : i \in Instances}

InvLock(i) ==
  /\ invCount < MaxInv
  /\ InvStep(i, "idle", "locked")
  /\ invSrc' = [invSrc EXCEPT ![i] = src]
  /\ invCount' = invCount + 1
  /\ lock' = ForceLock(i, None, now)
  /\ robbed' = IF Locked(lock, now) THEN robbed \cup ({lock.by} \ {None}) ELSE robbed
  /\ UNCHANGED <<failed, tainted, store, queue>>

(* Mutant of InvRemove: the datum stays in the cluster store. *)
InvRemove_Kept(i) ==
  /\ InvStep(i, "locked", "removed")
  /\ store' = store
  /\ tainted' = tainted \cup AllUnderWay
  /\ UNCHANGED <<failed, lock, queue, invSrc, invCount, robbed>>

InvRemove(i) ==
  /\ InvStep(i, "locked", "removed")
  /\ store' = NoEntry
  /\ tainted' = tainted \cup AllUnderWay
  /\ UNCHANGED <<failed, lock, queue, invSrc, invCount, robbed>>

(* Every instance is subscribed to the invalidation channel since it
   started, the sender too: its own cache is cleared by its own message. *)
InvPublish(i) ==
  /\ InvStep(i, "removed", "published")
  /\ \/ Broadcast([kind |-> "invalidate", val |-> None, by |-> None, src |-> invSrc[i]], Instances)
        /\ UNCHANGED failed
     \/ Fail("redis") /\ UNCHANGED queue
  /\ UNCHANGED <<tainted, lock, store, invSrc, invCount, robbed>>

InvUnlock(i) ==
  /\ InvStep(i, "published", "idle")
  /\ Release(i, None)
  /\ UNCHANGED <<failed, tainted, store, queue, invSrc, invCount>>

(* A rejected remove or unlock ends the call where it stands; the lock stays.
   A rejected lock is a call that did nothing. *)
InvFails(i) ==
  /\ Fail("redis")
  /\ InvStep(i, "locked", "idle") \/ InvStep(i, "published", "idle")
  /\ UNCHANGED <<tainted, lock, store, queue, invSrc, invCount, robbed>>

Invalidate(i) ==
  InvLock(i) \/ InvRemove(i) \/ InvPublish(i) \/ InvUnlock(i) \/ InvFails(i)

(***************************************************************************)
(* The subscriber: handleIncomingUpdateData, handleIncomingInvalidationData*)
(***************************************************************************)
PendingRefresh(i) ==
  IF pending[i] # None /\ now - startedAt[pending[i]] <= MaxWait THEN {pending[i]} ELSE {}

Received(i) ==
  /\ queue[i] # <<>>
  /\ queue' = [queue EXCEPT ![i] = Tail(@)]
  /\ UNCHANGED <<now, src, getVars, callVars, lock, store, subVars, pending, hasLock,
                 leaseEnd, outcome, data, invVars, robbed, crashed>>

(* An update replaces the local entry, or removes it when the holder failed,
   and resolves the deferred that waits for it, once.  A message that finds
   the channel unsubscribed goes nowhere. *)
ReceiveUpdate(i) ==
  LET m == Head(queue[i]) IN
  /\ Received(i)
  /\ m.kind = "update"
  /\ IF i \in Listening
     THEN /\ cached' = [cached EXCEPT ![i] =
                          IF m.val = None THEN NoEntry
                          ELSE [val |-> m.val, by |-> m.by, at |-> now]]
          /\ heard' = [r \in Requests |->
                         IF r \in PendingRefresh(i) /\ heard[r] = {} THEN {m.val} ELSE heard[r]]
     ELSE UNCHANGED <<cached, heard>>
  /\ UNCHANGED <<tainted, fence, failed>>

ReceiveInvalidation(i) ==
  /\ Received(i)
  /\ Head(queue[i]).kind = "invalidate"
  /\ RemoveLocal(i)
  /\ fence' = [fence EXCEPT ![i] = Head(queue[i]).src]
  /\ tainted' = tainted \cup UnderWay(i)
  /\ UNCHANGED <<heard, failed>>

LoseMessage(i) ==
  /\ Fail("loss")
  /\ Received(i)
  /\ UNCHANGED <<cached, tainted, fence, heard>>

(***************************************************************************)
(* A process dies: its calls never return, its caches and queue are gone,  *)
(* and its successor has another client id, so nobody owns its lock now.   *)
(***************************************************************************)
Crash(i) ==
  /\ "crash" \in Faults
  /\ crashed = {}
  /\ crashed' = crashed \cup {i}
  /\ pc' = [r \in Requests |->
              IF Home[r] = i /\ pc[r] \notin {"idle", "returned"} THEN "dead" ELSE pc[r]]
  /\ lockId' = [lockId EXCEPT ![i] = None]
  /\ RemoveLocal(i)
  /\ lock' = IF lock.owner = i THEN [lock EXCEPT !.owner = DeadClient] ELSE lock
  /\ listeners' = [listeners EXCEPT ![i] = {}]
  /\ wrapped' = [wrapped EXCEPT ![i] = None]
  /\ pending' = [pending EXCEPT ![i] = None]
  /\ queue' = [queue EXCEPT ![i] = <<>>]
  /\ inv' = [inv EXCEPT ![i] = "idle"]
  /\ UNCHANGED <<now, src, startedAt, waitsOn, resolved, result, callVars, tainted, fence,
                 store, heard, hasLock, leaseEnd, outcome, data, invSrc, invCount, robbed, failed>>

World == (SourceChanges \/ Tick) /\ UNCHANGED clusterVars

(* The steps the miss owes: each is a command sent, or a reply or timer due. *)
Progress(r) ==
  \/ Subscribe(r) \/ ReadStore(r) \/ TryLock(r) \/ HearData(r) \/ RetryOrGiveUp(r)
  \/ StoreObject(r) \/ Unsubscribe(r) \/ PublishResult(r) \/ Unlock(r)
  \/ CallbackTimesOut(r)

MissFault(r) == CommandFails(r) \/ UnlockFails(r)

ClusterNext ==
  \/ \E r \in Requests : \/ LocalGet(r) \/ BeginMiss(r) \/ CallbackReturns(r)
                         \/ Progress(r) \/ MissFault(r)
  \/ \E i \in Instances : \/ Invalidate(i) \/ Crash(i)
                          \/ ReceiveUpdate(i) \/ ReceiveInvalidation(i) \/ LoseMessage(i)
  \/ World

ClusterFairness ==
  /\ WF_vars(World)
  /\ \A r \in Requests : /\ WF_vars(Progress(r))
                         /\ WF_vars((JoinResolved(r) \/ JoinTimeout(r)) /\ UNCHANGED clusterVars)

ClusterSpec == Init /\ [][ClusterNext]_vars /\ ClusterFairness

------------------------------------------------------------------------------

Message == [kind : {"update", "invalidate"}, val : Maybe, by : Maybe, src : Nat]

Phases == MissPhases \cup {"idle", "waiting", "returned", "dead"}

(* Type correctness. *)
ClusterTypeOK ==
  /\ now \in Nat /\ src \in Nat
  /\ pc \in [Requests -> Phases]
  /\ startedAt \in [Requests -> Nat] /\ callAt \in [Requests -> Nat]
  /\ ver \in [Requests -> Nat]
  /\ waitsOn \in [Requests -> Maybe] /\ result \in [Requests -> Maybe]
  /\ lockId \in [Instances -> Maybe]
  /\ cached \in [Instances -> Entry] /\ store \in Entry
  /\ fence \in [Instances -> Nat] /\ invSrc \in [Instances -> Nat]
  /\ lock \in Locks(Instances \cup {DeadClient}, Requests)
  /\ pending \in [Instances -> Maybe]
  /\ heard \in [Requests -> SUBSET Maybe]
  /\ leaseEnd \in [Requests -> Nat]
  /\ outcome \in [Requests -> Maybe] /\ data \in [Requests -> Maybe]
  /\ queue \in [Instances -> Seq(Message)]
  /\ inv \in [Instances -> {"idle", "locked", "removed", "published"}]
  /\ invCount \in Nat
  /\ called \in SUBSET Requests /\ resolved \in SUBSET Requests
  /\ tainted \in SUBSET Requests /\ hasLock \in SUBSET Requests
  /\ robbed \in SUBSET Requests
  /\ listeners \in [Instances -> SUBSET Requests] /\ wrapped \in [Instances -> Maybe]
  /\ crashed \in SUBSET Instances /\ failed \in Nat

(* A get may be in the callback, or about to store, beside another one only
   for a reason the protocol knows: it gave up waiting for the lock, its lock
   ran out, or its lock was taken away. *)
Excused(r) ==
  \/ r \notin hasLock /\ now > FinalRetry(r)
  \/ r \in hasLock /\ now >= leaseEnd[r]
  \/ r \in robbed

InFlight(r) == pc[r] \in {"calling", "storing"}

(* Single flight in the whole cluster: of two gets that run the callback at
   the same time one at least is excused.  (handleCacheMiss, lock) *)
SingleFlight ==
  \A r, q \in Requests :
    r # q /\ InFlight(r) /\ InFlight(q) => Excused(r) \/ Excused(q)

(* While a get's lock lasts and nobody took it away, redis holds the lock for
   it: no other instance can store or start a flight under a lock.
   (lock, endOfLockTime) *)
LeaseHeld ==
  \A r \in hasLock :
    pc[r] \in MissPhases /\ now < leaseEnd[r] /\ r \notin robbed
      => Locked(lock, now) /\ lock.by = r /\ lock.owner = Home[r]

(* A lock that still lasts leaves its acquirer only by its own unlock, by an
   invalidation, by the death of its process, or by the unlock of another get
   of the same process whose own lock is over: the lock names the process and
   not the acquisition.  (unlock, del-if-locked.lua) *)
LeaseBrokenOnlyBy ==
  [][\A r \in Requests :
       Locked(lock, now) /\ lock.by = r /\ lock.owner # DeadClient
         /\ (lock'.by # r \/ lock'.owner # lock.owner)
       => \/ pc[r] = "unlocking"
          \/ inv' # inv
          \/ crashed' # crashed
          \/ \E q \in Requests \ {r} :
               /\ pc[q] = "unlocking" /\ Home[q] = Home[r]
               /\ now >= leaseEnd[q] \/ q \in robbed]_vars

(* A get that entered after a datum was stored in the cluster never runs the
   callback while that datum lives.  (handleCacheMiss, getObject) *)
NoRefetchWhileStored ==
  [][\A r \in called' \ called : StoreLive => startedAt[r] <= store.at]_vars

(* After an invalidation reached an instance, its cache holds older data only
   if that datum, or the get that put it there, was under way when the datum
   was removed from the cluster or from this cache. *)
StaleOnlyFromOverlappingMiss ==
  \A i \in Instances :
    cached[i].val # None /\ ver[cached[i].val] < fence[i]
      => {cached[i].val, cached[i].by} \cap tainted # {}

(* A get that waits for the lock holder's broadcast, is heard by its instance
   and has the deferred registered does not miss it: when the holder that
   broadcast data is gone and no message is on its way, the deferred was
   resolved, unless a command failed.  (subscribe before getObject before lock) *)
NoLostBroadcast ==
  \A r \in Requests :
    pc[r] = "awaiting" /\ Home[r] \in Listening /\ pending[Home[r]] = r
      /\ now <= FinalRetry(r) /\ queue[Home[r]] = <<>> /\ heard[r] = {}
      /\ failed = 0
      => ~(/\ StoreLive /\ store.by \in hasLock /\ now < leaseEnd[store.by]
           /\ pc[store.by] = "returned")

(* Every get returns unless its process dies: hung callbacks, dead lock
   holders, lost broadcasts and rejected commands only delay it.
   (promiseWait, the lock's expiry, the finally block) *)
EveryClusterGetReturns ==
  \A r \in Requests :
    pc[r] \in MissPhases \cup {"waiting"} ~> pc[r] \in {"returned", "dead"}
==============================================================================
