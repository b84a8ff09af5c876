---------------------------- MODULE CacheProvider ----------------------------
(***************************************************************************)
(* The per-instance cache of packages/backend/server, class CacheProvider: *)
(* a local LRU of results, an instance-level lock that makes one get run   *)
(* the cache miss callback while the other gets of the same key wait for   *)
(* its answer, and the timers that bound every wait.                       *)
(*                                                                         *)
(* The provider keeps all of its state per key and one key never touches   *)
(* the state of another, so the model follows ONE key.  A request is one   *)
(* call of get for it; Home says on which instance (server process) the    *)
(* call runs.  A datum is named by the request whose callback produced it, *)
(* and ver says which version of the source that callback saw.             *)
(*                                                                         *)
(* Both LRUs hold 10000 keys; the model is of a process with fewer.        *)
(* Bounds: the clock stops at MaxTime, gets enter no later than LastStart, *)
(* and the source changes MaxSrc - 1 times.                                *)
(***************************************************************************)
EXTENDS Naturals

CONSTANTS Requests,   \* calls of get
          Instances,  \* server processes
          Home,       \* the instance each request runs on
          None,       \* no request, no datum (undefined)
          MaxWait,    \* MAX_WAIT_SECS
          MissMax,    \* CACHE_MISS_MAX_WAIT_SECS
          Ttl,        \* config.ttl
          MaxTime, LastStart, MaxSrc

ASSUME HomeAssumption   == Home \in [Requests -> Instances]
ASSUME NoneAssumption   == None \notin Requests
ASSUME TimesAssumption  == /\ MaxWait \in Nat /\ MissMax \in Nat /\ Ttl \in Nat
                           /\ MaxTime \in Nat /\ LastStart \in Nat
                           /\ MaxSrc \in Nat \ {0}

VARIABLES
  now,        \* Date.now()
  src,        \* version of what the callback fetches
  pc,         \* where each get stands
  startedAt,  \* when it entered get
  waitsOn,    \* the lock holder whose promise it awaits
  callAt,     \* when its cache miss callback started
  called,     \* requests that ran the callback
  ver,        \* version their callback was served, 0 before that
  lockId,     \* instanceLevelUpdateLock: id of the holder, per instance
  resolved,   \* requests whose deferred was resolved
  cached,     \* cachedResult, per instance
  result,     \* what get returned
  tainted,    \* history: gets under way when an invalidation removed the entry
  fence       \* history: per instance, source version at the last removal

getVars   == <<pc, startedAt, waitsOn, lockId, resolved, result>>
callVars  == <<callAt, called, ver>>
cacheVars == <<now, src, getVars, callVars, cached, tainted, fence>>

Maybe == Requests \cup {None}

Entry   == [val : Maybe, by : Maybe, at : Nat]
NoEntry == [val |-> None, by |-> None, at |-> 0]

(* A stored datum is a truthy object: an entry without a datum is no entry. *)
Live(i) == cached[i].val # None /\ now - cached[i].at <= Ttl

(* Mutant of LockHolder: the lock is looked at as if it expired one unit early. *)
LockHolder_ShortTtl(i) == IF lockId[i] # None /\ now - startedAt[lockId[i]] < MaxWait
                          THEN lockId[i] ELSE None

(* LRUCache.get on the instance lock: a holder past the ttl reads as absent. *)
LockHolder(i) == IF lockId[i] # None /\ now - startedAt[lockId[i]] <= MaxWait
                 THEN lockId[i] ELSE None

CacheInit ==
  /\ now = 0
  /\ src = 1
  /\ pc = [r \in Requests |-> "idle"]
  /\ startedAt = [r \in Requests |-> 0]
  /\ waitsOn = [r \in Requests |-> None]
  /\ callAt = [r \in Requests |-> 0]
  /\ called = {}
  /\ ver = [r \in Requests |-> 0]
  /\ lockId = [i \in Instances |-> None]
  /\ resolved = {}
  /\ cached = [i \in Instances |-> NoEntry]
  /\ result = [r \in Requests |-> None]
  /\ tainted = {}
  /\ fence = [i \in Instances |-> 0]

(***************************************************************************)
(* get, up to its first await.                                             *)
(***************************************************************************)
Enter(r) ==
  /\ pc[r] = "idle"
  /\ now <= LastStart
  /\ startedAt' = [startedAt EXCEPT ![r] = now]

GetHit(r) ==
  /\ Enter(r)
  /\ Live(Home[r])
  /\ pc' = [pc EXCEPT ![r] = "returned"]
  /\ result' = [result EXCEPT ![r] = cached[Home[r]].val]
  /\ UNCHANGED <<now, src, waitsOn, callVars, lockId, resolved, cached, tainted, fence>>

GetJoin(r) ==
  /\ Enter(r)
  /\ ~Live(Home[r])
  /\ LockHolder(Home[r]) # None
  /\ pc' = [pc EXCEPT ![r] = "waiting"]
  /\ waitsOn' = [waitsOn EXCEPT ![r] = LockHolder(Home[r])]
  /\ UNCHANGED <<now, src, callVars, lockId, resolved, cached, result, tainted, fence>>

(* Mutant of LockForMiss: the lock is looked at but not set. *)
LockForMiss_Unset(r, first) ==
  /\ Enter(r)
  /\ ~Live(Home[r])
  /\ LockHolder(Home[r]) = None
  /\ lockId' = lockId
  /\ pc' = [pc EXCEPT ![r] = first]

(* Takes the instance lock and enters handleCacheMiss, at step `first'. *)
LockForMiss(r, first) ==
  /\ Enter(r)
  /\ ~Live(Home[r])
  /\ LockHolder(Home[r]) = None
  /\ lockId' = [lockId EXCEPT ![Home[r]] = r]
  /\ pc' = [pc EXCEPT ![r] = first]

(* wrapCacheMissCallback: the callback starts and its timer with it. *)
StartCallback(r) ==
  /\ callAt' = [callAt EXCEPT ![r] = now]
  /\ called' = called \cup {r}

GetMiss(r) ==
  /\ LockForMiss(r, "calling")
  /\ StartCallback(r)
  /\ UNCHANGED <<now, src, ver, waitsOn, resolved, cached, result, tainted, fence>>

(***************************************************************************)
(* The callback: the source answers while it runs.  An answer that comes   *)
(* after get gave up on the callback is used by nobody and is left out.    *)
(***************************************************************************)
Serve(r) ==
  /\ pc[r] = "calling"
  /\ ver[r] = 0
  /\ ver' = [ver EXCEPT ![r] = src]
  /\ UNCHANGED <<now, src, getVars, callAt, called, cached, tainted, fence>>

(* Mutant of CallbackYields: the callback is not awaited. *)
CallbackYields_NoAwait(r, v) == pc[r] = "calling" /\ v \in {r, None}

(* What the wrapped callback may yield: the datum it was served, or
   undefined, from a callback that failed or from the timer. *)
CallbackYields(r, v) ==
  /\ pc[r] = "calling"
  /\ \/ v = r /\ ver[r] # 0
     \/ v = None

(* Mutant of CallbackTimeout: the callback is awaited without a timer. *)
CallbackTimeout_NoTimer(r) == pc[r] = "calling" /\ now > MaxTime

(* The timer of the callback.  The last instant of the clock stands for every
   later one; what the timer does a failing callback may do at any time. *)
CallbackTimeout(r) ==
  /\ pc[r] = "calling"
  /\ now >= callAt[r] + MissMax \/ now = MaxTime

(***************************************************************************)
(* get, after handleCacheMiss: only the holder of the instance lock, or    *)
(* anyone when it is free, emits to the waiters and stores.                *)
(***************************************************************************)
MayEmit(r) == LockHolder(Home[r]) \in {r, None}

FinishMiss(r, v) ==
  /\ pc' = [pc EXCEPT ![r] = "returned"]
  /\ result' = [result EXCEPT ![r] = v]
  /\ IF MayEmit(r)
     THEN /\ lockId' = [lockId EXCEPT ![Home[r]] = None]
          /\ resolved' = resolved \cup {r}
          /\ cached' = IF v = None THEN cached
                       ELSE [cached EXCEPT ![Home[r]] =
                               [val |-> v, by |-> r, at |-> now]]
     ELSE UNCHANGED <<lockId, resolved, cached>>
  /\ UNCHANGED <<startedAt, waitsOn>>

MissSettles(r) ==
  /\ \E v \in {r, None} : CallbackYields(r, v) /\ FinishMiss(r, v)
  /\ UNCHANGED <<now, src, callVars, tainted, fence>>

MissTimesOut(r) ==
  /\ CallbackTimeout(r)
  /\ FinishMiss(r, None)
  /\ UNCHANGED <<now, src, callVars, tainted, fence>>

(***************************************************************************)
(* waitForResult: the holder's promise, or the timer.                      *)
(***************************************************************************)
Answer(r, v) ==
  /\ pc' = [pc EXCEPT ![r] = "returned"]
  /\ result' = [result EXCEPT ![r] = v]
  /\ UNCHANGED <<now, src, startedAt, waitsOn, callVars, lockId, resolved,
                 cached, tainted, fence>>

JoinResolved(r) ==
  /\ pc[r] = "waiting"
  /\ waitsOn[r] \in resolved
  /\ Answer(r, result[waitsOn[r]])

JoinTimeout(r) ==
  /\ pc[r] = "waiting"
  /\ now >= startedAt[r] + MaxWait
  /\ Answer(r, None)

(***************************************************************************)
(* invalidateCache of the single-process provider (at most once for each   *)
(* version of the source), and the world around the provider.              *)
(***************************************************************************)
UnderWay(i) == {r \in Requests : Home[r] = i /\ pc[r] \notin {"idle", "waiting", "returned", "dead"}}

(* Mutant of RemoveLocal: another key is removed. *)
RemoveLocal_Nothing(i) == cached' = [cached EXCEPT ![i] = @]

RemoveLocal(i) == cached' = [cached EXCEPT ![i] = NoEntry]

InvalidateCache(i) ==
  /\ src > fence[i]
  /\ RemoveLocal(i)
  /\ tainted' = tainted \cup UnderWay(i)
  /\ fence' = [fence EXCEPT ![i] = src]
  /\ UNCHANGED <<now, src, getVars, callVars>>

SourceChanges ==
  /\ src < MaxSrc
  /\ src' = src + 1
  /\ UNCHANGED <<now, getVars, callVars, cached, tainted, fence>>

Tick ==
  /\ now < MaxTime
  /\ now' = now + 1
  /\ UNCHANGED <<src, getVars, callVars, cached, tainted, fence>>

Get(r) == GetHit(r) \/ GetJoin(r) \/ GetMiss(r)

Miss(r) == Serve(r) \/ MissSettles(r) \/ MissTimesOut(r)

Join(r) == JoinResolved(r) \/ JoinTimeout(r)

Next ==
  \/ \E r \in Requests : Get(r) \/ Miss(r) \/ Join(r)
  \/ \E i \in Instances : InvalidateCache(i)
  \/ SourceChanges
  \/ Tick

(* The event loop runs expired timers; nothing else is owed by anyone.  A
   callback may never settle: only its timer is fair. *)
Fairness ==
  /\ WF_cacheVars(Tick)
  /\ \A r \in Requests : WF_cacheVars(MissTimesOut(r)) /\ WF_cacheVars(JoinTimeout(r))

Spec == CacheInit /\ [][Next]_cacheVars /\ Fairness

------------------------------------------------------------------------------

(* Type correctness. *)
TypeOK ==
  /\ now \in Nat
  /\ src \in Nat
  /\ pc \in [Requests -> {"idle", "waiting", "calling", "returned"}]
  /\ startedAt \in [Requests -> Nat]
  /\ waitsOn \in [Requests -> Maybe]
  /\ callAt \in [Requests -> Nat]
  /\ called \in SUBSET Requests
  /\ ver \in [Requests -> Nat]
  /\ lockId \in [Instances -> Maybe]
  /\ resolved \in SUBSET Requests
  /\ cached \in [Instances -> Entry]
  /\ result \in [Requests -> Maybe]
  /\ tainted \in SUBSET Requests
  /\ fence \in [Instances -> Nat]

(* One flight per instance: a get starts the callback while another get of
   its instance still runs it only when that one has overrun the wait limit
   of the instance lock.  (get, instanceLevelUpdateLock) *)
OneFlight ==
  \A r, q \in Requests :
    /\ pc[r] = "calling" /\ q \in called
    /\ r # q /\ Home[r] = Home[q]
    /\ startedAt[r] < startedAt[q] \/ (startedAt[r] = startedAt[q] /\ pc[q] = "calling")
    => startedAt[q] - startedAt[r] > MaxWait

(* Everyone who joined a flight and did not time out got the answer its
   holder returned to its own caller, and a joined flight is of the same
   instance.  (waitForResult, deferred.resolve) *)
JoinersAgree ==
  \A r \in Requests :
    pc[r] = "returned" /\ waitsOn[r] # None /\ result[r] # None =>
      /\ pc[waitsOn[r]] = "returned"
      /\ result[waitsOn[r]] = result[r]
      /\ Home[waitsOn[r]] = Home[r]

(* After an invalidation the cache holds older data only if a get that was
   under way at that moment put it there.  (invalidateCache, get's store) *)
StaleOnlyFromOverlap ==
  \A i \in Instances :
    cached[i].val # None /\ ver[cached[i].val] < fence[i]
      => cached[i].by \in tainted

(* The promise of CachePromise to callers, kept by this provider. *)
Phase == [r \in Requests |->
            CASE pc[r] = "idle" -> "idle"
              [] pc[r] = "returned" -> "answered"
              [] pc[r] = "dead" -> "dead"
              [] OTHER -> "pending"]

Promise == INSTANCE CachePromise WITH
             phase <- Phase, answer <- result, served <- {r \in Requests : ver[r] # 0}

(* Every behaviour of the provider is one the promise allows: answers are
   single, final and never made up.  (get) *)
KeepsPromise == Promise!PromiseSpec

(* A lock that has not expired leaves its holder only in the step that ends
   the holder's own get: a flight that overran never breaks the lock of the
   one that took over.  (currentInstanceLock, stillHadLock) *)
LockKeptToTheEnd ==
  [][\A i \in Instances :
       LockHolder(i) # None /\ lockId'[i] # lockId[i]
         => pc[LockHolder(i)] # "returned" /\ pc'[LockHolder(i)] = "returned"]_cacheVars

(* A finished flight replaces the result of one that entered later only when
   it overran the lock: results are stored in the order of entry otherwise.
   (stillHadLock) *)
StoresInOrder ==
  [][\A i \in Instances :
       LET old == cached[i].by  new == cached'[i].by IN
       old # None /\ new # None /\ startedAt[new] < startedAt[old]
         => startedAt[old] - startedAt[new] > MaxWait]_cacheVars

(* Every get returns: a hung callback, a failed holder or a lost lock delay
   it by the two timers at most.  (promiseWait, promiseWaitTimeout) *)
EveryGetReturns ==
  \A r \in Requests : pc[r] \in {"waiting", "calling"} ~> pc[r] = "returned"
==============================================================================
