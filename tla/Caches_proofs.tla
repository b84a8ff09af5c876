---------------------------- MODULE Caches_proofs ----------------------------
(***************************************************************************)
(* Proofs about the caches, for any set of gets, any number of instances   *)
(* and any values of the waits.                                            *)
(*                                                                         *)
(* The local cache rests on one inductive invariant, CallInv.  Its heart   *)
(* is Owns: a get whose wait limit has not run out and that is still in    *)
(* its callback holds the lock of its instance; so nobody else can have    *)
(* started a flight since.  The clustered cache adds the lock in redis,    *)
(* crashes, rejected commands and lost messages.                           *)
(***************************************************************************)
EXTENDS ClusterCacheProvider, TLAPS

-----------------------------------------------------------------------------
(***************************************************************************)
(* The local cache.                                                        *)
(***************************************************************************)

(* Type correctness, by the cases of the next-state relation. *)
LEMMA TypeInit == CacheInit => TypeOK
  BY HomeAssumption, NoneAssumption, TimesAssumption
  DEF CacheInit, TypeOK, Entry, NoEntry, Maybe

LEMMA FinishMissType ==
  ASSUME TypeOK, NEW r \in Requests, NEW v \in Maybe, FinishMiss(r, v)
  PROVE  /\ pc' \in [Requests -> {"idle", "waiting", "calling", "returned"}]
         /\ startedAt' \in [Requests -> Nat]
         /\ waitsOn' \in [Requests -> Maybe]
         /\ lockId' \in [Instances -> Maybe]
         /\ resolved' \in SUBSET Requests
         /\ cached' \in [Instances -> Entry]
         /\ result' \in [Requests -> Maybe]
<1>1. Home[r] \in Instances
  BY HomeAssumption
<1>2. [val |-> v, by |-> r, at |-> now] \in Entry
  BY DEF Entry, Maybe, TypeOK
<1>3. cached' \in [Instances -> Entry]
  BY <1>1, <1>2 DEF FinishMiss, TypeOK
<1>4. lockId' \in [Instances -> Maybe] /\ resolved' \in SUBSET Requests
  BY <1>1 DEF FinishMiss, TypeOK, Maybe
<1> QED
  BY <1>3, <1>4 DEF FinishMiss, TypeOK

LEMMA TypeStep == TypeOK /\ [Next]_cacheVars => TypeOK'
<1> SUFFICES ASSUME TypeOK, [Next]_cacheVars PROVE TypeOK'
  OBVIOUS
<1> USE HomeAssumption, NoneAssumption, TimesAssumption
<1>1. ASSUME NEW r \in Requests, GetHit(r) PROVE TypeOK'
  BY <1>1 DEF TypeOK, GetHit, Enter, callVars, Entry
<1>2. ASSUME NEW r \in Requests, GetJoin(r) PROVE TypeOK'
  BY <1>2 DEF TypeOK, GetJoin, Enter, callVars, LockHolder, Maybe
<1>3. ASSUME NEW r \in Requests, GetMiss(r) PROVE TypeOK'
  BY <1>3 DEF TypeOK, GetMiss, LockForMiss, StartCallback, Enter, Maybe
<1>4. ASSUME NEW r \in Requests, Serve(r) PROVE TypeOK'
  BY <1>4 DEF TypeOK, Serve, getVars
<1>5. ASSUME NEW r \in Requests, MissSettles(r) PROVE TypeOK'
  <2>1. PICK v \in {r, None} : FinishMiss(r, v)
    BY <1>5 DEF MissSettles
  <2>2. v \in Maybe
    BY DEF Maybe
  <2> QED
    BY <1>5, <2>1, <2>2, FinishMissType DEF TypeOK, MissSettles, callVars
<1>6. ASSUME NEW r \in Requests, MissTimesOut(r) PROVE TypeOK'
  <2>1. None \in Maybe
    BY DEF Maybe
  <2> QED
    BY <1>6, <2>1, FinishMissType DEF TypeOK, MissTimesOut, callVars
<1>7. ASSUME NEW r \in Requests, NEW v \in Maybe, Answer(r, v) PROVE TypeOK'
  BY <1>7 DEF TypeOK, Answer, callVars
<1>8. ASSUME NEW r \in Requests, Join(r) PROVE TypeOK'
  <2>1. CASE JoinResolved(r)
    <3>1. waitsOn[r] \in Requests
      BY <2>1 DEF JoinResolved, TypeOK
    <3>2. result[waitsOn[r]] \in Maybe
      BY <3>1 DEF TypeOK
    <3> QED
      BY <1>7, <2>1, <3>2 DEF JoinResolved
  <2>2. CASE JoinTimeout(r)
    BY <1>7, <2>2 DEF JoinTimeout, Maybe
  <2> QED
    BY <1>8, <2>1, <2>2 DEF Join
<1>9. ASSUME NEW i \in Instances, InvalidateCache(i) PROVE TypeOK'
  <2>1. NoEntry \in Entry
    BY DEF NoEntry, Entry, Maybe
  <2>2. UnderWay(i) \subseteq Requests
    BY DEF UnderWay
  <2> QED
    BY <1>9, <2>1, <2>2 DEF TypeOK, InvalidateCache, RemoveLocal, getVars, callVars
<1>10. CASE SourceChanges
  BY <1>10 DEF TypeOK, SourceChanges, getVars, callVars
<1>11. CASE Tick
  BY <1>11 DEF TypeOK, Tick, getVars, callVars
<1>12. CASE UNCHANGED cacheVars
  BY <1>12 DEF TypeOK, cacheVars, getVars, callVars
<1> QED
  BY <1>1, <1>2, <1>3, <1>4, <1>5, <1>6, <1>8, <1>9, <1>10, <1>11, <1>12
  DEF Next, Get, Miss

(* Every reachable state is well typed. *)
THEOREM Typing == Spec => []TypeOK
  BY TypeInit, TypeStep, PTL DEF Spec
------------------------------------------------------------------------------
(***************************************************************************)
(* The inductive invariant.                                                *)
(***************************************************************************)
Clock == src > 0 /\ \A r \in Requests : startedAt[r] <= now

(* Whoever ran the callback runs it still or has returned, and nobody else
   was served. *)
Callers == /\ \A r \in called : pc[r] \in {"calling", "returned"}
           /\ \A r \in Requests : ver[r] # 0 => r \in called

(* The instance lock names a get of its instance that runs the callback. *)
LocalHolders == \A i \in Instances :
             lockId[i] # None => Home[lockId[i]] = i /\ pc[lockId[i]] = "calling"

(* Within its wait limit a get in its callback holds the instance lock. *)
Owns == \A r \in Requests :
          pc[r] = "calling" =>
            /\ r \in called
            /\ now - startedAt[r] <= MaxWait => lockId[Home[r]] = r

Joiners == \A r \in Requests :
             waitsOn[r] # None =>
               /\ pc[r] \in {"waiting", "returned"}
               /\ Home[waitsOn[r]] = Home[r]
               /\ pc[waitsOn[r]] \in {"calling", "returned"}

Resolved == \A r \in resolved : pc[r] = "returned"

(* What is stored, and what was returned, was served to a callback. *)
Stored == \A i \in Instances :
            /\ cached[i].by # None =>
                 /\ cached[i].by \in called
                 /\ pc[cached[i].by] = "returned"
                 /\ Home[cached[i].by] = i
            /\ cached[i].val # None => cached[i].by = cached[i].val /\ ver[cached[i].val] # 0

Results == \A r \in Requests :
             result[r] # None => pc[r] = "returned" /\ ver[result[r]] # 0

(* Data older than the last removal is in the hands of gets it overlapped. *)
Overlap == /\ \A i \in Instances : fence[i] <= src
           /\ \A r \in Requests :
                pc[r] = "calling" /\ ver[r] # 0 /\ ver[r] < fence[Home[r]] => r \in tainted

CallInv == /\ TypeOK /\ Clock /\ Callers /\ LocalHolders /\ Owns /\ Joiners /\ Resolved
           /\ Stored /\ Results /\ Overlap
           /\ OneFlight /\ JoinersAgree /\ StaleOnlyFromOverlap

LEMMA CallInvInit == CacheInit => CallInv
  BY TypeInit, HomeAssumption, NoneAssumption, TimesAssumption
  DEF CacheInit, NoEntry, CallInv, Clock, Callers, LocalHolders, Owns, Joiners, Resolved,
      Stored, Results, Overlap, OneFlight, JoinersAgree, StaleOnlyFromOverlap

LEMMA GetHitInv ==
  ASSUME CallInv, TypeOK', NEW r \in Requests, GetHit(r)
  PROVE  CallInv'
<1> USE HomeAssumption, NoneAssumption, TimesAssumption
<1>1. Clock'
  BY DEF CallInv, TypeOK, Clock, GetHit, Enter, Live, callVars, Maybe, Entry
<1>2. Callers'
  BY DEF CallInv, TypeOK, Callers, GetHit, Enter, Live, callVars, Maybe, Entry
<1>3. LocalHolders'
  BY DEF CallInv, TypeOK, LocalHolders, GetHit, Enter, Live, callVars, Maybe, Entry
<1>4. Owns'
  BY DEF CallInv, TypeOK, Owns, LocalHolders, GetHit, Enter, Live, callVars, Maybe, Entry
<1>5. Joiners'
  BY DEF CallInv, TypeOK, Joiners, LocalHolders, GetHit, Enter, Live, callVars, Maybe, Entry
<1>6. Resolved'
  BY DEF CallInv, TypeOK, Resolved, GetHit, Enter, Live, callVars, Maybe, Entry
<1>7. Stored'
  BY DEF CallInv, TypeOK, Stored, Callers, GetHit, Enter, Live, callVars, Maybe, Entry
<1>8. Results'
  <2>1. r \in Requests /\ Home[r] \in Instances /\ cached[Home[r]].val # None
    BY DEF GetHit, Live
  <2>2. ver[cached[Home[r]].val] # 0
    BY <2>1 DEF CallInv, Stored
  <2>3. result' = [result EXCEPT ![r] = cached[Home[r]].val] /\ pc'[r] = "returned"
    BY DEF GetHit, CallInv, TypeOK
  <2>4. ASSUME NEW q \in Requests, q # r PROVE pc'[q] = pc[q] /\ result'[q] = result[q]
    BY <2>3, <2>4 DEF GetHit, CallInv, TypeOK
  <2>5. result'[r] = cached[Home[r]].val
    BY <2>3 DEF CallInv, TypeOK
  <2> QED
    BY <2>2, <2>3, <2>4, <2>5 DEF Results, CallInv, GetHit, callVars
<1>9. Overlap'
  BY DEF CallInv, TypeOK, Overlap, Clock, Callers, GetHit, Enter, Live, callVars, Maybe, Entry
<1>10. OneFlight'
  BY DEF CallInv, TypeOK, OneFlight, Owns, Clock, Callers, LocalHolders, GetHit, Enter, Live, callVars, Maybe, Entry
<1>11. JoinersAgree'
  BY DEF CallInv, TypeOK, JoinersAgree, Joiners, Resolved, GetHit, Enter, Live, callVars, Maybe, Entry
<1>12. StaleOnlyFromOverlap'
  BY DEF CallInv, TypeOK, StaleOnlyFromOverlap, Stored, Overlap, GetHit, Enter, Live, callVars, Maybe, Entry
<1> QED
  BY <1>1, <1>2, <1>3, <1>4, <1>5, <1>6, <1>7, <1>8, <1>9, <1>10, <1>11, <1>12 DEF CallInv

LEMMA GetJoinInv ==
  ASSUME CallInv, TypeOK', NEW r \in Requests, GetJoin(r)
  PROVE  CallInv'
<1> USE HomeAssumption, NoneAssumption, TimesAssumption
<1>1. Clock'
  BY DEF CallInv, TypeOK, Clock, GetJoin, Enter, LockHolder, callVars, Maybe, Entry
<1>2. Callers'
  BY DEF CallInv, TypeOK, Callers, GetJoin, Enter, LockHolder, callVars, Maybe, Entry
<1>3. LocalHolders'
  BY DEF CallInv, TypeOK, LocalHolders, GetJoin, Enter, LockHolder, callVars, Maybe, Entry
<1>4. Owns'
  BY DEF CallInv, TypeOK, Owns, LocalHolders, GetJoin, Enter, LockHolder, callVars, Maybe, Entry
<1>5. Joiners'
  <2>1. LockHolder(Home[r]) \in Requests /\ LockHolder(Home[r]) = lockId[Home[r]]
    BY DEF GetJoin, LockHolder, CallInv, TypeOK, Maybe
  <2>2. /\ Home[LockHolder(Home[r])] = Home[r]
        /\ pc[LockHolder(Home[r])] = "calling"
    BY <2>1 DEF CallInv, LocalHolders
  <2>3. pc[r] = "idle"
    BY DEF GetJoin, Enter
  <2> QED
    BY <2>1, <2>2, <2>3 DEF CallInv, TypeOK, Joiners, GetJoin
<1>6. Resolved'
  BY DEF CallInv, TypeOK, Resolved, GetJoin, Enter, LockHolder, callVars, Maybe, Entry
<1>7. Stored'
  BY DEF CallInv, TypeOK, Stored, Callers, GetJoin, Enter, LockHolder, callVars, Maybe, Entry
<1>8. Results'
  BY DEF CallInv, TypeOK, Results, Stored, GetJoin, Enter, LockHolder, callVars, Maybe, Entry
<1>9. Overlap'
  BY DEF CallInv, TypeOK, Overlap, Clock, Callers, GetJoin, Enter, LockHolder, callVars, Maybe, Entry
<1>10. OneFlight'
  BY DEF CallInv, TypeOK, OneFlight, Owns, Clock, Callers, LocalHolders, GetJoin, Enter, LockHolder, callVars, Maybe, Entry
<1>11. JoinersAgree'
  BY DEF CallInv, TypeOK, JoinersAgree, Joiners, Resolved, GetJoin, Enter, LockHolder, callVars, Maybe, Entry
<1>12. StaleOnlyFromOverlap'
  BY DEF CallInv, TypeOK, StaleOnlyFromOverlap, Stored, Overlap, GetJoin, Enter, LockHolder, callVars, Maybe, Entry
<1> QED
  BY <1>1, <1>2, <1>3, <1>4, <1>5, <1>6, <1>7, <1>8, <1>9, <1>10, <1>11, <1>12 DEF CallInv

LEMMA GetMissInv ==
  ASSUME CallInv, TypeOK', NEW r \in Requests, GetMiss(r)
  PROVE  CallInv'
<1> USE HomeAssumption, NoneAssumption, TimesAssumption
<1>1. Clock'
  BY DEF CallInv, TypeOK, Clock, GetMiss, LockForMiss, StartCallback, Enter, LockHolder, Maybe, Entry
<1>2. Callers'
  BY DEF CallInv, TypeOK, Callers, GetMiss, LockForMiss, StartCallback, Enter, LockHolder, Maybe, Entry
<1>3. LocalHolders'
  BY DEF CallInv, TypeOK, LocalHolders, GetMiss, LockForMiss, StartCallback, Enter, LockHolder, Maybe, Entry
<1>4. Owns'
  BY DEF CallInv, TypeOK, Owns, LocalHolders, GetMiss, LockForMiss, StartCallback, Enter, LockHolder, Maybe, Entry
<1>5. Joiners'
  BY DEF CallInv, TypeOK, Joiners, LocalHolders, GetMiss, LockForMiss, StartCallback, Enter, LockHolder, Maybe, Entry
<1>6. Resolved'
  BY DEF CallInv, TypeOK, Resolved, GetMiss, LockForMiss, StartCallback, Enter, LockHolder, Maybe, Entry
<1>7. Stored'
  BY DEF CallInv, TypeOK, Stored, Callers, GetMiss, LockForMiss, StartCallback, Enter, LockHolder, Maybe, Entry
<1>8. Results'
  BY DEF CallInv, TypeOK, Results, Stored, GetMiss, LockForMiss, StartCallback, Enter, LockHolder, Maybe, Entry
<1>9. Overlap'
  BY DEF CallInv, TypeOK, Overlap, Callers, GetMiss, LockForMiss, StartCallback, Enter
<1>10. OneFlight'
  <2> SUFFICES ASSUME NEW p \in Requests, NEW q \in Requests,
                      pc'[p] = "calling", q \in called', p # q, Home[p] = Home[q],
                      \/ startedAt'[p] < startedAt'[q]
                      \/ startedAt'[p] = startedAt'[q] /\ pc'[q] = "calling"
               PROVE  startedAt'[q] - startedAt'[p] > MaxWait
    BY DEF OneFlight
  <2>1. /\ startedAt'[r] = now /\ pc[r] = "idle" /\ LockHolder(Home[r]) = None
        /\ called' = called \cup {r}
        /\ \A x \in Requests : x # r => startedAt'[x] = startedAt[x] /\ pc'[x] = pc[x]
    BY DEF CallInv, TypeOK, GetMiss, LockForMiss, StartCallback, Enter
  <2>2. ASSUME NEW x \in Requests, pc[x] = "calling", Home[x] = Home[r]
        PROVE  now - startedAt[x] > MaxWait
    <3>1. lockId[Home[r]] = x => now - startedAt[x] > MaxWait
      BY <2>1, <2>2 DEF LockHolder, CallInv, TypeOK
    <3>2. now - startedAt[x] <= MaxWait => lockId[Home[r]] = x
      BY <2>2 DEF CallInv, Owns
    <3>3. now \in Nat /\ startedAt[x] \in Nat
      BY DEF CallInv, TypeOK
    <3> QED
      BY <3>1, <3>2, <3>3
  <2>3. CASE r = q
    BY <2>1, <2>2, <2>3 DEF CallInv, TypeOK
  <2>4. CASE r = p
    <3>1. q \in called /\ startedAt[q] <= now
      BY <2>1, <2>4 DEF CallInv, Clock
    <3>2. startedAt[q] = now /\ pc[q] = "calling"
      BY <2>1, <2>4, <3>1 DEF CallInv, TypeOK
    <3>3. now - startedAt[q] > MaxWait
      BY <2>2, <2>4, <3>2
    <3> QED
      BY <3>2, <3>3 DEF CallInv, TypeOK
  <2>5. CASE r # p /\ r # q
    <3>1. q \in called
      BY <2>1, <2>5
    <3> QED
      BY <2>1, <2>5, <3>1 DEF CallInv, OneFlight
  <2> QED
    BY <2>3, <2>4, <2>5
<1>11. JoinersAgree'
  BY DEF CallInv, TypeOK, JoinersAgree, Joiners, Resolved, GetMiss, LockForMiss, StartCallback, Enter, LockHolder, Maybe, Entry
<1>12. StaleOnlyFromOverlap'
  BY DEF CallInv, TypeOK, StaleOnlyFromOverlap, Stored, Overlap, GetMiss, LockForMiss, StartCallback, Enter, LockHolder, Maybe, Entry
<1> QED
  BY <1>1, <1>2, <1>3, <1>4, <1>5, <1>6, <1>7, <1>8, <1>9, <1>10, <1>11, <1>12 DEF CallInv

LEMMA ServeInv ==
  ASSUME CallInv, TypeOK', NEW r \in Requests, Serve(r)
  PROVE  CallInv'
<1> USE HomeAssumption, NoneAssumption, TimesAssumption
<1>1. Clock'
  BY DEF CallInv, TypeOK, Clock, Serve, getVars, Maybe, Entry
<1>2. Callers'
  BY DEF CallInv, TypeOK, Callers, Owns, Serve, getVars
<1>3. LocalHolders'
  BY DEF CallInv, TypeOK, LocalHolders, Serve, getVars, Maybe, Entry
<1>4. Owns'
  BY DEF CallInv, TypeOK, Owns, LocalHolders, Serve, getVars, Maybe, Entry
<1>5. Joiners'
  BY DEF CallInv, TypeOK, Joiners, LocalHolders, Serve, getVars, Maybe, Entry
<1>6. Resolved'
  BY DEF CallInv, TypeOK, Resolved, Serve, getVars, Maybe, Entry
<1>7. Stored'
  BY DEF CallInv, TypeOK, Stored, Callers, Serve, getVars, Maybe, Entry
<1>8. Results'
  BY DEF CallInv, TypeOK, Results, Stored, Serve, getVars, Maybe, Entry
<1>9. Overlap'
  <2>1. ver'[r] = src /\ Home[r] \in Instances /\ fence[Home[r]] <= src
    BY DEF CallInv, TypeOK, Overlap, Serve
  <2>2. ~(ver'[r] < fence[Home[r]])
    BY <2>1 DEF CallInv, TypeOK
  <2>3. \A q \in Requests : q # r => ver'[q] = ver[q]
    BY DEF CallInv, TypeOK, Serve
  <2> QED
    BY <2>2, <2>3 DEF CallInv, Overlap, Serve, getVars
<1>10. OneFlight'
  BY DEF CallInv, TypeOK, OneFlight, Owns, Clock, Callers, LocalHolders, Serve, getVars, Maybe, Entry
<1>11. JoinersAgree'
  BY DEF CallInv, TypeOK, JoinersAgree, Joiners, Resolved, Serve, getVars, Maybe, Entry
<1>12. StaleOnlyFromOverlap'
  BY DEF CallInv, TypeOK, StaleOnlyFromOverlap, Stored, Overlap, Serve, getVars, Maybe, Entry
<1> QED
  BY <1>1, <1>2, <1>3, <1>4, <1>5, <1>6, <1>7, <1>8, <1>9, <1>10, <1>11, <1>12 DEF CallInv

LEMMA FinishInv ==
  ASSUME CallInv, TypeOK', NEW r \in Requests, NEW v \in {r, None},
         CallbackYields(r, v) \/ (CallbackTimeout(r) /\ v = None),
         FinishMiss(r, v), UNCHANGED <<now, src, callVars, tainted, fence>>
  PROVE  CallInv'
<1> USE HomeAssumption, NoneAssumption, TimesAssumption
<1>1. Clock'
  BY DEF CallInv, TypeOK, Clock, CallbackYields, CallbackTimeout, FinishMiss, MayEmit, LockHolder, callVars, Maybe, Entry
<1>2. Callers'
  BY DEF CallInv, TypeOK, Callers, CallbackYields, CallbackTimeout, FinishMiss, MayEmit, LockHolder, callVars, Maybe, Entry
<1>3. LocalHolders'
  BY DEF CallInv, TypeOK, LocalHolders, CallbackYields, CallbackTimeout, FinishMiss, MayEmit, LockHolder, callVars, Maybe, Entry
<1>4. Owns'
  <2> SUFFICES ASSUME NEW q \in Requests, pc'[q] = "calling"
               PROVE  /\ q \in called
                      /\ now - startedAt[q] <= MaxWait => lockId'[Home[q]] = q
    BY DEF Owns, FinishMiss, callVars
  <2>1. q # r /\ pc[q] = "calling"
    BY DEF FinishMiss, CallInv, TypeOK
  <2>2. q \in called /\ (now - startedAt[q] <= MaxWait => lockId[Home[q]] = q)
    BY <2>1 DEF CallInv, Owns
  <2>3. ASSUME now - startedAt[q] <= MaxWait, MayEmit(r) PROVE Home[q] # Home[r]
    BY <2>1, <2>2, <2>3 DEF MayEmit, LockHolder
  <2>4. ASSUME now - startedAt[q] <= MaxWait PROVE lockId'[Home[q]] = q
    <3>1. lockId[Home[q]] = q /\ Home[q] \in Instances
      BY <2>2, <2>4
    <3>2. CASE MayEmit(r)
      <4>1. lockId' = [lockId EXCEPT ![Home[r]] = None] /\ Home[q] # Home[r]
        BY <2>3, <2>4, <3>2 DEF FinishMiss
      <4> QED
        BY <3>1, <4>1 DEF CallInv, TypeOK
    <3>3. CASE ~MayEmit(r)
      BY <3>1, <3>3 DEF FinishMiss
    <3> QED
      BY <3>2, <3>3
  <2> QED
    BY <2>2, <2>4
<1>5. Joiners'
  BY DEF CallInv, TypeOK, Joiners, LocalHolders, CallbackYields, CallbackTimeout, FinishMiss, MayEmit, LockHolder, callVars, Maybe, Entry
<1>6. Resolved'
  BY DEF CallInv, TypeOK, Resolved, CallbackYields, CallbackTimeout, FinishMiss, MayEmit, LockHolder, callVars, Maybe, Entry
<1>7. Stored'
  <2>1. pc[r] = "calling" /\ r \in called /\ (v # None => v = r /\ ver[r] # 0)
    BY DEF CallbackYields, CallbackTimeout, CallInv, Owns
  <2>2. pc' = [pc EXCEPT ![r] = "returned"] /\ UNCHANGED <<called, ver>>
    BY DEF FinishMiss, callVars
  <2>3. CASE cached' = cached
    BY <2>2, <2>3 DEF CallInv, TypeOK, Stored, Maybe, Entry
  <2>4. CASE v # None /\ cached' = [cached EXCEPT ![Home[r]] = [val |-> v, by |-> r, at |-> now]]
    <3>1. cached'[Home[r]].val = r /\ cached'[Home[r]].by = r
      BY <2>1, <2>4 DEF CallInv, TypeOK
    <3>2. \A i \in Instances : i # Home[r] => cached'[i] = cached[i]
      BY <2>4 DEF CallInv, TypeOK
    <3>3. pc'[r] = "returned" /\ \A q \in Requests : pc[q] = "returned" => pc'[q] = "returned"
      BY <2>2 DEF CallInv, TypeOK
    <3>4. called \subseteq Requests
      BY DEF CallInv, TypeOK
    <3> SUFFICES ASSUME NEW i \in Instances
                 PROVE  /\ cached'[i].by # None =>
                             /\ cached'[i].by \in called
                             /\ pc'[cached'[i].by] = "returned"
                             /\ Home[cached'[i].by] = i
                        /\ cached'[i].val # None =>
                             cached'[i].by = cached'[i].val /\ ver[cached'[i].val] # 0
      BY <2>2 DEF Stored
    <3>5. CASE i = Home[r]
      BY <2>1, <2>4, <3>1, <3>3, <3>5
    <3>6. CASE i # Home[r]
      <4>1. cached'[i] = cached[i]
        BY <3>2, <3>6
      <4>2. cached[i].by # None =>
              cached[i].by \in called /\ pc[cached[i].by] = "returned" /\ Home[cached[i].by] = i
        BY DEF CallInv, Stored
      <4>3. cached[i].val # None => cached[i].by = cached[i].val /\ ver[cached[i].val] # 0
        BY DEF CallInv, Stored
      <4> QED
        BY <3>3, <3>4, <4>1, <4>2, <4>3
    <3> QED
      BY <3>5, <3>6
  <2> QED
    BY <2>3, <2>4 DEF FinishMiss
<1>8. Results'
  BY DEF CallInv, TypeOK, Results, Stored, CallbackYields, CallbackTimeout, FinishMiss, MayEmit, LockHolder, callVars, Maybe, Entry
<1>9. Overlap'
  BY DEF CallInv, TypeOK, Overlap, Clock, Callers, CallbackYields, CallbackTimeout, FinishMiss, MayEmit, LockHolder, callVars, Maybe, Entry
<1>10. OneFlight'
  BY DEF CallInv, TypeOK, OneFlight, Owns, Clock, Callers, LocalHolders, CallbackYields, CallbackTimeout, FinishMiss, MayEmit, LockHolder, callVars, Maybe, Entry
<1>11. JoinersAgree'
  BY DEF CallInv, TypeOK, JoinersAgree, Joiners, Resolved, CallbackYields, CallbackTimeout, FinishMiss, MayEmit, LockHolder, callVars, Maybe, Entry
<1>12. StaleOnlyFromOverlap'
  BY DEF CallInv, TypeOK, StaleOnlyFromOverlap, Stored, Overlap, CallbackYields, CallbackTimeout, FinishMiss, MayEmit, LockHolder, callVars, Maybe, Entry
<1> QED
  BY <1>1, <1>2, <1>3, <1>4, <1>5, <1>6, <1>7, <1>8, <1>9, <1>10, <1>11, <1>12 DEF CallInv

LEMMA AnswerInv ==
  ASSUME CallInv, TypeOK', NEW r \in Requests, Join(r)
  PROVE  CallInv'
<1> USE HomeAssumption, NoneAssumption, TimesAssumption
<1>1. Clock'
  BY DEF CallInv, TypeOK, Clock, Join, JoinResolved, JoinTimeout, Answer, callVars, Maybe, Entry
<1>2. Callers'
  BY DEF CallInv, TypeOK, Callers, Join, JoinResolved, JoinTimeout, Answer, callVars, Maybe, Entry
<1>3. LocalHolders'
  BY DEF CallInv, TypeOK, LocalHolders, Join, JoinResolved, JoinTimeout, Answer, callVars, Maybe, Entry
<1>4. Owns'
  BY DEF CallInv, TypeOK, Owns, LocalHolders, Join, JoinResolved, JoinTimeout, Answer, callVars, Maybe, Entry
<1>5. Joiners'
  BY DEF CallInv, TypeOK, Joiners, LocalHolders, Join, JoinResolved, JoinTimeout, Answer, callVars, Maybe, Entry
<1>6. Resolved'
  BY DEF CallInv, TypeOK, Resolved, Join, JoinResolved, JoinTimeout, Answer, callVars, Maybe, Entry
<1>7. Stored'
  BY DEF CallInv, TypeOK, Stored, Callers, Join, JoinResolved, JoinTimeout, Answer, callVars, Maybe, Entry
<1>8. Results'
  <2>1. PICK v \in Maybe : Answer(r, v) /\ (v # None => ver[v] # 0)
    <3>1. CASE JoinResolved(r)
      <4>1. waitsOn[r] \in Requests /\ result[waitsOn[r]] \in Maybe
        BY <3>1 DEF JoinResolved, CallInv, TypeOK
      <4> QED
        BY <3>1, <4>1 DEF JoinResolved, CallInv, Results
    <3>2. CASE JoinTimeout(r)
      BY <3>2 DEF JoinTimeout, Maybe
    <3> QED
      BY <3>1, <3>2 DEF Join
  <2> QED
    BY <2>1 DEF Answer, CallInv, TypeOK, Results, callVars
<1>9. Overlap'
  BY DEF CallInv, TypeOK, Overlap, Clock, Callers, Join, JoinResolved, JoinTimeout, Answer, callVars, Maybe, Entry
<1>10. OneFlight'
  BY DEF CallInv, TypeOK, OneFlight, Owns, Clock, Callers, LocalHolders, Join, JoinResolved, JoinTimeout, Answer, callVars, Maybe, Entry
<1>11. JoinersAgree'
  BY DEF CallInv, TypeOK, JoinersAgree, Joiners, Resolved, Join, JoinResolved, JoinTimeout, Answer, callVars, Maybe, Entry
<1>12. StaleOnlyFromOverlap'
  BY DEF CallInv, TypeOK, StaleOnlyFromOverlap, Stored, Overlap, Join, JoinResolved, JoinTimeout, Answer, callVars, Maybe, Entry
<1> QED
  BY <1>1, <1>2, <1>3, <1>4, <1>5, <1>6, <1>7, <1>8, <1>9, <1>10, <1>11, <1>12 DEF CallInv

LEMMA InvalidateInv ==
  ASSUME CallInv, TypeOK', NEW i \in Instances, InvalidateCache(i)
  PROVE  CallInv'
<1> USE HomeAssumption, NoneAssumption, TimesAssumption
<1>1. Clock'
  BY DEF CallInv, TypeOK, Clock, InvalidateCache, RemoveLocal, UnderWay, NoEntry, getVars, callVars, Maybe, Entry
<1>2. Callers'
  BY DEF CallInv, TypeOK, Callers, InvalidateCache, RemoveLocal, UnderWay, NoEntry, getVars, callVars, Maybe, Entry
<1>3. LocalHolders'
  BY DEF CallInv, TypeOK, LocalHolders, InvalidateCache, RemoveLocal, UnderWay, NoEntry, getVars, callVars, Maybe, Entry
<1>4. Owns'
  BY DEF CallInv, TypeOK, Owns, LocalHolders, InvalidateCache, RemoveLocal, UnderWay, NoEntry, getVars, callVars, Maybe, Entry
<1>5. Joiners'
  BY DEF CallInv, TypeOK, Joiners, LocalHolders, InvalidateCache, RemoveLocal, UnderWay, NoEntry, getVars, callVars, Maybe, Entry
<1>6. Resolved'
  BY DEF CallInv, TypeOK, Resolved, InvalidateCache, RemoveLocal, UnderWay, NoEntry, getVars, callVars, Maybe, Entry
<1>7. Stored'
  BY DEF CallInv, TypeOK, Stored, Callers, InvalidateCache, RemoveLocal, UnderWay, NoEntry, getVars, callVars, Maybe, Entry
<1>8. Results'
  BY DEF CallInv, TypeOK, Results, Stored, InvalidateCache, RemoveLocal, UnderWay, NoEntry, getVars, callVars, Maybe, Entry
<1>9. Overlap'
  BY DEF CallInv, TypeOK, Overlap, Clock, Callers, InvalidateCache, RemoveLocal, UnderWay, NoEntry, getVars, callVars, Maybe, Entry
<1>10. OneFlight'
  BY DEF CallInv, TypeOK, OneFlight, Owns, Clock, Callers, LocalHolders, InvalidateCache, RemoveLocal, UnderWay, NoEntry, getVars, callVars, Maybe, Entry
<1>11. JoinersAgree'
  BY DEF CallInv, TypeOK, JoinersAgree, Joiners, Resolved, InvalidateCache, RemoveLocal, UnderWay, NoEntry, getVars, callVars, Maybe, Entry
<1>12. StaleOnlyFromOverlap'
  BY DEF CallInv, TypeOK, StaleOnlyFromOverlap, Stored, Overlap, InvalidateCache, RemoveLocal, UnderWay, NoEntry, getVars, callVars, Maybe, Entry
<1> QED
  BY <1>1, <1>2, <1>3, <1>4, <1>5, <1>6, <1>7, <1>8, <1>9, <1>10, <1>11, <1>12 DEF CallInv

LEMMA WorldInv ==
  ASSUME CallInv, TypeOK', SourceChanges \/ Tick \/ UNCHANGED cacheVars
  PROVE  CallInv'
<1> USE HomeAssumption, NoneAssumption, TimesAssumption
<1>1. Clock'
  BY DEF CallInv, TypeOK, Clock, SourceChanges, Tick, cacheVars, getVars, callVars, Maybe, Entry
<1>2. Callers'
  BY DEF CallInv, TypeOK, Callers, SourceChanges, Tick, cacheVars, getVars, callVars, Maybe, Entry
<1>3. LocalHolders'
  BY DEF CallInv, TypeOK, LocalHolders, SourceChanges, Tick, cacheVars, getVars, callVars, Maybe, Entry
<1>4. Owns'
  BY DEF CallInv, TypeOK, Owns, LocalHolders, SourceChanges, Tick, cacheVars, getVars, callVars, Maybe, Entry
<1>5. Joiners'
  BY DEF CallInv, TypeOK, Joiners, LocalHolders, SourceChanges, Tick, cacheVars, getVars, callVars, Maybe, Entry
<1>6. Resolved'
  BY DEF CallInv, TypeOK, Resolved, SourceChanges, Tick, cacheVars, getVars, callVars, Maybe, Entry
<1>7. Stored'
  BY DEF CallInv, TypeOK, Stored, Callers, SourceChanges, Tick, cacheVars, getVars, callVars, Maybe, Entry
<1>8. Results'
  BY DEF CallInv, TypeOK, Results, Stored, SourceChanges, Tick, cacheVars, getVars, callVars, Maybe, Entry
<1>9. Overlap'
  BY DEF CallInv, TypeOK, Overlap, Clock, Callers, SourceChanges, Tick, cacheVars, getVars, callVars, Maybe, Entry
<1>10. OneFlight'
  BY DEF CallInv, TypeOK, OneFlight, Owns, Clock, Callers, LocalHolders, SourceChanges, Tick, cacheVars, getVars, callVars, Maybe, Entry
<1>11. JoinersAgree'
  BY DEF CallInv, TypeOK, JoinersAgree, Joiners, Resolved, SourceChanges, Tick, cacheVars, getVars, callVars, Maybe, Entry
<1>12. StaleOnlyFromOverlap'
  BY DEF CallInv, TypeOK, StaleOnlyFromOverlap, Stored, Overlap, SourceChanges, Tick, cacheVars, getVars, callVars, Maybe, Entry
<1> QED
  BY <1>1, <1>2, <1>3, <1>4, <1>5, <1>6, <1>7, <1>8, <1>9, <1>10, <1>11, <1>12 DEF CallInv

LEMMA CallInvStep == CallInv /\ [Next]_cacheVars => CallInv'
<1> SUFFICES ASSUME CallInv, [Next]_cacheVars PROVE CallInv'
  OBVIOUS
<1>1. TypeOK'
  BY TypeStep DEF CallInv
<1>2. ASSUME NEW r \in Requests, Get(r) PROVE CallInv'
  BY <1>1, <1>2, GetHitInv, GetJoinInv, GetMissInv DEF Get
<1>3. ASSUME NEW r \in Requests, Miss(r) PROVE CallInv'
  BY <1>1, <1>3, ServeInv, FinishInv DEF Miss, MissSettles, MissTimesOut
<1>4. ASSUME NEW r \in Requests, Join(r) PROVE CallInv'
  BY <1>1, <1>4, AnswerInv
<1>5. ASSUME NEW i \in Instances, InvalidateCache(i) PROVE CallInv'
  BY <1>1, <1>5, InvalidateInv
<1>6. CASE SourceChanges \/ Tick \/ UNCHANGED cacheVars
  BY <1>1, <1>6, WorldInv
<1> QED
  BY <1>2, <1>3, <1>4, <1>5, <1>6 DEF Next

LEMMA CallInvariant == Spec => []CallInv
  BY CallInvInit, CallInvStep, PTL DEF Spec

(* One flight per instance, whatever the number of gets. *)
THEOREM SingleFlightPerInstance == Spec => []OneFlight
  BY CallInvariant, PTL DEF CallInv

(* Waiters get what their holder returned, or time out. *)
THEOREM WaitersAgree == Spec => []JoinersAgree
  BY CallInvariant, PTL DEF CallInv

(* An invalidation is undone only by gets it overlapped. *)
THEOREM InvalidationHolds == Spec => []StaleOnlyFromOverlap
  BY CallInvariant, PTL DEF CallInv

(* Results are stored in the order of entry, unless the wait limit was
   overrun: the writer of the entry ran the callback, so OneFlight speaks of
   it and of the get that is about to replace it. *)
THEOREM StoreOrder == Spec => StoresInOrder
<1>1. CallInv /\ [Next]_cacheVars =>
        [\A i \in Instances :
           LET old == cached[i].by  new == cached'[i].by IN
           old # None /\ new # None /\ startedAt[new] < startedAt[old]
             => startedAt[old] - startedAt[new] > MaxWait]_cacheVars
  <2> SUFFICES ASSUME CallInv, Next, NEW i \in Instances,
                      cached[i].by # None, cached'[i].by # None,
                      startedAt[cached'[i].by] < startedAt[cached[i].by]
               PROVE  startedAt[cached[i].by] - startedAt[cached'[i].by] > MaxWait
    OBVIOUS
  <2>1. PICK r \in Requests :
          pc[r] = "calling" /\ Home[r] = i /\ cached'[i].by = r
    <3>1. cached'[i].by # cached[i].by
      BY DEF CallInv, TypeOK, Entry, Maybe
    <3>2. ASSUME NEW r \in Requests, NEW v \in {r, None}, FinishMiss(r, v), pc[r] = "calling"
          PROVE  Home[r] = i /\ cached'[i].by = r
      BY <3>1, <3>2, HomeAssumption DEF FinishMiss, CallInv, TypeOK
    <3>3. ASSUME NEW j \in Instances, InvalidateCache(j) PROVE FALSE
      BY <3>1, <3>3 DEF InvalidateCache, RemoveLocal, NoEntry, CallInv, TypeOK
    <3> QED
      BY <3>1, <3>2, <3>3
      DEF Next, Get, GetHit, GetJoin, GetMiss, Miss, Serve, MissSettles, MissTimesOut,
          CallbackYields, CallbackTimeout, Join, JoinResolved, JoinTimeout, Answer,
          SourceChanges, Tick
  <2>2. cached[i].by \in called /\ Home[cached[i].by] = i /\ cached[i].by \in Requests
    BY DEF CallInv, Stored, TypeOK
  <2>3. cached[i].by # cached'[i].by
    BY <2>1, <2>2 DEF CallInv, TypeOK
  <2> QED
    BY <2>1, <2>2, <2>3 DEF CallInv, OneFlight
<1> QED
  BY <1>1, CallInvariant, PTL DEF Spec, StoresInOrder

(* No step takes the lock from a holder that has not expired, except the one
   that ends the holder's get. *)
THEOREM LockIsKept == Spec => LockKeptToTheEnd
<1>1. CallInv /\ [Next]_cacheVars =>
        [\A i \in Instances :
           LockHolder(i) # None /\ lockId'[i] # lockId[i]
             => pc[LockHolder(i)] # "returned" /\ pc'[LockHolder(i)] = "returned"]_cacheVars
  <2> SUFFICES ASSUME CallInv, Next, NEW i \in Instances,
                      LockHolder(i) # None, lockId'[i] # lockId[i]
               PROVE  pc[LockHolder(i)] # "returned" /\ pc'[LockHolder(i)] = "returned"
    OBVIOUS
  <2>1. PICK r \in Requests : LockHolder(i) = r /\ pc[r] = "calling" /\ pc'[r] = "returned"
    <3>1. ASSUME NEW r \in Requests, NEW v \in {r, None}, FinishMiss(r, v), pc[r] = "calling"
          PROVE  LockHolder(i) = r /\ pc'[r] = "returned"
      BY <3>1, HomeAssumption DEF FinishMiss, MayEmit, CallInv, TypeOK
    <3>2. ASSUME NEW r \in Requests, GetMiss(r) PROVE FALSE
      BY <3>2, HomeAssumption DEF GetMiss, LockForMiss, CallInv, TypeOK
    <3> QED
      BY <3>1, <3>2
      DEF Next, Get, GetHit, GetJoin, Miss, Serve, MissSettles, MissTimesOut, getVars,
          CallbackYields, CallbackTimeout, Join, JoinResolved, JoinTimeout, Answer,
          InvalidateCache, SourceChanges, Tick
  <2> QED
    BY <2>1
<1> QED
  BY <1>1, CallInvariant, PTL DEF Spec, LockKeptToTheEnd

------------------------------------------------------------------------------
(***************************************************************************)
(* The provider implements CachePromise.                                   *)
(***************************************************************************)
LocalServed == {r \in Requests : ver[r] # 0}

(* A step that ends the get of r with an answer is the Answered of the
   promise, when the answer was served before. *)
LEMMA LocalAnswerIsPromised ==
  ASSUME TypeOK, NEW r \in Requests, NEW v \in LocalServed \cup {None},
         pc[r] \in {"idle", "waiting", "calling"},
         pc' = [pc EXCEPT ![r] = "returned"],
         result' = [result EXCEPT ![r] = v],
         UNCHANGED ver
  PROVE  Promise!Answered(r)
<1>1. Phase' = [Phase EXCEPT ![r] = "answered"]
  BY DEF Phase, TypeOK
<1>2. Phase[r] \in {"idle", "pending"}
  BY DEF Phase, TypeOK
<1> QED
  BY <1>1, <1>2 DEF Promise!Answered, LocalServed

LEMMA LocalPendIsPromised ==
  ASSUME TypeOK, NEW r \in Requests, pc[r] = "idle",
         NEW c \in {"waiting", "calling"}, pc' = [pc EXCEPT ![r] = c],
         UNCHANGED <<result, ver>>
  PROVE  Promise!Pend(r)
<1>1. Phase' = [Phase EXCEPT ![r] = "pending"]
  BY DEF Phase, TypeOK
<1>2. Phase[r] = "idle"
  BY DEF Phase, TypeOK
<1> QED
  BY <1>1, <1>2 DEF Promise!Pend

(* Every behaviour of the provider is a behaviour of the promise: a get is
   answered once, with undefined or with a datum that was served before. *)
THEOREM Implements == Spec => KeepsPromise
<1>1. CacheInit => Promise!PromiseInit
  BY DEF CacheInit, Promise!PromiseInit, Phase
<1>2. CallInv /\ [Next]_cacheVars => [Promise!PromiseNext]_(Promise!promiseVars)
  <2> SUFFICES ASSUME CallInv, [Next]_cacheVars
               PROVE  Promise!PromiseNext \/ UNCHANGED Promise!promiseVars
    OBVIOUS
  <2> USE HomeAssumption, NoneAssumption
  <2>1. ASSUME NEW r \in Requests, GetHit(r) PROVE Promise!Answered(r)
    <3>1. cached[Home[r]].val \in LocalServed
      BY <2>1 DEF GetHit, Live, LocalServed, CallInv, Stored, TypeOK, Entry, Maybe
    <3> QED
      BY <2>1, <3>1, LocalAnswerIsPromised DEF GetHit, Enter, callVars, CallInv
  <2>2. ASSUME NEW r \in Requests, GetJoin(r) \/ GetMiss(r) PROVE Promise!Pend(r)
    BY <2>2, LocalPendIsPromised
    DEF GetJoin, GetMiss, LockForMiss, StartCallback, Enter, callVars, CallInv
  <2>3. ASSUME NEW r \in Requests, Serve(r) PROVE Promise!Source(r)
    <3>1. ver' = [ver EXCEPT ![r] = src] /\ src # 0 /\ ver[r] = 0 /\ pc[r] = "calling"
      BY <2>3 DEF Serve, CallInv, Clock, TypeOK
    <3>2. Phase' = Phase /\ Phase[r] = "pending" /\ result' = result
      BY <2>3, <3>1 DEF Serve, getVars, Phase
    <3>3. LocalServed' = LocalServed \cup {r} /\ r \notin LocalServed
      BY <3>1 DEF LocalServed, CallInv, TypeOK
    <3> QED
      BY <3>2, <3>3 DEF Promise!Source, LocalServed
  <2>4. ASSUME NEW r \in Requests, MissSettles(r) \/ MissTimesOut(r)
        PROVE  Promise!Answered(r)
    <3>1. PICK v \in LocalServed \cup {None} : FinishMiss(r, v) /\ pc[r] = "calling"
      BY <2>4 DEF MissSettles, MissTimesOut, CallbackYields, CallbackTimeout, LocalServed
    <3> QED
      BY <2>4, <3>1, LocalAnswerIsPromised
      DEF FinishMiss, MissSettles, MissTimesOut, callVars, CallInv
  <2>5. ASSUME NEW r \in Requests, Join(r) PROVE Promise!Answered(r)
    <3>1. PICK v \in LocalServed \cup {None} : Answer(r, v) /\ pc[r] = "waiting"
      <4>1. CASE JoinResolved(r)
        <5>1. waitsOn[r] \in Requests /\ result[waitsOn[r]] \in LocalServed \cup {None}
          BY <4>1 DEF JoinResolved, CallInv, TypeOK, Results, LocalServed, Maybe
        <5> QED
          BY <4>1, <5>1 DEF JoinResolved
      <4>2. CASE JoinTimeout(r)
        BY <4>2 DEF JoinTimeout
      <4> QED
        BY <2>5, <4>1, <4>2 DEF Join
    <3> QED
      BY <3>1, LocalAnswerIsPromised DEF Answer, callVars, CallInv
  <2>6. ASSUME \/ \E i \in Instances : InvalidateCache(i)
               \/ SourceChanges \/ Tick \/ UNCHANGED cacheVars
        PROVE  UNCHANGED Promise!promiseVars
    BY <2>6
    DEF InvalidateCache, SourceChanges, Tick, cacheVars, getVars, callVars,
        Promise!promiseVars, Phase
  <2> QED
    BY <2>1, <2>2, <2>3, <2>4, <2>5, <2>6
    DEF Next, Get, Miss, Join, Promise!PromiseNext
<1> QED
  BY <1>1, <1>2, CallInvariant, PTL DEF Spec, KeepsPromise, Promise!PromiseSpec

-----------------------------------------------------------------------------
(***************************************************************************)
(* The clustered cache.                                                    *)
(***************************************************************************)

(* Where a get stands that has, or had, the lock. *)
LockedPhases == {"calling", "storing", "leaving", "publishing", "unlocking", "returned", "dead"}

Basics ==
  /\ now \in Nat /\ pc \in [Requests -> Phases]
  /\ startedAt \in [Requests -> Nat] /\ leaseEnd \in [Requests -> Nat]
  /\ hasLock \subseteq Requests
  /\ lock \in Locks(Instances \cup {DeadClient}, Requests)
  /\ inv \in [Instances -> {"idle", "locked", "removed", "published"}]

(* The end of a lease is counted from before the lock was taken. *)
Asked == \A r \in Requests : leaseEnd[r] <= now + LockTtl

Holders ==
  \A r \in Requests : /\ r \in hasLock => pc[r] \in LockedPhases
                      /\ pc[r] \in {"publishing", "unlocking"} => r \in hasLock

(* Without the lock the callback runs only after the final retry time. *)
GaveUp == \A r \in Requests : InFlight(r) /\ r \notin hasLock => now > FinalRetry(r)

(* A lease that lasts, and was not broken, is that of the lock. *)
Lasts(r) == pc[r] \in MissPhases /\ now < leaseEnd[r] /\ r \notin robbed

Leases ==
  \A r \in hasLock :
    Lasts(r) => lock.by = r /\ lock.owner = Home[r] /\ leaseEnd[r] <= lock.exp

(* The lock of a get is its process's, while that is alive. *)
Named == lock.by # None /\ lock.owner \notin {None, DeadClient} => lock.owner = Home[lock.by]

IInv == Basics /\ Asked /\ Holders /\ GaveUp /\ Leases /\ Named

------------------------------------------------------------------------------
LEMMA InvInit == Init => IInv
<1> SUFFICES ASSUME Init PROVE IInv OBVIOUS
<1>1. now = 0 /\ pc = [r \in Requests |-> "idle"] /\ startedAt = [r \in Requests |-> 0]
  BY DEF Init, CacheInit
<1>2. leaseEnd = [r \in Requests |-> 0] /\ hasLock = {} /\ lock = NoLock
      /\ inv = [i \in Instances |-> "idle"]
  BY DEF Init
<1>3. Basics
  <2>1. lock \in Locks(Instances \cup {DeadClient}, Requests) BY <1>2 DEF NoLock, Locks
  <2>2. pc \in [Requests -> Phases] BY <1>1 DEF Phases
  <2>3. startedAt \in [Requests -> Nat] /\ leaseEnd \in [Requests -> Nat] BY <1>1, <1>2
  <2>4. inv \in [Instances -> {"idle", "locked", "removed", "published"}] BY <1>2
  <2>5. now \in Nat /\ hasLock \subseteq Requests BY <1>1, <1>2
  <2>6. QED BY <2>1, <2>2, <2>3, <2>4, <2>5 DEF Basics
<1>4. Asked
  <2>1. LockTtl \in Nat BY ClusterAssumption
  <2>2. now = 0 /\ \A r \in Requests : leaseEnd[r] = 0 BY <1>1, <1>2
  <2>3. \A r \in Requests : 0 <= 0 + LockTtl BY <2>1
  <2>4. QED BY <2>2, <2>3 DEF Asked
<1>5. Holders /\ GaveUp BY <1>1, <1>2 DEF Holders, GaveUp, InFlight
<1>6. Leases /\ Named BY <1>2 DEF Leases, Named, NoLock
<1>7. QED BY <1>3, <1>4, <1>5, <1>6 DEF IInv

(***************************************************************************)
(* A step of one get that leaves the lock alone, and all that it has to    *)
(* respect.                                                                *)
(***************************************************************************)
lockVars == <<now, leaseEnd, hasLock, lock, robbed, inv>>

Moves(r, to) ==
  /\ pc' = [pc EXCEPT ![r] = to] /\ to \in Phases
  /\ r \in hasLock => to \in LockedPhases
  /\ to \in {"publishing", "unlocking"} => r \in hasLock
  /\ to \in MissPhases /\ r \in hasLock => pc[r] \in MissPhases
  /\ to \in {"calling", "storing"} /\ r \notin hasLock => now > FinalRetry(r)
  /\ \/ UNCHANGED startedAt
     \/ startedAt' = [startedAt EXCEPT ![r] = now] /\ to \notin {"calling", "storing"}

LEMMA MoveStep ==
  ASSUME IInv, NEW r \in Requests, NEW to, Moves(r, to), UNCHANGED lockVars
  PROVE  IInv'
<1>1. Basics /\ Asked /\ Holders /\ GaveUp /\ Leases /\ Named BY DEF IInv
<1>2. UNCHANGED <<now, leaseEnd, hasLock, lock, robbed, inv>> BY DEF lockVars
<1>3. /\ \A q \in Requests \ {r} : pc'[q] = pc[q] /\ startedAt'[q] = startedAt[q]
      /\ pc'[r] = to /\ startedAt' \in [Requests -> Nat] /\ pc' \in [Requests -> Phases]
  BY <1>1 DEF Moves, Basics
<1>4. Basics' BY <1>1, <1>2, <1>3 DEF Basics
<1>5. Asked' BY <1>1, <1>2 DEF Asked
<1>6. Holders' BY <1>1, <1>2, <1>3 DEF Holders, Moves
<1>7. GaveUp'
  <2> SUFFICES ASSUME NEW q \in Requests, InFlight(q)', q \notin hasLock
               PROVE  (now > FinalRetry(q))'
    BY <1>2 DEF GaveUp
  <2>1. CASE q # r BY <2>1, <1>1, <1>2, <1>3 DEF GaveUp, InFlight, FinalRetry
  <2>2. CASE q = r
    <3>1. to \in {"calling", "storing"} BY <2>2, <1>3 DEF InFlight
    <3>2. QED BY <2>2, <3>1, <1>2 DEF Moves, FinalRetry
  <2>3. QED BY <2>1, <2>2
<1>8. Leases'
  <2>1. \A q \in hasLock : Lasts(q)' => Lasts(q) BY <1>1, <1>2, <1>3 DEF Lasts, Moves, Basics
  <2>2. QED BY <1>1, <1>2, <2>1 DEF Leases
<1>9. Named' BY <1>1, <1>2 DEF Named
<1>10. QED BY <1>4, <1>5, <1>6, <1>7, <1>8, <1>9 DEF IInv

LEMMA UnlockedFacts ==
  ASSUME NEW r \in Requests, IInv, pc[r] \notin LockedPhases
  PROVE  r \notin hasLock
BY DEF IInv, Holders

(***************************************************************************)
(* Which moves the steps of a get are.                                     *)
(***************************************************************************)
LEMMA LocalSteps ==
  ASSUME IInv, NEW r \in Requests, LocalGet(r) \/ BeginMiss(r)
  PROVE  IInv'
<1>1. CASE LocalGet(r)
  <2>1. UNCHANGED lockVars BY <1>1 DEF LocalGet, GetHit, GetJoin, JoinResolved, JoinTimeout,
          Answer, Serve, clusterVars, missVars, invVars, lockVars
  <2>2. CASE GetHit(r)
    <3>1. Moves(r, "returned")
      BY <2>2 DEF GetHit, Enter, Moves, Phases, LockedPhases, MissPhases
    <3>2. QED BY <2>1, <3>1, MoveStep
  <2>3. CASE GetJoin(r)
    <3>1. pc[r] = "idle" BY <2>3 DEF GetJoin, Enter
    <3>2. r \notin hasLock BY <3>1, UnlockedFacts DEF LockedPhases
    <3>3. Moves(r, "waiting")
      BY <2>3, <3>2 DEF GetJoin, Enter, Moves, Phases, MissPhases
    <3>4. QED BY <2>1, <3>3, MoveStep
  <2>4. CASE JoinResolved(r) \/ JoinTimeout(r)
    <3>1. Moves(r, "returned")
      BY <2>4 DEF JoinResolved, JoinTimeout, Answer, Moves, Phases, LockedPhases, MissPhases
    <3>2. QED BY <2>1, <3>1, MoveStep
  <2>5. CASE Serve(r)
    <3>1. UNCHANGED <<pc, startedAt>> BY <2>5 DEF Serve, getVars
    <3>2. QED BY <2>1, <3>1 DEF IInv, Basics, Asked, Holders, GaveUp, Leases, Named, lockVars,
            InFlight, FinalRetry, Lasts
  <2>6. QED BY <1>1, <2>2, <2>3, <2>4, <2>5 DEF LocalGet
<1>2. CASE BeginMiss(r)
  <2>1. pc[r] = "idle" BY <1>2 DEF BeginMiss, LockForMiss, Enter
  <2>2. r \notin hasLock BY <2>1, UnlockedFacts DEF LockedPhases
  <2>3. UNCHANGED lockVars BY <1>2 DEF BeginMiss, localVars, invVars, lockVars
  <2>4. Moves(r, "subscribing")
    BY <1>2, <2>2 DEF BeginMiss, LockForMiss, Enter, Moves, Phases, MissPhases
  <2>5. QED BY <2>3, <2>4, MoveStep
<1>3. QED BY <1>1, <1>2

LEMMA MissSteps ==
  ASSUME IInv, NEW r \in Requests,
         \/ Subscribe(r) \/ HearData(r) \/ CallbackReturns(r) \/ CallbackTimesOut(r)
         \/ StoreObject(r) \/ CommandFails(r) \/ UnlockFails(r) \/ PublishResult(r)
  PROVE  IInv'
<1>1. CASE Subscribe(r) \/ HearData(r) \/ CommandFails(r)
  <2>1. UNCHANGED lockVars /\ UNCHANGED startedAt
    BY <1>1 DEF Subscribe, HearData, CommandFails, localVars, invVars, missVars, lockVars,
       getRest, okVars
  <2>2. CASE Subscribe(r)
    <3>1. pc[r] = "subscribing" BY <2>2 DEF Subscribe, Step
    <3>2. r \notin hasLock BY <3>1, UnlockedFacts DEF LockedPhases
    <3>3. Moves(r, "reading")
      BY <2>1, <2>2, <3>2 DEF Subscribe, Step, To, Moves, Phases, MissPhases
    <3>4. QED BY <2>1, <3>3, MoveStep
  <2>3. CASE HearData(r) \/ CommandFails(r)
    <3>1. Moves(r, "leaving")
      BY <2>1, <2>3 DEF HearData, CommandFails, Step, To, Moves, Phases, MissPhases, LockedPhases
    <3>2. QED BY <2>1, <3>1, MoveStep
  <2>4. QED BY <1>1, <2>2, <2>3
<1>2. CASE CallbackReturns(r)
  <2>1. UNCHANGED lockVars /\ UNCHANGED startedAt
    BY <1>2 DEF CallbackReturns, localVars, invVars, lockVars, getRest
  <2>2. PICK to \in {"leaving", "storing"} : pc' = [pc EXCEPT ![r] = to] /\ pc[r] = "calling"
    BY <1>2 DEF CallbackReturns, CallbackYields, To
  <2>3. r \notin hasLock => now > FinalRetry(r) BY <2>2 DEF IInv, GaveUp, InFlight
  <2>4. Moves(r, to) BY <2>1, <2>2, <2>3 DEF Moves, Phases, MissPhases, LockedPhases
  <2>5. QED BY <2>1, <2>4, MoveStep
<1>3. CASE CallbackTimesOut(r) \/ StoreObject(r)
  <2>1. UNCHANGED lockVars /\ UNCHANGED startedAt
    BY <1>3 DEF CallbackTimesOut, StoreObject, localVars, clusterVars, missVars, invVars,
       lockVars, getRest
  <2>2. Moves(r, "leaving")
    BY <1>3, <2>1 DEF CallbackTimesOut, CallbackTimeout, StoreObject, Step, To, Moves, Phases,
       MissPhases, LockedPhases
  <2>3. QED BY <2>1, <2>2, MoveStep
<1>4. CASE UnlockFails(r)
  <2>1. UNCHANGED lockVars /\ UNCHANGED startedAt
    BY <1>4 DEF UnlockFails, localVars, okVars, missVars, invVars, lockVars, getRest
  <2>2. Moves(r, "returned")
    BY <1>4, <2>1 DEF UnlockFails, Step, To, Moves, Phases, MissPhases, LockedPhases
  <2>3. QED BY <2>1, <2>2, MoveStep
<1>5. CASE PublishResult(r)
  <2>1. UNCHANGED lockVars /\ UNCHANGED startedAt
    BY <1>5 DEF PublishResult, localVars, invVars, lockVars, getRest
  <2>2. pc[r] = "publishing" /\ pc' = [pc EXCEPT ![r] = "unlocking"]
    BY <1>5 DEF PublishResult, Step, To
  <2>3. r \in hasLock BY <2>2 DEF IInv, Holders
  <2>4. Moves(r, "unlocking")
    BY <2>1, <2>2, <2>3 DEF Moves, Phases, MissPhases, LockedPhases
  <2>5. QED BY <2>1, <2>4, MoveStep
<1>6. QED BY <1>1, <1>2, <1>3, <1>4, <1>5

(* Who holds its lease broadcasts, the others return. *)
LEMMA UnsubscribeStep ==
  ASSUME IInv, NEW r \in Requests, Unsubscribe(r)
  PROVE  IInv'
<1>1. UNCHANGED lockVars /\ pc[r] = "leaving"
  BY DEF Unsubscribe, invVars, lockVars
<1>2. UNCHANGED startedAt
  BY DEF Unsubscribe, getRest, ReturnOutcome, FinishMiss
<1>3. PICK to \in {"publishing", "returned"} :
        pc' = [pc EXCEPT ![r] = to] /\ (to = "publishing" => r \in hasLock)
  BY DEF Unsubscribe, To, HoldsLease, ReturnOutcome, FinishMiss
<1>4. Moves(r, to) BY <1>1, <1>2, <1>3 DEF Moves, Phases, MissPhases, LockedPhases
<1>5. QED BY <1>1, <1>4, MoveStep

(* A lease is asked for: its end is not beyond that of a lock taken later. *)
LEMMA AskStep ==
  ASSUME IInv, NEW r \in Requests, pc[r] \in {"reading", "awaiting"}, AskForLock(r),
         UNCHANGED <<now, startedAt, hasLock, lock, robbed, inv>>
  PROVE  IInv'
<1>1. Basics /\ Asked /\ Holders /\ GaveUp /\ Leases /\ Named BY DEF IInv
<1>2. r \notin hasLock BY UnlockedFacts DEF LockedPhases
<1>3. now \in Nat /\ LockTtl \in Nat BY <1>1, ClusterAssumption DEF Basics
<1>4. /\ \A q \in Requests \ {r} : pc'[q] = pc[q] /\ leaseEnd'[q] = leaseEnd[q]
      /\ pc'[r] = "locking" /\ leaseEnd'[r] = now + LockTtl
      /\ leaseEnd' \in [Requests -> Nat] /\ pc' \in [Requests -> Phases]
  BY <1>1, <1>3 DEF AskForLock, To, Basics, Phases, MissPhases
<1>5. Basics' BY <1>1, <1>4 DEF Basics
<1>6. Asked' BY <1>1, <1>3, <1>4 DEF Asked
<1>7. Holders' BY <1>1, <1>2, <1>4 DEF Holders
<1>8. GaveUp' BY <1>1, <1>4 DEF GaveUp, InFlight, FinalRetry
<1>9. Leases'
  <2>1. \A q \in hasLock : q # r BY <1>2
  <2>2. \A q \in hasLock : (Lasts(q)' <=> Lasts(q)) /\ leaseEnd'[q] = leaseEnd[q]
    BY <1>1, <1>4, <2>1 DEF Lasts, Basics
  <2>3. QED BY <1>1, <2>2 DEF Leases
<1>10. Named' BY <1>1 DEF Named
<1>11. QED BY <1>5, <1>6, <1>7, <1>8, <1>9, <1>10 DEF IInv

LEMMA ReadSteps ==
  ASSUME IInv, NEW r \in Requests, ReadStore(r) \/ RetryOrGiveUp(r)
  PROVE  IInv'
<1>1. UNCHANGED <<now, startedAt, hasLock, lock, robbed, inv>>
  BY DEF ReadStore, RetryOrGiveUp, localVars, invVars, getRest
<1>2. pc[r] \in {"reading", "awaiting"} BY DEF ReadStore, RetryOrGiveUp
<1>3. CASE AskForLock(r) BY <1>1, <1>2, <1>3, AskStep
<1>4. CASE ~AskForLock(r) /\ ReadStore(r)
  <2>1. UNCHANGED leaseEnd /\ pc' = [pc EXCEPT ![r] = "leaving"]
    BY <1>4 DEF ReadStore, To
  <2>2. Moves(r, "leaving")
    BY <1>1, <1>2, <2>1 DEF Moves, Phases, MissPhases, LockedPhases
  <2>3. QED BY <1>1, <2>1, <2>2, MoveStep DEF lockVars
<1>5. CASE ~AskForLock(r) /\ RetryOrGiveUp(r)
  <2>1. /\ UNCHANGED leaseEnd /\ pc' = [pc EXCEPT ![r] = "calling"]
        /\ now > FinalRetry(r)
    BY <1>5 DEF RetryOrGiveUp, To
  <2>2. Moves(r, "calling")
    BY <1>1, <1>2, <2>1 DEF Moves, Phases, MissPhases, LockedPhases
  <2>3. QED BY <1>1, <2>1, <2>2, MoveStep DEF lockVars
<1>6. QED BY <1>3, <1>4, <1>5

(***************************************************************************)
(* The steps that change the lock.                                         *)
(***************************************************************************)
LEMMA LockType ==
  ASSUME NEW c \in Instances, NEW by \in Maybe, NEW t \in Nat
  PROVE  /\ ForceLock(c, by, t) \in Locks(Instances \cup {DeadClient}, Requests)
         /\ ForceLock(c, by, t).owner = c /\ ForceLock(c, by, t).by = by
         /\ ForceLock(c, by, t).exp = t + LockTtl
         /\ NoLock \in Locks(Instances \cup {DeadClient}, Requests)
         /\ NoLock.by = None /\ NoLock.owner = None
BY ClusterAssumption DEF ForceLock, NoLock, Locks, Maybe

(* A lease that lasts is one of a lock that lasts. *)
LEMMA LastingLease ==
  ASSUME IInv, NEW r \in hasLock, Lasts(r)
  PROVE  Locked(lock, now) /\ lock.by = r /\ lock.owner = Home[r]
<1>1. lock.by = r /\ lock.owner = Home[r] /\ leaseEnd[r] <= lock.exp BY DEF IInv, Leases
<1>2. Home[r] # None /\ lock.exp \in Nat /\ now \in Nat /\ leaseEnd[r] \in Nat
  BY HomeAssumption, ClusterAssumption DEF IInv, Basics, Locks
<1>3. QED BY <1>1, <1>2 DEF Locked, Lasts

(* The lock is taken when it is free: no lease lasts. *)
LEMMA TryLockStep ==
  ASSUME IInv, NEW r \in Requests, TryLock(r)
  PROVE  IInv'
<1>1. /\ pc[r] = "locking" /\ UNCHANGED <<now, startedAt, leaseEnd, robbed, inv>>
      /\ \/ /\ CanLock(lock, now) /\ lock' = ForceLock(Home[r], r, now)
            /\ hasLock' = hasLock \cup {r} /\ pc' = [pc EXCEPT ![r] = "calling"]
         \/ pc' = [pc EXCEPT ![r] = "awaiting"] /\ UNCHANGED <<lock, hasLock>>
  BY DEF TryLock, To, localVars, invVars, getRest
<1>2. r \notin hasLock BY <1>1, UnlockedFacts DEF LockedPhases
<1>3. CASE pc' = [pc EXCEPT ![r] = "awaiting"] /\ UNCHANGED <<lock, hasLock>>
  <2>1. Moves(r, "awaiting") BY <1>1, <1>2, <1>3 DEF Moves, Phases, MissPhases
  <2>2. QED BY <1>1, <1>3, <2>1, MoveStep DEF lockVars
<1>4. CASE /\ CanLock(lock, now) /\ lock' = ForceLock(Home[r], r, now)
           /\ hasLock' = hasLock \cup {r} /\ pc' = [pc EXCEPT ![r] = "calling"]
  <2>1. Basics /\ Asked /\ Holders /\ GaveUp /\ Leases /\ Named BY DEF IInv
  <2>2. Home[r] \in Instances /\ now \in Nat /\ r \in Maybe
    BY <2>1, HomeAssumption DEF Basics, Maybe
  <2>3. /\ lock' \in Locks(Instances \cup {DeadClient}, Requests)
        /\ lock'.owner = Home[r] /\ lock'.by = r /\ lock'.exp = now + LockTtl
    BY <1>4, <2>2, LockType
  <2>4. /\ \A q \in Requests \ {r} : pc'[q] = pc[q]
        /\ pc'[r] = "calling" /\ pc' \in [Requests -> Phases]
    BY <1>4, <2>1 DEF Basics, Phases, MissPhases
  <2>5. \A q \in hasLock : ~Lasts(q) BY <1>4, LastingLease DEF CanLock
  <2>6. Basics' BY <1>1, <1>4, <2>1, <2>3, <2>4 DEF Basics
  <2>7. Asked' BY <1>1, <2>1 DEF Asked
  <2>8. Holders' BY <1>4, <2>1, <2>4 DEF Holders, LockedPhases
  <2>9. GaveUp' BY <1>1, <1>4, <2>1, <2>4 DEF GaveUp, InFlight, FinalRetry
  <2>10. Leases'
    <3>1. \A q \in hasLock \ {r} : ~Lasts(q)' BY <1>1, <2>1, <2>4, <2>5 DEF Lasts, Basics
    <3>2. leaseEnd'[r] <= lock'.exp BY <1>1, <2>1, <2>3 DEF Asked
    <3>3. QED BY <1>4, <2>3, <3>1, <3>2 DEF Leases
  <2>11. Named' BY <2>3 DEF Named
  <2>12. QED BY <2>6, <2>7, <2>8, <2>9, <2>10, <2>11 DEF IInv
<1>5. QED BY <1>1, <1>3, <1>4

(* The lock is deleted, or taken by force: the get that it named is robbed, *)
(* unless it is the one that unlocks and returns.                           *)
LEMMA LockChanges ==
  ASSUME IInv, NEW by \in Maybe,
         UNCHANGED <<now, startedAt, leaseEnd, hasLock>>,
         \/ by = None /\ UNCHANGED pc
         \/ by \in Requests /\ pc' = [pc EXCEPT ![by] = "returned"],
         robbed \subseteq robbed',
         lock' \in Locks(Instances \cup {DeadClient}, Requests),
         lock' # lock => lock'.by = None /\ (Locked(lock, now) => lock.by \in robbed' \cup {by, None}),
         inv' \in [Instances -> {"idle", "locked", "removed", "published"}]
  PROVE  IInv'
<1>1. Basics /\ Asked /\ Holders /\ GaveUp /\ Leases /\ Named BY DEF IInv
<1>2. \A q \in Requests : pc'[q] = pc[q] \/ (q = by /\ pc'[q] = "returned") BY <1>1 DEF Basics
<1>3. pc' \in [Requests -> Phases] BY <1>1 DEF Basics, Phases
<1>4. Basics' BY <1>1, <1>3 DEF Basics
<1>5. Asked' BY <1>1 DEF Asked
<1>6. Holders' BY <1>1, <1>2 DEF Holders, LockedPhases
<1>7. GaveUp' BY <1>1, <1>2 DEF GaveUp, InFlight, FinalRetry
<1>8. Leases'
  <2> SUFFICES ASSUME NEW q \in hasLock, Lasts(q)'
               PROVE  lock'.by = q /\ lock'.owner = Home[q] /\ leaseEnd[q] <= lock'.exp
    BY DEF Leases
  <2>1. q \in Requests /\ q # None BY <1>1, NoneAssumption DEF Basics
  <2>2. pc'[q] # "returned" BY DEF Lasts, MissPhases
  <2>3. q # by BY <1>1, <2>1, <2>2 DEF Basics
  <2>4. pc'[q] = pc[q] BY <1>2, <2>1, <2>2
  <2>5. Lasts(q) /\ q \notin robbed' BY <2>4 DEF Lasts
  <2>6. Locked(lock, now) /\ lock.by = q BY <2>5, LastingLease
  <2>7. lock' = lock BY <2>1, <2>3, <2>5, <2>6
  <2>8. QED BY <1>1, <2>5, <2>7 DEF Leases
<1>9. Named' BY <1>1 DEF Named
<1>10. QED BY <1>4, <1>5, <1>6, <1>7, <1>8, <1>9 DEF IInv

LEMMA ReleaseFacts ==
  ASSUME IInv, NEW c \in Instances, NEW by \in Maybe, Release(c, by)
  PROVE  /\ robbed \subseteq robbed'
         /\ lock' \in Locks(Instances \cup {DeadClient}, Requests)
         /\ lock' # lock => lock'.by = None /\ OwnedBy(lock, c, now)
                            /\ lock.by \in robbed' \cup {by, None}
<1>1. lock \in Locks(Instances \cup {DeadClient}, Requests) BY DEF IInv, Basics
<1>2. NoLock \in Locks(Instances \cup {DeadClient}, Requests) /\ NoLock.by = None
  BY DEF NoLock, Locks
<1>3. QED BY <1>1, <1>2 DEF Release, Unlocked

LEMMA UnlockSteps ==
  ASSUME IInv, \/ \E r \in Requests : Unlock(r)
               \/ \E i \in Instances : InvUnlock(i) \/ InvLock(i)
  PROVE  IInv'
<1>0. inv \in [Instances -> {"idle", "locked", "removed", "published"}] /\ now \in Nat
  BY DEF IInv, Basics
<1>1. ASSUME NEW r \in Requests, Unlock(r) PROVE IInv'
  <2>1. /\ UNCHANGED <<now, startedAt, leaseEnd, hasLock, inv>> /\ Release(Home[r], r)
        /\ pc' = [pc EXCEPT ![r] = "returned"]
    BY <1>1 DEF Unlock, ReturnOutcome, FinishMiss, invVars
  <2>2. Home[r] \in Instances /\ r \in Maybe BY HomeAssumption DEF Maybe
  <2>3. QED BY <1>0, <2>1, <2>2, ReleaseFacts, LockChanges
<1>2. ASSUME NEW i \in Instances, InvUnlock(i) PROVE IInv'
  <2>1. /\ UNCHANGED <<now, startedAt, leaseEnd, hasLock, pc>> /\ Release(i, None)
        /\ inv' = [inv EXCEPT ![i] = "idle"]
    BY <1>2 DEF InvUnlock, InvStep, getVars, missVars
  <2>2. None \in Maybe BY DEF Maybe
  <2>3. inv' \in [Instances -> {"idle", "locked", "removed", "published"}] BY <1>0, <2>1
  <2>4. QED BY <2>1, <2>2, <2>3, ReleaseFacts, LockChanges
<1>3. ASSUME NEW i \in Instances, InvLock(i) PROVE IInv'
  <2>1. /\ UNCHANGED <<now, startedAt, leaseEnd, hasLock, pc>>
        /\ lock' = ForceLock(i, None, now)
        /\ inv' = [inv EXCEPT ![i] = "locked"]
        /\ robbed' = IF Locked(lock, now) THEN robbed \cup ({lock.by} \ {None}) ELSE robbed
    BY <1>3 DEF InvLock, InvStep, getVars, missVars
  <2>2. None \in Maybe BY DEF Maybe
  <2>3. inv' \in [Instances -> {"idle", "locked", "removed", "published"}] BY <1>0, <2>1
  <2>4. lock' \in Locks(Instances \cup {DeadClient}, Requests) /\ lock'.by = None
    BY <1>0, <2>1, <2>2, LockType
  <2>5. QED BY <2>1, <2>2, <2>3, <2>4, LockChanges
<1>4. QED BY <1>1, <1>2, <1>3

(* Nobody owns the lock of a dead process, whose gets never go on. *)
LEMMA CrashStep ==
  ASSUME IInv, NEW i \in Instances, Crash(i)
  PROVE  IInv'
<1>1. Basics /\ Asked /\ Holders /\ GaveUp /\ Leases /\ Named BY DEF IInv
<1>2. /\ UNCHANGED <<now, startedAt, leaseEnd, hasLock, robbed>>
      /\ pc' = [r \in Requests |->
                  IF Home[r] = i /\ pc[r] \notin {"idle", "returned"} THEN "dead" ELSE pc[r]]
      /\ lock' = IF lock.owner = i THEN [lock EXCEPT !.owner = DeadClient] ELSE lock
      /\ inv' = [inv EXCEPT ![i] = "idle"]
  BY DEF Crash
<1>3. \A q \in Requests : pc'[q] = pc[q] \/ pc'[q] = "dead" BY <1>2
<1>4. /\ lock' \in Locks(Instances \cup {DeadClient}, Requests)
      /\ lock'.by = lock.by /\ lock'.exp = lock.exp
      /\ lock'.owner = IF lock.owner = i THEN DeadClient ELSE lock.owner
  BY <1>1, <1>2 DEF Basics, Locks
<1>5. Basics'
  <2>1. pc' \in [Requests -> Phases] BY <1>1, <1>2 DEF Basics, Phases
  <2>2. inv' \in [Instances -> {"idle", "locked", "removed", "published"}]
    BY <1>1, <1>2 DEF Basics
  <2>3. QED BY <1>1, <1>2, <1>4, <2>1, <2>2 DEF Basics
<1>6. Asked' BY <1>1, <1>2 DEF Asked
<1>7. Holders' BY <1>1, <1>2, <1>3 DEF Holders, LockedPhases
<1>8. GaveUp' BY <1>1, <1>2, <1>3 DEF GaveUp, InFlight, FinalRetry
<1>9. Leases'
  <2> SUFFICES ASSUME NEW q \in hasLock, Lasts(q)'
               PROVE  lock'.by = q /\ lock'.owner = Home[q] /\ leaseEnd[q] <= lock'.exp
    BY <1>2 DEF Leases
  <2>1. q \in Requests BY <1>1 DEF Basics
  <2>2. pc'[q] \in MissPhases BY DEF Lasts
  <2>3. pc'[q] = pc[q] /\ Home[q] # i BY <1>2, <2>1, <2>2 DEF MissPhases
  <2>4. Lasts(q) BY <1>2, <2>3 DEF Lasts
  <2>5. QED BY <1>1, <1>4, <2>3, <2>4 DEF Leases
<1>10. Named' BY <1>1, <1>4 DEF Named
<1>11. QED BY <1>5, <1>6, <1>7, <1>8, <1>9, <1>10 DEF IInv

(* Time, the source, messages, and the steps of an invalidation between    *)
(* its lock and its unlock.                                                *)
LEMMA OtherSteps ==
  ASSUME IInv,
         \/ World \/ UNCHANGED vars
         \/ \E i \in Instances : \/ InvRemove(i) \/ InvPublish(i) \/ InvFails(i)
                                 \/ ReceiveUpdate(i) \/ ReceiveInvalidation(i) \/ LoseMessage(i)
  PROVE  IInv'
<1>1. Basics /\ Asked /\ Holders /\ GaveUp /\ Leases /\ Named BY DEF IInv
<1>2. UNCHANGED <<pc, startedAt, leaseEnd, hasLock, lock, robbed>>
  BY DEF World, SourceChanges, Tick, vars, cacheVars, clusterVars, getVars, missVars, InvRemove,
     InvPublish, InvFails, InvStep, ReceiveUpdate, ReceiveInvalidation, LoseMessage, Received
<1>3. now' \in Nat /\ now <= now'
  <2>1. CASE Tick BY <1>1, <2>1 DEF Tick, Basics
  <2>2. CASE ~Tick
    <3>1. now' = now
      BY <2>2 DEF World, SourceChanges, vars, cacheVars, InvRemove, InvPublish, InvFails,
         InvStep, ReceiveUpdate, ReceiveInvalidation, LoseMessage, Received
    <3>2. QED BY <1>1, <3>1 DEF Basics
  <2>3. QED BY <2>1, <2>2
<1>4. inv' \in [Instances -> {"idle", "locked", "removed", "published"}]
  BY <1>1 DEF World, vars, clusterVars, invVars, InvRemove, Basics,
     InvPublish, InvFails, InvStep, ReceiveUpdate, ReceiveInvalidation, LoseMessage, Received
<1>5. Basics' BY <1>1, <1>2, <1>3, <1>4 DEF Basics
<1>6. now \in Nat /\ LockTtl \in Nat BY <1>1, ClusterAssumption DEF Basics
<1>7. Asked'
  <2>1. \A r \in Requests : leaseEnd[r] \in Nat BY <1>1 DEF Basics
  <2>2. QED BY <1>1, <1>2, <1>3, <1>6, <2>1 DEF Asked
<1>8. Holders' BY <1>1, <1>2 DEF Holders
<1>9. GaveUp'
  <2>1. \A r \in Requests : FinalRetry(r) \in Nat BY <1>1, TimesAssumption DEF FinalRetry, Basics
  <2>2. \A r \in Requests : FinalRetry(r)' = FinalRetry(r) /\ (InFlight(r)' <=> InFlight(r))
    BY <1>2 DEF FinalRetry, InFlight
  <2>3. QED BY <1>1, <1>2, <1>3, <1>6, <2>1, <2>2 DEF GaveUp
<1>10. Leases'
  <2>1. \A r \in hasLock : Lasts(r)' => Lasts(r) BY <1>1, <1>2, <1>3, <1>6 DEF Lasts, Basics
  <2>2. QED BY <1>1, <1>2, <2>1 DEF Leases
<1>11. Named' BY <1>1, <1>2 DEF Named
<1>12. QED BY <1>5, <1>7, <1>8, <1>9, <1>10, <1>11 DEF IInv

LEMMA InvNext == IInv /\ [ClusterNext]_vars => IInv'
<1> SUFFICES ASSUME IInv, [ClusterNext]_vars PROVE IInv' OBVIOUS
<1>1. ASSUME NEW r \in Requests, LocalGet(r) \/ BeginMiss(r) PROVE IInv'
  BY <1>1, LocalSteps
<1>2. ASSUME NEW r \in Requests,
             CallbackReturns(r) \/ Progress(r) \/ MissFault(r) PROVE IInv'
  <2>1. ASSUME Unsubscribe(r) PROVE IInv' BY <2>1, UnsubscribeStep
  <2>2. ASSUME ReadStore(r) \/ RetryOrGiveUp(r) PROVE IInv' BY <2>2, ReadSteps
  <2>3. ASSUME TryLock(r) PROVE IInv' BY <2>3, TryLockStep
  <2>4. ASSUME Unlock(r) PROVE IInv' BY <2>4, UnlockSteps
  <2>5. ASSUME \/ Subscribe(r) \/ HearData(r) \/ CallbackReturns(r) \/ CallbackTimesOut(r)
               \/ StoreObject(r) \/ CommandFails(r) \/ UnlockFails(r) \/ PublishResult(r)
        PROVE  IInv'
    BY <2>5, MissSteps
  <2>6. QED BY <1>2, <2>1, <2>2, <2>3, <2>4, <2>5 DEF Progress, MissFault
<1>3. ASSUME NEW i \in Instances, Invalidate(i) PROVE IInv'
  BY <1>3, UnlockSteps, OtherSteps DEF Invalidate
<1>4. ASSUME NEW i \in Instances, Crash(i) PROVE IInv' BY <1>4, CrashStep
<1>5. ASSUME NEW i \in Instances,
             ReceiveUpdate(i) \/ ReceiveInvalidation(i) \/ LoseMessage(i) PROVE IInv'
  BY <1>5, OtherSteps
<1>6. ASSUME World \/ UNCHANGED vars PROVE IInv' BY <1>6, OtherSteps
<1>7. QED BY <1>1, <1>2, <1>3, <1>4, <1>5, <1>6 DEF ClusterNext

------------------------------------------------------------------------------
(* While a get's lock lasts and nobody took it away, redis holds it for    *)
(* this get: lock, endOfLockTime.                                          *)
LEMMA LeaseFromInv == IInv => LeaseHeld
<1> SUFFICES ASSUME IInv, NEW r \in hasLock,
                    pc[r] \in MissPhases, now < leaseEnd[r], r \notin robbed
             PROVE  Locked(lock, now) /\ lock.by = r /\ lock.owner = Home[r]
  BY DEF LeaseHeld
<1>1. Lasts(r) BY DEF Lasts
<1>2. QED BY <1>1, LastingLease

(* At every moment of every behaviour, with crashes, rejected commands and *)
(* locks that run out, a get's lease is what redis holds: lock, unlock.    *)
THEOREM LeaseIsHeld == ClusterSpec => []LeaseHeld
BY InvInit, InvNext, LeaseFromInv, PTL DEF ClusterSpec

(* Of two gets that run the callback beside each other one at least gave   *)
(* up waiting, or its lock ran out or was taken away: handleCacheMiss.     *)
THEOREM ClusterSingleFlight == ClusterSpec => []SingleFlight
<1>1. IInv => SingleFlight
  <2> SUFFICES ASSUME IInv, NEW r \in Requests, NEW q \in Requests, r # q,
                      InFlight(r), InFlight(q), ~Excused(r), ~Excused(q)
               PROVE  FALSE
    BY DEF SingleFlight
  <2>1. \A x \in {r, q} : x \in hasLock BY DEF IInv, GaveUp, Excused
  <2>2. \A x \in {r, q} : now < leaseEnd[x] BY <2>1 DEF IInv, Basics, Excused
  <2>3. \A x \in {r, q} : Lasts(x) BY <2>2 DEF Lasts, Excused, InFlight, MissPhases
  <2>4. lock.by = r /\ lock.by = q BY <2>1, <2>3, LastingLease
  <2>5. QED BY <2>4
<1>2. QED BY <1>1, InvInit, InvNext, PTL DEF ClusterSpec

(* A lock that lasts leaves its acquirer only by its own unlock, an        *)
(* invalidation, a death, or an unlock of its process by a get whose own   *)
(* lock is over: unlock, del-if-locked.lua.                                *)
THEOREM LeaseIsBrokenOnlyBy == ClusterSpec => LeaseBrokenOnlyBy
<1> DEFINE Breaks(r) == /\ Locked(lock, now) /\ lock.by = r /\ lock.owner # DeadClient
                        /\ lock'.by # r \/ lock'.owner # lock.owner
           Reason(r) == \/ pc[r] = "unlocking" \/ inv' # inv \/ crashed' # crashed
                        \/ \E q \in Requests \ {r} :
                             /\ pc[q] = "unlocking" /\ Home[q] = Home[r]
                             /\ now >= leaseEnd[q] \/ q \in robbed
<1>1. ASSUME IInv, ClusterNext, NEW r \in Requests, Breaks(r) PROVE Reason(r)
  <2>1. lock' # lock BY <1>1
  <2>2. inv \in [Instances -> {"idle", "locked", "removed", "published"}] /\ now \in Nat
    BY <1>1 DEF IInv, Basics
  <2>3. CASE \E q \in Requests : TryLock(q)
    BY <1>1, <2>1, <2>3 DEF TryLock, CanLock
  <2>4. CASE \E q \in Requests : Unlock(q)
    <3>1. PICK q \in Requests : Unlock(q) BY <2>4
    <3>2. pc[q] = "unlocking" /\ OwnedBy(lock, Home[q], now)
      BY <2>1, <3>1 DEF Unlock, Release, Unlocked
    <3>3. CASE q = r BY <3>2, <3>3
    <3>4. CASE q # r
      <4>1. Home[q] = Home[r]
        <5>1. r # None /\ lock.owner = Home[q] /\ Home[q] # None
          BY <3>2, NoneAssumption, HomeAssumption, ClusterAssumption DEF OwnedBy
        <5>2. QED BY <1>1, <5>1 DEF IInv, Named
      <4>2. q \in hasLock /\ leaseEnd[q] \in Nat BY <1>1, <3>2 DEF IInv, Holders, Basics
      <4>3. ~Lasts(q) BY <1>1, <3>4, <4>2, LastingLease
      <4>4. now >= leaseEnd[q] \/ q \in robbed BY <2>2, <3>2, <4>2, <4>3 DEF Lasts, MissPhases
      <4>5. QED BY <3>2, <3>4, <4>1, <4>4
    <3>5. QED BY <3>3, <3>4
  <2>5. CASE \E i \in Instances : InvLock(i) \/ InvUnlock(i)
    <3>1. PICK i \in Instances : InvLock(i) \/ InvUnlock(i) BY <2>5
    <3>2. inv'[i] # inv[i] BY <2>2, <3>1 DEF InvLock, InvUnlock, InvStep
    <3>3. QED BY <3>2
  <2>6. CASE \E i \in Instances : Crash(i)
    BY <2>6 DEF Crash
  <2>7. CASE UNCHANGED lock BY <2>1, <2>7
  <2>8. ASSUME NEW q \in Requests,
               \/ LocalGet(q) \/ BeginMiss(q) \/ CallbackReturns(q) \/ Progress(q) \/ MissFault(q)
        PROVE  TryLock(q) \/ Unlock(q) \/ UNCHANGED lock
    BY <2>8 DEF LocalGet, BeginMiss, CallbackReturns, Progress, MissFault, Subscribe, ReadStore,
       HearData, RetryOrGiveUp, StoreObject, Unsubscribe, PublishResult, CallbackTimesOut,
       CommandFails, UnlockFails, okVars, clusterVars
  <2>9. ASSUME NEW i \in Instances,
               \/ InvRemove(i) \/ InvPublish(i) \/ InvFails(i)
               \/ ReceiveUpdate(i) \/ ReceiveInvalidation(i) \/ LoseMessage(i)
        PROVE  UNCHANGED lock
    BY <2>9 DEF InvRemove, InvPublish, InvFails, ReceiveUpdate, ReceiveInvalidation,
       LoseMessage, Received
  <2>10. ASSUME World PROVE UNCHANGED lock BY <2>10 DEF World, clusterVars
  <2>11. QED
    BY <1>1, <2>3, <2>4, <2>5, <2>6, <2>7, <2>8, <2>9, <2>10 DEF ClusterNext, Invalidate
<1>2. IInv /\ [ClusterNext]_vars =>
        [\A r \in Requests :
           Locked(lock, now) /\ lock.by = r /\ lock.owner # DeadClient
             /\ (lock'.by # r \/ lock'.owner # lock.owner)
           => \/ pc[r] = "unlocking"
              \/ inv' # inv
              \/ crashed' # crashed
              \/ \E q \in Requests \ {r} :
                   /\ pc[q] = "unlocking" /\ Home[q] = Home[r]
                   /\ now >= leaseEnd[q] \/ q \in robbed]_vars
  BY <1>1
<1>3. QED BY <1>2, InvInit, InvNext, PTL DEF ClusterSpec, LeaseBrokenOnlyBy

------------------------------------------------------------------------------
(***************************************************************************)
(* The clustered cache implements CachePromise.  What it keeps and sends   *)
(* anywhere is data that was served, or undefined.                         *)
(***************************************************************************)
Served == {r \in Requests : ver[r] # 0}
Data   == Served \cup {None}

Entries  == [val : Data, by : Maybe, at : Nat]
Messages == [kind : {"update", "invalidate"}, val : Data, by : Maybe, src : Nat]

LocalData ==
  /\ src \in Nat \ {0} /\ ver \in [Requests -> Nat] /\ resolved \subseteq Requests
  /\ result \in [Requests -> Data] /\ outcome \in [Requests -> Data]
  /\ data \in [Requests -> Data] /\ heard \in [Requests -> SUBSET Data]
  /\ cached \in [Instances -> Entries]

SharedData ==
  /\ store \in Entries /\ queue \in [Instances -> Seq(Messages)]
  /\ invSrc \in [Instances -> Nat]

DataInv == IInv /\ LocalData /\ SharedData

LEMMA DataInit == Init => DataInv
<1> SUFFICES ASSUME Init PROVE DataInv OBVIOUS
<1>1. None \in Data /\ None \in Maybe BY DEF Data, Maybe
<1>2. NoEntry \in Entries BY <1>1 DEF NoEntry, Entries
<1>3. /\ src = 1 /\ ver = [r \in Requests |-> 0] /\ resolved = {}
      /\ result = [r \in Requests |-> None] /\ outcome = [r \in Requests |-> None]
      /\ data = [r \in Requests |-> None] /\ heard = [r \in Requests |-> {}]
      /\ cached = [i \in Instances |-> NoEntry] /\ store = NoEntry
      /\ queue = [i \in Instances |-> <<>>] /\ invSrc = [i \in Instances |-> 0]
  BY DEF Init, CacheInit
<1>4. LocalData
  <2>1. src \in Nat \ {0} /\ ver \in [Requests -> Nat] /\ resolved \subseteq Requests BY <1>3
  <2>2. /\ result \in [Requests -> Data] /\ outcome \in [Requests -> Data]
        /\ data \in [Requests -> Data] /\ heard \in [Requests -> SUBSET Data]
    BY <1>1, <1>3
  <2>3. cached \in [Instances -> Entries] BY <1>2, <1>3
  <2>4. QED BY <2>1, <2>2, <2>3 DEF LocalData
<1>5. SharedData
  <2>1. <<>> \in Seq(Messages) OBVIOUS
  <2>2. QED BY <1>2, <1>3, <2>1 DEF SharedData
<1>6. QED BY <1>4, <1>5, InvInit DEF DataInv

LEMMA SameData ==
  ASSUME UNCHANGED ver
  PROVE  Data' = Data /\ Entries' = Entries /\ Messages' = Messages
BY DEF Data, Served, Entries, Messages

(* The answer of a get, after its miss or without one. *)
LEMMA FinishData ==
  ASSUME DataInv, NEW r \in Requests, NEW v \in Data, FinishMiss(r, v)
  PROVE  /\ result' \in [Requests -> Data] /\ resolved' \subseteq Requests
         /\ cached' \in [Instances -> Entries]
<1>1. now \in Nat /\ r \in Maybe /\ Home[r] \in Instances
  BY HomeAssumption DEF DataInv, IInv, Basics, Maybe
<1>2. [val |-> v, by |-> r, at |-> now] \in Entries BY <1>1 DEF Entries
<1>3. QED BY <1>1, <1>2 DEF FinishMiss, DataInv, LocalData

LEMMA BroadcastData ==
  ASSUME SharedData, NEW m \in Messages, NEW to, Broadcast(m, to)
  PROVE  queue' \in [Instances -> Seq(Messages)]
<1>1. \A i \in Instances : queue[i] \in Seq(Messages) BY DEF SharedData
<1>2. \A i \in Instances : Append(queue[i], m) \in Seq(Messages) BY <1>1
<1>3. QED BY <1>1, <1>2 DEF Broadcast

LEMMA LocalDataStep ==
  ASSUME DataInv, NEW r \in Requests, LocalGet(r) \/ BeginMiss(r)
  PROVE  LocalData' /\ SharedData'
<1>0. LocalData /\ SharedData BY DEF DataInv
<1>1. CASE ~Serve(r)
  <2>1. UNCHANGED <<src, ver, resolved, outcome, data, heard, cached, store, queue, invSrc>>
    BY <1>1 DEF LocalGet, BeginMiss, GetHit, GetJoin, JoinResolved, JoinTimeout, Answer,
       callVars, clusterVars, missVars, invVars, localVars
  <2>2. result' \in [Requests -> Data]
    <3>1. CASE GetHit(r)
      <4>1. cached[Home[r]].val \in Data BY <1>0, HomeAssumption DEF LocalData, Entries
      <4>2. QED BY <1>0, <3>1, <4>1 DEF GetHit, LocalData
    <3>2. CASE JoinResolved(r)
      BY <1>0, <3>2 DEF JoinResolved, Answer, LocalData
    <3>3. CASE JoinTimeout(r)
      BY <1>0, <3>3 DEF JoinTimeout, Answer, LocalData, Data
    <3>4. CASE GetJoin(r) \/ BeginMiss(r)
      BY <1>0, <3>4 DEF GetJoin, BeginMiss, LocalData
    <3>5. QED BY <1>1, <3>1, <3>2, <3>3, <3>4 DEF LocalGet
  <2>3. QED BY <1>0, <2>1, <2>2, SameData DEF LocalData, SharedData
<1>2. CASE Serve(r) /\ LocalGet(r)
  <2>1. /\ UNCHANGED <<src, resolved, result, outcome, data, heard, cached, store, queue, invSrc>>
        /\ ver' = [ver EXCEPT ![r] = src]
    BY <1>2 DEF LocalGet, Serve, getVars, clusterVars, missVars, invVars
  <2>2. ver' \in [Requests -> Nat] BY <1>0, <2>1 DEF LocalData
  <2>3. Data \subseteq Data'
    BY <1>0, <2>1 DEF Data, Served, LocalData
  <2>4. Entries \subseteq Entries' /\ Messages \subseteq Messages'
    BY <2>3 DEF Entries, Messages
  <2>5. Seq(Messages) \subseteq Seq(Messages') BY <2>4
  <2>6. LocalData' BY <1>0, <2>1, <2>2, <2>3, <2>4 DEF LocalData
  <2>7. SharedData' BY <1>0, <2>1, <2>4, <2>5 DEF SharedData
  <2>8. QED BY <2>6, <2>7
<1>3. CASE Serve(r) /\ BeginMiss(r)
  BY <1>3 DEF Serve, BeginMiss, LockForMiss, Enter
<1>4. QED BY <1>1, <1>2, <1>3

LEMMA MissDataStep ==
  ASSUME DataInv, NEW r \in Requests, CallbackReturns(r) \/ Progress(r) \/ MissFault(r)
  PROVE  LocalData' /\ SharedData'
<1>0. LocalData /\ SharedData BY DEF DataInv
<1>1. UNCHANGED <<src, ver, invSrc>>
  BY DEF CallbackReturns, Progress, MissFault, Subscribe, ReadStore, TryLock, HearData,
     RetryOrGiveUp, StoreObject, Unsubscribe, PublishResult, Unlock, CallbackTimesOut,
     CommandFails, UnlockFails, localVars, callVars, invVars, clusterVars, okVars
<1>2. None \in Data /\ now \in Nat /\ r \in Maybe BY DEF Data, Maybe, DataInv, IInv, Basics
<1>3. CASE \/ Subscribe(r) \/ TryLock(r) \/ RetryOrGiveUp(r) \/ CallbackTimesOut(r) \/ MissFault(r)
  <2>1. UNCHANGED <<resolved, result, outcome, data, heard, cached, store, queue>>
    BY <1>3 DEF MissFault, Subscribe, TryLock, RetryOrGiveUp, CallbackTimesOut, CommandFails,
       UnlockFails, localVars, getRest, missVars, clusterVars, okVars
  <2>2. QED BY <1>0, <1>1, <2>1, SameData DEF LocalData, SharedData
<1>4. CASE ReadStore(r) \/ HearData(r)
  <2>1. UNCHANGED <<resolved, result, data, heard, cached, store, queue>>
    BY <1>4 DEF ReadStore, HearData, localVars, getRest
  <2>2. outcome' \in [Requests -> Data]
    <3>1. store.val \in Data BY <1>0 DEF SharedData, Entries
    <3>2. \A v \in heard[r] : v \in Data BY <1>0 DEF LocalData
    <3>3. QED BY <1>0, <1>4, <3>1, <3>2 DEF ReadStore, HearData, LocalData
  <2>3. QED BY <1>0, <1>1, <2>1, <2>2, SameData DEF LocalData, SharedData
<1>5. CASE CallbackReturns(r)
  <2>1. UNCHANGED <<resolved, result, outcome, heard, cached, store, queue>>
    BY <1>5 DEF CallbackReturns, localVars, getRest
  <2>2. PICK v \in Data : data' = [data EXCEPT ![r] = v]
    BY <1>5, <1>2 DEF CallbackReturns, CallbackYields, Data, Served
  <2>3. data' \in [Requests -> Data] BY <1>0, <2>2 DEF LocalData
  <2>4. QED BY <1>0, <1>1, <2>1, <2>3, SameData DEF LocalData, SharedData
<1>6. CASE StoreObject(r)
  <2>1. UNCHANGED <<resolved, result, data, heard, cached, queue>>
    BY <1>6 DEF StoreObject, localVars, getRest
  <2>2. data[r] \in Data BY <1>0 DEF LocalData
  <2>3. [val |-> data[r], by |-> r, at |-> now] \in Entries BY <1>2, <2>2 DEF Entries
  <2>4. outcome' \in [Requests -> Data] /\ store' \in Entries
    BY <1>0, <1>6, <2>2, <2>3 DEF StoreObject, LocalData, SharedData
  <2>5. QED BY <1>0, <1>1, <2>1, <2>4, SameData DEF LocalData, SharedData
<1>7. CASE Unsubscribe(r)
  <2>1. UNCHANGED <<store, queue>> BY <1>7 DEF Unsubscribe
  <2>2. outcome[r] \in Data BY <1>0 DEF LocalData
  <2>3. heard' \in [Requests -> SUBSET Data] BY <1>0, <1>7 DEF Unsubscribe, LocalData
  <2>4. data' \in [Requests -> Data] /\ outcome' \in [Requests -> Data]
    BY <1>0, <1>2, <1>7 DEF Unsubscribe, ReturnOutcome, LocalData
  <2>5. /\ result' \in [Requests -> Data] /\ resolved' \subseteq Requests
        /\ cached' \in [Instances -> Entries]
    BY <1>0, <1>7, <2>2, FinishData DEF Unsubscribe, ReturnOutcome, getRest, LocalData
  <2>6. QED BY <1>0, <1>1, <2>1, <2>3, <2>4, <2>5, SameData DEF LocalData, SharedData
<1>8. CASE Unlock(r)
  <2>1. UNCHANGED <<data, heard, store, queue>> BY <1>8 DEF Unlock
  <2>2. outcome[r] \in Data BY <1>0 DEF LocalData
  <2>3. outcome' \in [Requests -> Data]
    BY <1>0, <1>2, <1>8 DEF Unlock, ReturnOutcome, LocalData
  <2>4. /\ result' \in [Requests -> Data] /\ resolved' \subseteq Requests
        /\ cached' \in [Instances -> Entries]
    BY <1>8, <2>2, FinishData DEF Unlock, ReturnOutcome
  <2>5. QED BY <1>0, <1>1, <2>1, <2>3, <2>4, SameData DEF LocalData, SharedData
<1>9. CASE PublishResult(r)
  <2>1. UNCHANGED <<resolved, result, outcome, heard, cached, store>>
    BY <1>9 DEF PublishResult, localVars, getRest
  <2>2. data' \in [Requests -> Data] BY <1>0, <1>2, <1>9 DEF PublishResult, LocalData
  <2>3. Update(r) \in Messages
    BY <1>0, <1>2 DEF Update, Messages, LocalData
  <2>4. queue' \in [Instances -> Seq(Messages)]
    <3>1. CASE Broadcast(Update(r), Listening) BY <1>0, <2>3, <3>1, BroadcastData
    <3>2. CASE UNCHANGED queue BY <1>0, <3>2 DEF SharedData
    <3>3. QED BY <1>9, <3>1, <3>2 DEF PublishResult
  <2>5. QED BY <1>0, <1>1, <2>1, <2>2, <2>4, SameData DEF LocalData, SharedData
<1>10. QED BY <1>3, <1>4, <1>5, <1>6, <1>7, <1>8, <1>9 DEF Progress

LEMMA OtherDataStep ==
  ASSUME DataInv,
         \/ World \/ UNCHANGED vars
         \/ \E i \in Instances : \/ Invalidate(i) \/ Crash(i)
                                 \/ ReceiveUpdate(i) \/ ReceiveInvalidation(i) \/ LoseMessage(i)
  PROVE  LocalData' /\ SharedData'
<1>0. LocalData /\ SharedData /\ now \in Nat BY DEF DataInv, IInv, Basics
<1>1. None \in Data /\ None \in Maybe BY DEF Data, Maybe
<1>2. NoEntry \in Entries BY <1>1 DEF NoEntry, Entries
<1>3. ASSUME World \/ UNCHANGED vars PROVE LocalData' /\ SharedData'
  <2>1. UNCHANGED <<ver, resolved, result, outcome, data, heard, cached, store, queue, invSrc>>
    BY <1>3 DEF World, SourceChanges, Tick, vars, cacheVars, clusterVars, getVars, callVars,
       missVars, invVars
  <2>2. src' \in Nat \ {0}
    BY <1>0, <1>3 DEF World, SourceChanges, Tick, vars, cacheVars, LocalData
  <2>3. QED BY <1>0, <2>1, <2>2, SameData DEF LocalData, SharedData
<1>4. ASSUME NEW i \in Instances, Invalidate(i) PROVE LocalData' /\ SharedData'
  <2>1. UNCHANGED <<src, ver, resolved, result, outcome, data, heard, cached>>
    BY <1>4 DEF Invalidate, InvLock, InvRemove, InvPublish, InvUnlock, InvFails, InvStep,
       getVars, callVars, missVars
  <2>2. store' \in Entries
    BY <1>0, <1>2, <1>4 DEF Invalidate, InvLock, InvRemove, InvPublish, InvUnlock, InvFails,
       SharedData
  <2>3. invSrc' \in [Instances -> Nat]
    BY <1>0, <1>4 DEF Invalidate, InvLock, InvRemove, InvPublish, InvUnlock, InvFails,
       SharedData, LocalData
  <2>4. queue' \in [Instances -> Seq(Messages)]
    <3>1. [kind |-> "invalidate", val |-> None, by |-> None, src |-> invSrc[i]] \in Messages
      BY <1>0, <1>1 DEF Messages, SharedData
    <3>2. PICK m \in Messages : Broadcast(m, Instances) \/ UNCHANGED queue
      BY <1>4, <3>1 DEF Invalidate, InvLock, InvRemove, InvPublish, InvUnlock, InvFails
    <3>3. QED BY <1>0, <3>2, BroadcastData DEF SharedData
  <2>5. QED BY <1>0, <2>1, <2>2, <2>3, <2>4, SameData DEF LocalData, SharedData
<1>5. ASSUME NEW i \in Instances, Crash(i) PROVE LocalData' /\ SharedData'
  <2>1. UNCHANGED <<src, ver, resolved, result, outcome, data, heard, store, invSrc>>
    BY <1>5 DEF Crash, callVars
  <2>2. cached' \in [Instances -> Entries]
    BY <1>0, <1>2, <1>5 DEF Crash, RemoveLocal, LocalData
  <2>3. queue' \in [Instances -> Seq(Messages)]
    <3>1. <<>> \in Seq(Messages) OBVIOUS
    <3>2. QED BY <1>0, <1>5, <3>1 DEF Crash, SharedData
  <2>4. QED BY <1>0, <2>1, <2>2, <2>3, SameData DEF LocalData, SharedData
<1>6. ASSUME NEW i \in Instances,
             ReceiveUpdate(i) \/ ReceiveInvalidation(i) \/ LoseMessage(i)
      PROVE  LocalData' /\ SharedData'
  <2>1. /\ Received(i)
        /\ UNCHANGED <<src, ver, resolved, result, outcome, data, store, invSrc>>
    BY <1>6 DEF ReceiveUpdate, ReceiveInvalidation, LoseMessage, Received, getVars, callVars,
       invVars
  <2>2. queue[i] \in Seq(Messages) /\ queue[i] # <<>> BY <1>0, <2>1 DEF SharedData, Received
  <2>3. Head(queue[i]) \in Messages /\ Tail(queue[i]) \in Seq(Messages) BY <2>2
  <2>4. queue' \in [Instances -> Seq(Messages)]
    BY <1>0, <2>1, <2>3 DEF Received, SharedData
  <2>5. /\ Head(queue[i]).val \in Data
        /\ [val |-> Head(queue[i]).val, by |-> Head(queue[i]).by, at |-> now] \in Entries
    BY <1>0, <2>3 DEF Messages, Entries
  <2>6. cached' \in [Instances -> Entries]
    BY <1>0, <1>2, <1>6, <2>5 DEF ReceiveUpdate, ReceiveInvalidation, LoseMessage, RemoveLocal,
       LocalData
  <2>7. heard' \in [Requests -> SUBSET Data]
    BY <1>0, <1>6, <2>5 DEF ReceiveUpdate, ReceiveInvalidation, LoseMessage, LocalData
  <2>8. QED BY <1>0, <2>1, <2>4, <2>6, <2>7, SameData DEF LocalData, SharedData
<1>7. QED BY <1>3, <1>4, <1>5, <1>6

LEMMA DataNext == DataInv /\ [ClusterNext]_vars => DataInv'
<1> SUFFICES ASSUME DataInv, [ClusterNext]_vars PROVE DataInv' OBVIOUS
<1>1. IInv' BY InvNext DEF DataInv
<1>2. LocalData' /\ SharedData' BY LocalDataStep, MissDataStep, OtherDataStep DEF ClusterNext
<1>3. QED BY <1>1, <1>2 DEF DataInv

(***************************************************************************)
(* Each step is one of the promise, or hidden from the callers.            *)
(***************************************************************************)
LEMMA AnswerIsPromised ==
  ASSUME DataInv, NEW r \in Requests, NEW v \in Data,
         pc[r] \notin {"returned", "dead"},
         pc' = [pc EXCEPT ![r] = "returned"], result' = [result EXCEPT ![r] = v],
         UNCHANGED ver
  PROVE  Promise!Answered(r)
<1>1. pc \in [Requests -> Phases] BY DEF DataInv, IInv, Basics
<1>2. Phase' = [Phase EXCEPT ![r] = "answered"] BY <1>1 DEF Phase
<1>3. Phase[r] \in {"idle", "pending"} BY <1>1 DEF Phase, Phases, MissPhases
<1>4. QED BY <1>2, <1>3 DEF Promise!Answered, Data, Served

LEMMA PendIsPromised ==
  ASSUME DataInv, NEW r \in Requests, pc[r] = "idle",
         NEW to \in {"waiting", "subscribing"}, pc' = [pc EXCEPT ![r] = to],
         UNCHANGED <<result, ver>>
  PROVE  Promise!Pend(r)
<1>1. pc \in [Requests -> Phases] BY DEF DataInv, IInv, Basics
<1>2. Phase' = [Phase EXCEPT ![r] = "pending"] BY <1>1 DEF Phase
<1>3. Phase[r] = "idle" BY DEF Phase
<1>4. QED BY <1>2, <1>3 DEF Promise!Pend

LEMMA MoveIsHidden ==
  ASSUME DataInv, NEW r \in Requests, pc[r] \in MissPhases,
         NEW to \in MissPhases, pc' = [pc EXCEPT ![r] = to], UNCHANGED <<result, ver>>
  PROVE  UNCHANGED Promise!promiseVars
<1>1. pc \in [Requests -> Phases] BY DEF DataInv, IInv, Basics
<1>2. Phase' = Phase BY <1>1 DEF Phase, MissPhases
<1>3. QED BY <1>2 DEF Promise!promiseVars

LEMMA GetIsPromised ==
  ASSUME DataInv, NEW r \in Requests, LocalGet(r) \/ BeginMiss(r)
  PROVE  Promise!PromiseNext
<1>0. LocalData BY DEF DataInv
<1>1. CASE GetHit(r)
  <2>1. cached[Home[r]].val \in Data BY <1>0, HomeAssumption DEF LocalData, Entries
  <2>2. Promise!Answered(r)
    BY <1>1, <2>1, AnswerIsPromised DEF GetHit, Enter, callVars
  <2>3. QED BY <2>2 DEF Promise!PromiseNext
<1>2. CASE GetJoin(r) \/ BeginMiss(r)
  <2>1. Promise!Pend(r)
    BY <1>2, PendIsPromised DEF GetJoin, BeginMiss, LockForMiss, Enter, callVars
  <2>2. QED BY <2>1 DEF Promise!PromiseNext
<1>3. CASE JoinResolved(r) \/ JoinTimeout(r)
  <2>1. PICK v \in Data : Answer(r, v) /\ pc[r] = "waiting"
    BY <1>0, <1>3 DEF JoinResolved, JoinTimeout, LocalData, Data
  <2>2. Promise!Answered(r) BY <2>1, AnswerIsPromised DEF Answer, callVars
  <2>3. QED BY <2>2 DEF Promise!PromiseNext
<1>4. CASE Serve(r)
  <2>1. ver' = [ver EXCEPT ![r] = src] /\ src # 0 /\ ver[r] = 0 /\ pc[r] = "calling"
    BY <1>0, <1>4 DEF Serve, LocalData
  <2>2. Phase' = Phase /\ Phase[r] = "pending" /\ result' = result
    BY <1>4, <2>1 DEF Serve, getVars, Phase
  <2>3. Served' = Served \cup {r} /\ r \notin Served BY <1>0, <2>1 DEF Served, LocalData
  <2>4. Promise!Source(r) BY <2>2, <2>3 DEF Promise!Source, Served
  <2>5. QED BY <2>4 DEF Promise!PromiseNext
<1>5. QED BY <1>1, <1>2, <1>3, <1>4 DEF LocalGet

LEMMA MissIsPromised ==
  ASSUME DataInv, NEW r \in Requests, CallbackReturns(r) \/ Progress(r) \/ MissFault(r)
  PROVE  Promise!PromiseNext \/ UNCHANGED Promise!promiseVars
<1>1. UNCHANGED ver
  BY DEF CallbackReturns, Progress, MissFault, Subscribe, ReadStore, TryLock, HearData,
     RetryOrGiveUp, StoreObject, Unsubscribe, PublishResult, Unlock, CallbackTimesOut,
     CommandFails, UnlockFails, callVars
<1>2. pc[r] \in MissPhases
  BY DEF CallbackReturns, Progress, MissFault, Subscribe, ReadStore, TryLock, HearData,
     RetryOrGiveUp, StoreObject, Unsubscribe, PublishResult, Unlock, CallbackTimesOut,
     CommandFails, UnlockFails, Step, CallbackYields, CallbackTimeout, MissPhases
<1>3. outcome[r] \in Data /\ result \in [Requests -> Data] BY DEF DataInv, LocalData
<1>4. ASSUME NEW v \in Data, pc' = [pc EXCEPT ![r] = "returned"], result' = [result EXCEPT ![r] = v]
      PROVE  Promise!PromiseNext
  BY <1>1, <1>2, <1>4, AnswerIsPromised DEF Promise!PromiseNext, MissPhases
<1>5. ASSUME NEW to \in MissPhases, pc' = [pc EXCEPT ![r] = to], UNCHANGED result
      PROVE  UNCHANGED Promise!promiseVars
  BY <1>1, <1>2, <1>5, MoveIsHidden
<1>6. CASE Unlock(r)
  BY <1>3, <1>4, <1>6 DEF Unlock, ReturnOutcome, FinishMiss
<1>7. CASE UnlockFails(r)
  <2>1. pc' = [pc EXCEPT ![r] = "returned"] /\ result' = result
    BY <1>7 DEF UnlockFails, Step, To, getRest
  <2>2. result' = [result EXCEPT ![r] = result[r]] /\ result[r] \in Data BY <1>3, <2>1
  <2>3. QED BY <1>4, <2>1, <2>2
<1>8. CASE Unsubscribe(r)
  <2>1. CASE ReturnOutcome(r) BY <1>3, <1>4, <2>1 DEF ReturnOutcome, FinishMiss
  <2>2. CASE To(r, "publishing") /\ UNCHANGED getRest
    BY <1>5, <2>2 DEF To, getRest, MissPhases
  <2>3. QED BY <1>8, <2>1, <2>2 DEF Unsubscribe
<1>9. CASE \/ CallbackReturns(r) \/ Subscribe(r) \/ ReadStore(r) \/ TryLock(r) \/ HearData(r)
           \/ RetryOrGiveUp(r) \/ StoreObject(r) \/ PublishResult(r) \/ CallbackTimesOut(r)
           \/ CommandFails(r)
  <2>1. UNCHANGED result
    BY <1>9 DEF CallbackReturns, Subscribe, ReadStore, TryLock, HearData, RetryOrGiveUp,
       StoreObject, PublishResult, CallbackTimesOut, CommandFails, getRest
  <2>2. \E to \in MissPhases : pc' = [pc EXCEPT ![r] = to]
    BY <1>9 DEF CallbackReturns, Subscribe, ReadStore, TryLock, HearData, RetryOrGiveUp,
       StoreObject, PublishResult, CallbackTimesOut, CommandFails, AskForLock, Step, To,
       MissPhases
  <2>3. QED BY <1>5, <2>1, <2>2
<1>10. QED BY <1>6, <1>7, <1>8, <1>9 DEF Progress, MissFault

LEMMA CrashIsPromised ==
  ASSUME DataInv, NEW i \in Instances, Crash(i)
  PROVE  Promise!PromiseNext
<1>1. pc \in [Requests -> Phases] BY DEF DataInv, IInv, Basics
<1>2. PICK D \in SUBSET Requests :
        D = {r \in Requests : Home[r] = i /\ pc[r] \notin {"idle", "returned", "dead"}}
  OBVIOUS
<1>3. /\ UNCHANGED <<result, ver>>
      /\ pc' = [r \in Requests |->
                  IF Home[r] = i /\ pc[r] \notin {"idle", "returned"} THEN "dead" ELSE pc[r]]
  BY DEF Crash, callVars
<1>4. \A r \in D : Phase[r] = "pending" BY <1>2 DEF Phase
<1>5. Phase' = [r \in Requests |-> IF r \in D THEN "dead" ELSE Phase[r]]
  BY <1>1, <1>2, <1>3 DEF Phase
<1>6. Promise!Die(D) BY <1>3, <1>4, <1>5 DEF Promise!Die
<1>7. QED BY <1>6 DEF Promise!PromiseNext

(* Whatever happens to the cluster, a get is answered once, and with       *)
(* undefined or a datum that the source served before: get and             *)
(* handleCacheMiss keep the promise of CachePromise.                       *)
THEOREM ClusterImplements == ClusterSpec => KeepsPromise
<1>1. Init => Promise!PromiseInit
  BY DEF Init, CacheInit, Promise!PromiseInit, Phase
<1>2. DataInv /\ [ClusterNext]_vars => [Promise!PromiseNext]_(Promise!promiseVars)
  <2> SUFFICES ASSUME DataInv, [ClusterNext]_vars
               PROVE  Promise!PromiseNext \/ UNCHANGED Promise!promiseVars
    OBVIOUS
  <2>1. ASSUME \/ World \/ UNCHANGED vars
               \/ \E i \in Instances : \/ Invalidate(i) \/ ReceiveUpdate(i)
                                       \/ ReceiveInvalidation(i) \/ LoseMessage(i)
        PROVE  UNCHANGED Promise!promiseVars
    <3>1. UNCHANGED <<pc, result, ver>>
      BY <2>1 DEF World, SourceChanges, Tick, vars, cacheVars, getVars, callVars, Invalidate,
         InvLock, InvRemove, InvPublish, InvUnlock, InvFails, InvStep, ReceiveUpdate,
         ReceiveInvalidation, LoseMessage, Received
    <3>2. QED BY <3>1 DEF Promise!promiseVars, Phase
  <2>2. QED
    BY <2>1, GetIsPromised, MissIsPromised, CrashIsPromised DEF ClusterNext
<1>3. QED BY <1>1, <1>2, DataInit, DataNext, PTL DEF ClusterSpec, KeepsPromise, Promise!PromiseSpec

------------------------------------------------------------------------------
(***************************************************************************)
(* Who is after the lock has seen the cluster store without a datum, or    *)
(* entered before the datum came.                                          *)
(***************************************************************************)
AfterLock(r) == pc[r] \in {"locking", "awaiting"}

Looked ==
  \A r \in Requests : /\ startedAt[r] <= now
                      /\ AfterLock(r) /\ StoreLive => startedAt[r] <= store.at

LEMMA LookedStays ==
  ASSUME DataInv, Looked, UNCHANGED <<now, store>>,
         \A r \in Requests : startedAt'[r] \in {startedAt[r], now},
         \A r \in Requests :
           AfterLock(r)' => ~StoreLive \/ (AfterLock(r) /\ startedAt'[r] = startedAt[r])
  PROVE  Looked'
<1>1. \A r \in Requests : startedAt[r] \in Nat /\ now \in Nat BY DEF DataInv, IInv, Basics
<1>2. StoreLive' <=> StoreLive BY DEF StoreLive
<1>3. QED BY <1>1, <1>2 DEF Looked

LEMMA LookedNext == DataInv /\ Looked /\ [ClusterNext]_vars => Looked'
<1> SUFFICES ASSUME DataInv, Looked, [ClusterNext]_vars PROVE Looked' OBVIOUS
<1>1. /\ now \in Nat /\ store.at \in Nat /\ Ttl \in Nat
      /\ pc \in [Requests -> Phases] /\ startedAt \in [Requests -> Nat]
  BY TimesAssumption DEF DataInv, IInv, Basics, SharedData, Entries
<1>2. ASSUME NEW r \in Requests, LocalGet(r) \/ BeginMiss(r) PROVE Looked'
  <2>1. UNCHANGED <<now, store>>
    BY <1>2 DEF LocalGet, BeginMiss, GetHit, GetJoin, JoinResolved, JoinTimeout, Answer, Serve,
       clusterVars, localVars
  <2>2. \/ UNCHANGED startedAt \/ startedAt' = [startedAt EXCEPT ![r] = now]
    BY <1>2 DEF LocalGet, BeginMiss, LockForMiss, GetHit, GetJoin, Enter, JoinResolved,
       JoinTimeout, Answer, Serve, getVars
  <2>3. \/ UNCHANGED <<pc, startedAt>>
        \/ \E to \in {"returned", "waiting", "subscribing"} : pc' = [pc EXCEPT ![r] = to]
    BY <1>2 DEF LocalGet, BeginMiss, LockForMiss, GetHit, GetJoin, JoinResolved,
       JoinTimeout, Answer, Serve, getVars
  <2>4. \A q \in Requests : AfterLock(q)' => AfterLock(q) /\ startedAt'[q] = startedAt[q]
    BY <1>1, <2>2, <2>3 DEF AfterLock
  <2>5. \A q \in Requests : startedAt'[q] \in {startedAt[q], now} BY <1>1, <2>2
  <2>6. QED BY <2>1, <2>4, <2>5, LookedStays
<1>3. ASSUME NEW r \in Requests, CallbackReturns(r) \/ Progress(r) \/ MissFault(r), ~StoreObject(r)
      PROVE  Looked'
  <2>1. UNCHANGED <<now, store, startedAt>>
    BY <1>3 DEF CallbackReturns, Progress, MissFault, Subscribe, ReadStore, TryLock, HearData,
       RetryOrGiveUp, Unsubscribe, PublishResult, Unlock, CallbackTimesOut,
       CommandFails, UnlockFails, localVars, getRest, clusterVars, okVars, ReturnOutcome, FinishMiss
  <2>2. \E to : pc' = [pc EXCEPT ![r] = to]
                /\ (to \in {"locking", "awaiting"} => ~StoreLive \/ AfterLock(r))
    BY <1>3 DEF CallbackReturns, Progress, MissFault, Subscribe, ReadStore, TryLock, HearData,
       RetryOrGiveUp, Unsubscribe, PublishResult, Unlock, CallbackTimesOut,
       CommandFails, UnlockFails, AskForLock, Step, To, ReturnOutcome, FinishMiss, AfterLock
  <2>3. \A q \in Requests : AfterLock(q)' => ~StoreLive \/ AfterLock(q)
    BY <1>1, <2>2 DEF AfterLock
  <2>4. QED BY <2>1, <2>3, LookedStays
<1>4. ASSUME NEW r \in Requests, StoreObject(r) PROVE Looked'
  <2>1. /\ UNCHANGED <<now, startedAt>> /\ pc' = [pc EXCEPT ![r] = "leaving"]
        /\ store' = store \/ store'.at = now
    BY <1>4 DEF StoreObject, Step, To, localVars, getRest
  <2>2. CASE store' = store
    <3>1. \A q \in Requests : AfterLock(q)' => AfterLock(q) BY <1>1, <2>1 DEF AfterLock
    <3>2. QED BY <2>1, <2>2, <3>1, LookedStays
  <2>3. CASE store'.at = now BY <2>1, <2>3 DEF Looked
  <2>4. QED BY <2>1, <2>2, <2>3
<1>5. ASSUME NEW i \in Instances, Invalidate(i) PROVE Looked'
  <2>1. UNCHANGED <<now, pc, startedAt>> /\ (store' = store \/ store' = NoEntry)
    BY <1>5 DEF Invalidate, InvLock, InvRemove, InvPublish, InvUnlock, InvFails, InvStep, getVars
  <2>2. CASE store' = NoEntry
    <3>1. ~StoreLive' BY <2>2 DEF StoreLive, NoEntry
    <3>2. QED BY <2>1, <3>1 DEF Looked
  <2>3. CASE store' = store
    <3>1. \A q \in Requests : AfterLock(q)' <=> AfterLock(q) BY <2>1 DEF AfterLock
    <3>2. QED BY <2>1, <2>3, <3>1, LookedStays
  <2>4. QED BY <2>1, <2>2, <2>3
<1>6. ASSUME NEW i \in Instances, Crash(i) PROVE Looked'
  <2>1. UNCHANGED <<now, store, startedAt>> BY <1>6 DEF Crash
  <2>2. \A q \in Requests : AfterLock(q)' => AfterLock(q) BY <1>6 DEF Crash, AfterLock
  <2>3. QED BY <2>1, <2>2, LookedStays
<1>7. ASSUME \/ (SourceChanges /\ UNCHANGED clusterVars) \/ UNCHANGED vars
             \/ \E i \in Instances : \/ ReceiveUpdate(i) \/ ReceiveInvalidation(i) \/ LoseMessage(i)
      PROVE  Looked'
  <2>1. UNCHANGED <<now, store, startedAt, pc>>
    BY <1>7 DEF SourceChanges, vars, cacheVars, clusterVars, getVars, ReceiveUpdate,
       ReceiveInvalidation, LoseMessage, Received
  <2>2. \A q \in Requests : AfterLock(q)' <=> AfterLock(q) BY <2>1 DEF AfterLock
  <2>3. QED BY <2>1, <2>2, LookedStays
<1>8. ASSUME Tick, UNCHANGED clusterVars PROVE Looked'
  <2>1. now' = now + 1 /\ UNCHANGED <<store, startedAt, pc>>
    BY <1>8 DEF Tick, clusterVars, getVars
  <2>2. StoreLive' => StoreLive BY <1>1, <2>1 DEF StoreLive
  <2>3. QED BY <1>1, <2>1, <2>2 DEF Looked, AfterLock
<1>9. QED
  BY <1>2, <1>3, <1>4, <1>5, <1>6, <1>7, <1>8 DEF ClusterNext, World, Progress

(* A get that entered after a datum was stored in the cluster does not run *)
(* the callback while the datum lives: handleCacheMiss, getObject.         *)
THEOREM StoredIsNotRefetched == ClusterSpec => NoRefetchWhileStored
<1>1. ASSUME Init PROVE Looked
  <2>1. \A r \in Requests : startedAt[r] = 0 /\ pc[r] = "idle"
    BY <1>1 DEF Init, CacheInit
  <2>2. now = 0 /\ \A r \in Requests : ~AfterLock(r)
    BY <1>1, <2>1 DEF Init, CacheInit, AfterLock
  <2>3. ASSUME NEW r \in Requests PROVE startedAt[r] <= now
    BY <2>1, <2>2
  <2>4. ASSUME NEW r \in Requests PROVE AfterLock(r) /\ StoreLive => startedAt[r] <= store.at
    BY <2>2
  <2>5. QED BY <2>3, <2>4 DEF Looked
<1>2. Looked /\ [ClusterNext]_vars =>
        [\A r \in called' \ called : StoreLive => startedAt[r] <= store.at]_vars
  <2> SUFFICES ASSUME Looked, ClusterNext, NEW r \in called' \ called, StoreLive
               PROVE  startedAt[r] <= store.at
    OBVIOUS
  <2>1. r \in Requests /\ AfterLock(r)
    <3>1. ASSUME NEW q \in Requests,
                 \/ LocalGet(q) \/ BeginMiss(q) \/ CallbackReturns(q) \/ Progress(q) \/ MissFault(q)
          PROVE  called' = called \/ (called' = called \cup {q} /\ AfterLock(q))
      BY <3>1 DEF LocalGet, GetHit, GetJoin, JoinResolved, JoinTimeout, Answer, Serve, BeginMiss,
         CallbackReturns, Progress, MissFault, Subscribe, ReadStore, TryLock, HearData,
         RetryOrGiveUp, StoreObject, Unsubscribe, PublishResult, Unlock, CallbackTimesOut,
         CommandFails, UnlockFails, StartCallback, callVars, AfterLock
    <3>2. ASSUME \/ World
                 \/ \E i \in Instances : \/ Invalidate(i) \/ Crash(i) \/ ReceiveUpdate(i)
                                         \/ ReceiveInvalidation(i) \/ LoseMessage(i)
          PROVE  called' = called
      BY <3>2 DEF World, SourceChanges, Tick, callVars, Invalidate, InvLock, InvRemove,
         InvPublish, InvUnlock, InvFails, InvStep, Crash, ReceiveUpdate, ReceiveInvalidation,
         LoseMessage, Received
    <3>3. QED BY <3>1, <3>2 DEF ClusterNext
  <2>2. QED BY <2>1 DEF Looked
<1>3. QED BY <1>1, <1>2, DataInit, DataNext, LookedNext, PTL DEF ClusterSpec, NoRefetchWhileStored
------------------------------------------------------------------------------
(***************************************************************************)
(* A broadcast is not missed.  While no command failed, whoever waits and  *)
(* has the deferred registered is among the listeners, and a datum that    *)
(* was broadcast by a holder whose lock lasts is on its way to all who     *)
(* wait and did not hear.                                                  *)
(***************************************************************************)
Subscribed ==
  \A r \in Requests : pending[Home[r]] = r /\ pc[r] \in {"reading", "locking", "awaiting"}
                        => r \in listeners[Home[r]]

Waits(r) == /\ AfterLock(r) /\ pending[Home[r]] = r
            /\ now <= FinalRetry(r) /\ heard[r] = {}

Given == /\ StoreLive /\ store.by \in hasLock /\ now < leaseEnd[store.by]
         /\ pc[store.by] \in {"unlocking", "returned"}

Coming(i) == \E k \in DOMAIN queue[i] : queue[i][k].kind = "update"

Told ==
  /\ failed \in Nat /\ listeners \in [Instances -> SUBSET Requests]
  /\ wrapped \in [Instances -> Maybe] /\ pending \in [Instances -> Maybe]
  /\ failed = 0 => Subscribed /\ (Given => \A r \in Requests : Waits(r) => Coming(Home[r]))

LEMMA ToldTypes ==
  ASSUME DataInv, Told, [ClusterNext]_vars
  PROVE  /\ failed' \in Nat /\ (failed' = 0 => failed = 0)
         /\ listeners' \in [Instances -> SUBSET Requests]
         /\ wrapped' \in [Instances -> Maybe] /\ pending' \in [Instances -> Maybe]
<1>1. failed' = failed \/ failed' = failed + 1
  BY DEF ClusterNext, LocalGet, BeginMiss, CallbackReturns, Progress, MissFault, World,
     Subscribe, ReadStore, TryLock, HearData, RetryOrGiveUp, StoreObject, Unsubscribe,
     PublishResult, Unlock, CallbackTimesOut, CommandFails, UnlockFails, Invalidate, InvLock,
     InvRemove, InvPublish, InvUnlock, InvFails, Crash, ReceiveUpdate, ReceiveInvalidation,
     LoseMessage, Fail, clusterVars, vars
<1>2. failed' \in Nat /\ (failed' = 0 => failed = 0) BY <1>1 DEF Told
<1>3. Told /\ None \in Maybe /\ (\A r \in Requests : r \in Maybe)
  BY DEF Maybe
<1>4. ASSUME NEW r \in Requests,
             LocalGet(r) \/ BeginMiss(r) \/ CallbackReturns(r) \/ Progress(r) \/ MissFault(r)
      PROVE  /\ listeners' \in [Instances -> SUBSET Requests]
             /\ wrapped' \in [Instances -> Maybe] /\ pending' \in [Instances -> Maybe]
  <2>1. CASE BeginMiss(r)
    BY <1>3, <2>1 DEF BeginMiss, subVars, Told
  <2>2. CASE Subscribe(r)
    BY <1>3, <2>2 DEF Subscribe, missVars, Told
  <2>3. CASE Unsubscribe(r)
    BY <1>3, <2>3 DEF Unsubscribe, StopListening, Told
  <2>4. CASE ~(BeginMiss(r) \/ Subscribe(r) \/ Unsubscribe(r))
    <3>1. UNCHANGED <<listeners, wrapped, pending>>
      BY <1>4, <2>4 DEF LocalGet, CallbackReturns, Progress, MissFault, ReadStore, TryLock,
         HearData, RetryOrGiveUp, StoreObject, PublishResult, Unlock, CallbackTimesOut,
         CommandFails, UnlockFails, clusterVars, okVars, subVars, missVars
    <3>2. QED BY <1>3, <3>1 DEF Told
  <2>5. QED BY <2>1, <2>2, <2>3, <2>4
<1>5. ASSUME NEW i \in Instances, Crash(i)
      PROVE  /\ listeners' \in [Instances -> SUBSET Requests]
             /\ wrapped' \in [Instances -> Maybe] /\ pending' \in [Instances -> Maybe]
  BY <1>3, <1>5 DEF Crash, Told
<1>6. ASSUME \/ World \/ UNCHANGED vars
             \/ \E i \in Instances : \/ Invalidate(i) \/ ReceiveUpdate(i)
                                     \/ ReceiveInvalidation(i) \/ LoseMessage(i)
      PROVE  UNCHANGED <<listeners, wrapped, pending>>
  BY <1>6 DEF World, vars, clusterVars, Invalidate, InvLock, InvRemove, InvPublish, InvUnlock,
     InvFails, InvStep, ReceiveUpdate, ReceiveInvalidation, LoseMessage, Received, subVars,
     missVars
<1>7. QED BY <1>2, <1>3, <1>4, <1>5, <1>6 DEF ClusterNext, Told

(* What keeps Told, when nothing was broadcast or heard. *)
LEMMA ToldStays ==
  ASSUME DataInv, Told, [ClusterNext]_vars,
         failed' = 0 => Subscribed',
         \A r \in Requests :
           failed = 0 /\ Given' /\ Waits(r)' =>
             Given /\ Waits(r) /\ (Coming(Home[r]) => Coming(Home[r])')
  PROVE  Told'
BY ToldTypes DEF Told

(* A step of one get, in which the store and the queues stay.  It begins to   *)
(* wait only when the store is empty, and ends only when its lock is over or  *)
(* after its broadcast.                                                       *)
LEMMA ToldMove ==
  ASSUME DataInv, Told, [ClusterNext]_vars, NEW r \in Requests, NEW to,
         UNCHANGED <<now, store, queue>>, pc' = [pc EXCEPT ![r] = to],
         \A q \in Requests \ {r} :
           /\ (q \in hasLock' <=> q \in hasLock) /\ leaseEnd'[q] = leaseEnd[q]
           /\ heard'[q] = heard[q] /\ startedAt'[q] = startedAt[q]
           /\ pending'[Home[q]] = q => pending[Home[q]] = q
           /\ pending'[Home[q]] = q /\ failed' = 0 /\ q \in listeners[Home[q]]
                => q \in listeners'[Home[q]],
         to \in {"reading", "locking", "awaiting"} /\ failed' = 0 /\ pending'[Home[r]] = r =>
           r \in listeners'[Home[r]],
         to \in {"locking", "awaiting"} =>
           ~StoreLive \/ (AfterLock(r) /\ (Waits(r)' => Waits(r))),
         to \in {"unlocking", "returned"} /\ r \in hasLock' /\ now < leaseEnd'[r] =>
           pc[r] \in {"unlocking", "returned"} /\ r \in hasLock /\ now < leaseEnd[r]
  PROVE  Told'
<1>1. pc \in [Requests -> Phases] /\ hasLock \subseteq Requests BY DEF DataInv, IInv, Basics
<1>2. failed' = 0 => failed = 0 BY ToldTypes
<1>3. failed' = 0 => Subscribed'
  BY <1>1, <1>2 DEF Subscribed, Told
<1>4. hasLock' \subseteq Requests BY InvNext DEF DataInv, IInv, Basics
<1>5. Given' => Given
  BY <1>1, <1>4 DEF Given, StoreLive
<1>6. ASSUME NEW q \in Requests, Given', Waits(q)' PROVE Waits(q)
  <2>1. CASE q = r
    BY <1>1, <1>5, <1>6, <2>1 DEF Waits, AfterLock, Given
  <2>2. CASE q # r
    BY <1>1, <1>6, <2>2 DEF Waits, AfterLock, FinalRetry
  <2>3. QED BY <2>1, <2>2
<1>7. QED BY <1>3, <1>5, <1>6, ToldStays DEF Coming

LEMMA ToldGet ==
  ASSUME DataInv, Told, [ClusterNext]_vars, NEW r \in Requests, LocalGet(r) \/ BeginMiss(r)
  PROVE  Told'
<1>1. Holders /\ pc \in [Requests -> Phases] BY DEF DataInv, IInv, Basics
<1>2. CASE Serve(r) /\ LocalGet(r)
  <2>1. UNCHANGED <<now, store, queue, failed, listeners, pending, heard, hasLock, leaseEnd,
                    startedAt, pc>>
    BY <1>2 DEF LocalGet, Serve, getVars, clusterVars, subVars, missVars
  <2>2. QED BY <2>1, ToldStays DEF Told, Subscribed, Given, StoreLive, Waits, AfterLock, FinalRetry,
               Coming
<1>3. CASE ~Serve(r)
  <2>1. /\ UNCHANGED <<now, store, queue, failed, listeners, heard, hasLock, leaseEnd>>
        /\ \/ UNCHANGED pending
           \/ pending' = [pending EXCEPT ![Home[r]] = r] /\ pc' = [pc EXCEPT ![r] = "subscribing"]
    BY <1>3 DEF LocalGet, BeginMiss, LockForMiss, GetHit, GetJoin, JoinResolved, JoinTimeout,
       Answer, localVars, clusterVars, subVars, missVars
  <2>2. pc[r] \in {"idle", "waiting"} /\ r \notin hasLock
    BY <1>1, <1>3 DEF LocalGet, BeginMiss, LockForMiss, GetHit, GetJoin, Enter, JoinResolved,
       JoinTimeout, Holders, LockedPhases
  <2>3. \E to \in {"returned", "waiting", "subscribing"} : pc' = [pc EXCEPT ![r] = to]
    BY <1>3 DEF LocalGet, BeginMiss, LockForMiss, GetHit, GetJoin, JoinResolved, JoinTimeout,
       Answer
  <2>4. \A q \in Requests \ {r} : startedAt'[q] = startedAt[q]
    BY <1>3 DEF LocalGet, BeginMiss, LockForMiss, GetHit, GetJoin, Enter, JoinResolved,
       JoinTimeout, Answer, DataInv, IInv, Basics
  <2>5. \A q \in Requests \ {r} : pending'[Home[q]] = q => pending[Home[q]] = q
    BY <2>1, HomeAssumption DEF Told
  <2>6. QED BY <2>1, <2>2, <2>3, <2>4, <2>5, ToldMove
<1>4. CASE Serve(r) /\ BeginMiss(r)
  BY <1>4 DEF Serve, BeginMiss, LockForMiss, Enter
<1>5. QED BY <1>2, <1>3, <1>4

LEMMA ToldMiss ==
  ASSUME DataInv, Told, [ClusterNext]_vars, NEW r \in Requests,
         \/ Subscribe(r) \/ ReadStore(r) \/ TryLock(r) \/ HearData(r) \/ RetryOrGiveUp(r)
         \/ CallbackReturns(r) \/ CallbackTimesOut(r) \/ CommandFails(r)
  PROVE  Told'
<1>1. pc \in [Requests -> Phases] /\ now \in Nat /\ hasLock \subseteq Requests
  BY DEF DataInv, IInv, Basics
<1>2. CASE Subscribe(r)
  <2>1. /\ UNCHANGED <<now, store, queue, startedAt, pending, heard, hasLock, leaseEnd>>
        /\ pc' = [pc EXCEPT ![r] = "reading"]
        /\ failed' = 0 => listeners' = [listeners EXCEPT ![Home[r]] = @ \cup {r}]
    BY <1>2 DEF Subscribe, Step, To, localVars, getRest, missVars, Fail, Told
  <2>2. \A q \in Requests : failed' = 0 /\ (q = r \/ q \in listeners[Home[q]])
                              => q \in listeners'[Home[q]]
    BY <2>1, HomeAssumption DEF Told
  <2>3. QED BY <2>1, <2>2, ToldMove
<1>3. CASE ReadStore(r)
  <2>1. /\ UNCHANGED <<now, store, queue, startedAt, pending, heard, hasLock, failed, listeners>>
        /\ \E to \in {"locking", "leaving"} :
             pc' = [pc EXCEPT ![r] = to] /\ (to = "locking" => ~StoreLive)
        /\ \A q \in Requests \ {r} : leaseEnd'[q] = leaseEnd[q]
        /\ pc[r] = "reading"
    BY <1>3 DEF ReadStore, AskForLock, To, localVars, getRest, subVars, DataInv, IInv, Basics
  <2>2. failed = 0 /\ pending[Home[r]] = r => r \in listeners[Home[r]]
    BY <2>1 DEF Told, Subscribed
  <2>3. QED BY <2>1, <2>2, ToldMove
<1>4. CASE TryLock(r)
  <2>1. /\ UNCHANGED <<now, store, queue, startedAt, pending, heard, failed, listeners, leaseEnd>>
        /\ \E to \in {"calling", "awaiting"} : pc' = [pc EXCEPT ![r] = to]
        /\ hasLock' \in {hasLock, hasLock \cup {r}}
        /\ pc[r] = "locking"
    BY <1>4 DEF TryLock, To, localVars, getRest, subVars
  <2>2. failed = 0 /\ pending[Home[r]] = r => r \in listeners[Home[r]]
    BY <2>1 DEF Told, Subscribed
  <2>3. AfterLock(r) /\ (Waits(r)' => Waits(r)) BY <2>1 DEF AfterLock, Waits, FinalRetry
  <2>4. QED BY <2>1, <2>2, <2>3, ToldMove
<1>5. CASE RetryOrGiveUp(r)
  <2>1. /\ UNCHANGED <<now, store, queue, startedAt, pending, heard, failed, listeners, hasLock>>
        /\ \E to \in {"calling", "locking"} : pc' = [pc EXCEPT ![r] = to]
        /\ \A q \in Requests \ {r} : leaseEnd'[q] = leaseEnd[q]
        /\ pc[r] = "awaiting"
    BY <1>5 DEF RetryOrGiveUp, AskForLock, To, localVars, getRest, subVars, DataInv, IInv, Basics
  <2>2. failed = 0 /\ pending[Home[r]] = r => r \in listeners[Home[r]]
    BY <2>1 DEF Told, Subscribed
  <2>3. AfterLock(r) /\ (Waits(r)' => Waits(r)) BY <2>1 DEF AfterLock, Waits, FinalRetry
  <2>4. QED BY <2>1, <2>2, <2>3, ToldMove
<1>6. CASE HearData(r) \/ CallbackReturns(r) \/ CallbackTimesOut(r) \/ CommandFails(r)
  <2>1. /\ UNCHANGED <<now, store, queue, startedAt, pending, heard, hasLock, leaseEnd, listeners>>
        /\ \E to \in {"leaving", "storing"} : pc' = [pc EXCEPT ![r] = to]
    BY <1>6 DEF HearData, CallbackReturns, CallbackTimesOut, CommandFails, Step, To, localVars,
       getRest, subVars, missVars, clusterVars, okVars
  <2>2. QED BY <2>1, ToldMove
<1>7. QED BY <1>2, <1>3, <1>4, <1>5, <1>6

LEMMA ToldEnd ==
  ASSUME DataInv, Told, [ClusterNext]_vars, NEW r \in Requests,
         StoreObject(r) \/ Unsubscribe(r) \/ PublishResult(r) \/ Unlock(r) \/ UnlockFails(r)
  PROVE  Told'
<1>1. /\ pc \in [Requests -> Phases] /\ now \in Nat /\ hasLock \subseteq Requests
      /\ leaseEnd \in [Requests -> Nat]
  BY DEF DataInv, IInv, Basics
<1>2. CASE StoreObject(r)
  <2>1. /\ UNCHANGED <<now, queue, startedAt, pending, heard, hasLock, leaseEnd, failed, listeners>>
        /\ pc' = [pc EXCEPT ![r] = "leaving"]
        /\ store' = store \/ store'.by = r
    BY <1>2 DEF StoreObject, Step, To, localVars, getRest, subVars
  <2>2. failed' = 0 => Subscribed' BY <1>1, <2>1 DEF Told, Subscribed
  <2>3. Given' => Given
    BY <1>1, <2>1 DEF Given, StoreLive
  <2>4. \A q \in Requests : Waits(q)' => Waits(q)
    BY <1>1, <2>1 DEF Waits, AfterLock, FinalRetry
  <2>5. QED BY <2>1, <2>2, <2>3, <2>4, ToldStays DEF Coming
<1>3. CASE Unsubscribe(r)
  <2>1. /\ UNCHANGED <<now, store, queue, startedAt, hasLock, leaseEnd, failed>>
        /\ pending' = [pending EXCEPT ![Home[r]] = None]
        /\ heard' = [heard EXCEPT ![r] = {}]
        /\ \A i \in Instances \ {Home[r]} : listeners'[i] = listeners[i]
        /\ pc[r] = "leaving"
    BY <1>3, HomeAssumption DEF Unsubscribe, StopListening, ReturnOutcome, FinishMiss, getRest, Told
  <2>2. \E to \in {"publishing", "returned"} :
           /\ pc' = [pc EXCEPT ![r] = to]
           /\ to = "returned" /\ r \in hasLock => ~(now < leaseEnd[r])
    BY <1>1, <1>3 DEF Unsubscribe, ReturnOutcome, FinishMiss, HoldsLease, To
  <2>3. \A q \in Requests : pending'[Home[q]] = q => pending[Home[q]] = q /\ Home[q] # Home[r]
    BY <2>1, HomeAssumption, NoneAssumption DEF Told
  <2>4. \A q \in Requests \ {r} : heard'[q] = heard[q]
    BY <2>1 DEF DataInv, LocalData
  <2>5. PICK to \in {"publishing", "returned"} :
           /\ pc' = [pc EXCEPT ![r] = to]
           /\ to = "returned" /\ r \in hasLock => ~(now < leaseEnd[r])
    BY <2>2
  <2>6. \A q \in Requests : pending'[Home[q]] = q => listeners'[Home[q]] = listeners[Home[q]]
    BY <2>1, <2>3, HomeAssumption
  <2>7. QED BY <2>1, <2>3, <2>4, <2>5, <2>6, ToldMove
<1>4. CASE PublishResult(r)
  <2>1. /\ UNCHANGED <<now, startedAt, pending, heard, listeners>>
        /\ pc' = [pc EXCEPT ![r] = "unlocking"]
        /\ failed' = 0 => Broadcast(Update(r), Listening)
    BY <1>4 DEF PublishResult, Step, To, localVars, getRest, subVars, Fail, Told
  <2>2. SUFFICES ASSUME failed' = 0
                 PROVE  Subscribed' /\ \A q \in Requests : Waits(q)' => Coming(Home[q])'
    BY ToldTypes DEF Told
  <2>3. failed = 0 /\ Subscribed BY <2>2, ToldTypes DEF Told
  <2>4. ASSUME NEW q \in Requests, Waits(q)' PROVE Coming(Home[q])'
    <3>1. pc[q] \in {"locking", "awaiting"} /\ pending[Home[q]] = q
      BY <1>1, <2>1, <2>4 DEF Waits, AfterLock
    <3>2. Home[q] \in Listening
      BY <2>3, <3>1, HomeAssumption DEF Subscribed, Listening
    <3>3. queue[Home[q]] \in Seq(Messages) /\ Update(r) \in Messages
      <4>1. r \in Maybe /\ data[r] \in Data BY DEF Maybe, DataInv, LocalData
      <4>2. QED BY <4>1, HomeAssumption DEF Update, Messages, DataInv, SharedData
    <3>4. queue'[Home[q]] = Append(queue[Home[q]], Update(r))
      BY <2>1, <2>2, <3>2, HomeAssumption DEF Broadcast
    <3>5. /\ Len(queue[Home[q]]) + 1 \in DOMAIN queue'[Home[q]]
          /\ queue'[Home[q]][Len(queue[Home[q]]) + 1] = Update(r)
      BY <3>3, <3>4
    <3>6. QED BY <3>5 DEF Coming, Update
  <2>5. Subscribed' BY <1>1, <2>1, <2>3 DEF Subscribed
  <2>6. QED BY <2>4, <2>5
<1>5. CASE Unlock(r) \/ UnlockFails(r)
  <2>1. /\ UNCHANGED <<now, store, queue, startedAt, pending, heard, hasLock, leaseEnd, listeners>>
        /\ pc' = [pc EXCEPT ![r] = "returned"]
        /\ pc[r] = "unlocking"
    BY <1>5 DEF Unlock, UnlockFails, Step, To, ReturnOutcome, FinishMiss, localVars, getRest,
       subVars, missVars, okVars
  <2>2. QED BY <2>1, ToldMove
<1>6. QED BY <1>2, <1>3, <1>4, <1>5

LEMMA ToldOther ==
  ASSUME DataInv, Told, [ClusterNext]_vars,
         \/ World \/ UNCHANGED vars
         \/ \E i \in Instances : Invalidate(i) \/ Crash(i) \/ ReceiveInvalidation(i) \/ LoseMessage(i)
  PROVE  Told'
<1>1. /\ pc \in [Requests -> Phases] /\ now \in Nat /\ hasLock \subseteq Requests
      /\ leaseEnd \in [Requests -> Nat] /\ startedAt \in [Requests -> Nat]
      /\ store.at \in Nat /\ queue \in [Instances -> Seq(Messages)]
  BY DEF DataInv, IInv, Basics, SharedData, Entries
<1>2. ASSUME World \/ UNCHANGED vars PROVE Told'
  <2>1. /\ UNCHANGED <<pc, store, queue, startedAt, pending, heard, hasLock, leaseEnd, failed, listeners>>
        /\ now' \in {now, now + 1}
    BY <1>2 DEF World, SourceChanges, Tick, vars, cacheVars, clusterVars, getVars, subVars, missVars
  <2>2. failed' = 0 => Subscribed' BY <2>1 DEF Told, Subscribed
  <2>3. Given' => Given
    <3>1. StoreLive' => StoreLive BY <1>1, <2>1, TimesAssumption DEF StoreLive
    <3>2. QED BY <1>1, <2>1, <3>1 DEF Given
  <2>4. \A q \in Requests : Waits(q)' => Waits(q)
    BY <1>1, <2>1, TimesAssumption DEF Waits, AfterLock, FinalRetry
  <2>5. QED BY <2>1, <2>2, <2>3, <2>4, ToldStays DEF Coming
<1>3. ASSUME NEW i \in Instances, Invalidate(i) PROVE Told'
  <2>1. /\ UNCHANGED <<now, pc, startedAt, pending, heard, hasLock, leaseEnd, listeners>>
        /\ store' \in {store, NoEntry}
        /\ queue' = queue \/ \E m \in Messages : Broadcast(m, Instances)
    <3>1. [kind |-> "invalidate", val |-> None, by |-> None, src |-> invSrc[i]] \in Messages
      BY DEF Messages, Data, Maybe, DataInv, SharedData
    <3>2. QED
      BY <1>3, <3>1 DEF Invalidate, InvLock, InvRemove, InvPublish, InvUnlock, InvFails, InvStep,
         getVars, subVars, missVars
  <2>2. failed' = 0 => Subscribed' BY <2>1, ToldTypes DEF Told, Subscribed
  <2>3. Given' => Given
    BY <2>1 DEF Given, StoreLive, NoEntry
  <2>4. \A q \in Requests : Waits(q)' => Waits(q)
    BY <2>1 DEF Waits, AfterLock, FinalRetry
  <2>5. ASSUME NEW j \in Instances, Coming(j) PROVE Coming(j)'
    <3>1. CASE queue' = queue BY <2>5, <3>1 DEF Coming
    <3>2. ASSUME NEW m \in Messages, Broadcast(m, Instances) PROVE Coming(j)'
      <4>1. queue[j] \in Seq(Messages) /\ queue'[j] = Append(queue[j], m)
        BY <1>1, <3>2 DEF Broadcast
      <4>2. PICK k \in DOMAIN queue[j] : queue[j][k].kind = "update" BY <2>5 DEF Coming
      <4>3. k \in DOMAIN queue'[j] /\ queue'[j][k] = queue[j][k] BY <4>1, <4>2
      <4>4. QED BY <4>2, <4>3 DEF Coming
    <3>3. QED BY <2>1, <3>1, <3>2
  <2>6. QED BY <2>2, <2>3, <2>4, <2>5, HomeAssumption, ToldStays
<1>4. ASSUME NEW i \in Instances, Crash(i) PROVE Told'
  <2>1. /\ UNCHANGED <<now, store, startedAt, heard, hasLock, leaseEnd, failed>>
        /\ pending' = [pending EXCEPT ![i] = None]
        /\ listeners' = [listeners EXCEPT ![i] = {}]
        /\ queue' = [queue EXCEPT ![i] = <<>>]
        /\ \A q \in Requests : pc'[q] \in {pc[q], "dead"}
    BY <1>1, <1>4 DEF Crash
  <2>2. \A q \in Requests : pending'[Home[q]] = q => Home[q] # i /\ pending[Home[q]] = q
    BY <2>1, HomeAssumption, NoneAssumption DEF Told
  <2>3. failed' = 0 => Subscribed'
    <3>1. \A q \in Requests : Home[q] # i => listeners'[Home[q]] = listeners[Home[q]]
      BY <2>1, HomeAssumption DEF Told
    <3>2. QED BY <2>1, <2>2, <3>1 DEF Told, Subscribed
  <2>4. Given' => Given BY <1>1, <2>1 DEF Given, StoreLive
  <2>5. \A q \in Requests : Waits(q)' => Waits(q) /\ Home[q] # i
    BY <2>1, <2>2 DEF Waits, AfterLock, FinalRetry
  <2>6. \A q \in Requests : Home[q] # i => queue'[Home[q]] = queue[Home[q]]
    BY <1>1, <2>1, HomeAssumption
  <2>7. QED BY <2>3, <2>4, <2>5, <2>6, ToldStays DEF Coming
<1>5. ASSUME NEW i \in Instances, ReceiveInvalidation(i) \/ LoseMessage(i) PROVE Told'
  <2>1. /\ UNCHANGED <<now, pc, store, startedAt, pending, heard, hasLock, leaseEnd, listeners>>
        /\ Received(i)
        /\ failed' = 0 => Head(queue[i]).kind = "invalidate"
    BY <1>5 DEF ReceiveInvalidation, LoseMessage, Received, getVars, subVars, Fail, Told
  <2>2. failed' = 0 => Subscribed' BY <2>1, ToldTypes DEF Told, Subscribed
  <2>3. (Given' => Given) /\ \A q \in Requests : Waits(q)' => Waits(q)
    BY <2>1 DEF Given, StoreLive, Waits, AfterLock, FinalRetry
  <2>4. ASSUME failed' = 0, NEW j \in Instances, Coming(j) PROVE Coming(j)'
    <3>1. CASE j # i BY <1>1, <2>1, <2>4, <3>1 DEF Received, Coming
    <3>2. CASE j = i
      <4>1. /\ queue[i] \in Seq(Messages) /\ queue[i] # <<>> /\ queue'[i] = Tail(queue[i])
        BY <1>1, <2>1 DEF Received
      <4>2. PICK k \in DOMAIN queue[i] : queue[i][k].kind = "update"
        BY <2>4, <3>2 DEF Coming
      <4>3. k # 1 BY <2>1, <2>4, <4>1, <4>2
      <4>4. k - 1 \in DOMAIN Tail(queue[i]) /\ Tail(queue[i])[k - 1] = queue[i][k]
        BY <4>1, <4>2, <4>3
      <4>5. QED BY <3>2, <4>1, <4>2, <4>4 DEF Coming
    <3>3. QED BY <3>1, <3>2
  <2>5. QED
    <3>1. CASE failed' = 0 BY <2>2, <2>3, <2>4, <3>1, HomeAssumption, ToldStays
    <3>2. CASE failed' # 0 BY <3>2, ToldTypes DEF Told
    <3>3. QED BY <3>1, <3>2
<1>6. QED BY <1>2, <1>3, <1>4, <1>5

(* Who listens and is not too late hears what arrives. *)
LEMMA ToldReceive ==
  ASSUME DataInv, Told, [ClusterNext]_vars, NEW i \in Instances, ReceiveUpdate(i)
  PROVE  Told'
<1>1. /\ now \in Nat /\ startedAt \in [Requests -> Nat]
      /\ queue \in [Instances -> Seq(Messages)]
  BY DEF DataInv, IInv, Basics, SharedData
<1>2. /\ UNCHANGED <<now, pc, store, startedAt, pending, hasLock, leaseEnd, listeners, failed>>
      /\ Received(i)
  BY DEF ReceiveUpdate, Received, getVars, subVars
<1>3. failed' = 0 => Subscribed' BY <1>2 DEF Told, Subscribed
<1>4. Given' => Given BY <1>2 DEF Given, StoreLive
<1>5. ASSUME failed = 0, NEW q \in Requests, Waits(q)' PROVE Waits(q) /\ Home[q] # i
  <2>1. AfterLock(q) /\ pending[Home[q]] = q /\ now <= FinalRetry(q) /\ heard'[q] = {}
    BY <1>2, <1>5 DEF Waits, AfterLock, FinalRetry
  <2>2. heard[q] = {}
    BY <2>1 DEF ReceiveUpdate
  <2>3. Home[q] # i
    <3>1. SUFFICES ASSUME Home[q] = i PROVE FALSE OBVIOUS
    <3>2. i \in Listening
      BY <1>5, <2>1, <3>1 DEF Told, Subscribed, AfterLock, Listening
    <3>3. q \in PendingRefresh(i)
      BY <1>1, <2>1, <3>1, TimesAssumption, NoneAssumption DEF PendingRefresh, FinalRetry
    <3>4. heard'[q] = {Head(queue[i]).val} BY <2>2, <3>2, <3>3 DEF ReceiveUpdate
    <3>5. QED BY <2>1, <3>4
  <2>4. QED BY <2>1, <2>2, <2>3 DEF Waits
<1>6. \A j \in Instances : j # i => queue'[j] = queue[j] BY <1>1, <1>2 DEF Received
<1>7. QED BY <1>2, <1>3, <1>4, <1>5, <1>6, HomeAssumption, ToldStays DEF Coming

LEMMA ToldNext == DataInv /\ Told /\ [ClusterNext]_vars => Told'
BY ToldGet, ToldMiss, ToldEnd, ToldOther, ToldReceive DEF ClusterNext, Progress, MissFault

LEMMA ToldInit == Init => Told
<1> SUFFICES ASSUME Init PROVE Told OBVIOUS
<1>1. /\ failed = 0 /\ None \in Maybe /\ \A r \in Requests : pc[r] = "idle"
      /\ listeners = [i \in Instances |-> {}]
      /\ wrapped = [i \in Instances |-> None] /\ pending = [i \in Instances |-> None]
  BY DEF Init, CacheInit, Maybe
<1>2. Subscribed /\ \A r \in Requests : ~Waits(r)
  BY <1>1 DEF Subscribed, Waits, AfterLock
<1>3. QED BY <1>1, <1>2 DEF Told

(* Who waits for the lock holder's broadcast, hears its channel and has its *)
(* deferred registered does not miss it, unless a command failed: the order *)
(* of handleCacheMiss, which subscribes before it looks and locks.          *)
THEOREM BroadcastIsNotLost == ClusterSpec => []NoLostBroadcast
<1>1. DataInv /\ Told => NoLostBroadcast
  <2> SUFFICES ASSUME DataInv, Told, NEW r \in Requests,
                      pc[r] = "awaiting", pending[Home[r]] = r, now <= FinalRetry(r),
                      queue[Home[r]] = <<>>, heard[r] = {}, failed = 0,
                      StoreLive, store.by \in hasLock, now < leaseEnd[store.by],
                      pc[store.by] = "returned"
               PROVE  FALSE
    BY DEF NoLostBroadcast
  <2>1. Given /\ Waits(r) BY DEF Given, Waits, AfterLock
  <2>2. Coming(Home[r]) BY <2>1 DEF Told
  <2>3. QED BY <2>2 DEF Coming
<1>2. QED BY <1>1, ToldInit, DataInit, DataNext, ToldNext, PTL DEF ClusterSpec
------------------------------------------------------------------------------
(***************************************************************************)
(* What an invalidation removed comes back only by what it overlapped.     *)
(* s is the version of the source when an invalidation began that removed  *)
(* the datum from the cluster (Removed), and what is fresh for it was      *)
(* served since, or was under way when something was removed.              *)
(***************************************************************************)
Fresh(v, by, s) == v = None \/ ver[v] >= s \/ v \in tainted \/ by \in tainted

Removes(m) == m.kind = "invalidate"

Removed(s) ==
  \/ \E i \in Instances : fence[i] = s \/ (inv[i] = "removed" /\ invSrc[i] = s)
  \/ \E i \in Instances : \E k \in DOMAIN queue[i] : Removes(queue[i][k]) /\ queue[i][k].src = s

Past ==
  /\ fence \in [Instances -> Nat] /\ tainted \subseteq Requests
  /\ \A s \in Nat : Removed(s) => s <= src
  /\ \A i \in Instances : invSrc[i] <= src

(* Only a get's own datum is stored and broadcast. *)
Own ==
  /\ \A r \in Requests : data[r] \in {r, None}
  /\ store.val \in {store.by, None}
  /\ \A i \in Instances : \A k \in DOMAIN queue[i] :
       ~Removes(queue[i][k]) => queue[i][k].val \in {queue[i][k].by, None}

(* A get that has not begun its miss was served nothing and heard nothing. *)
Begun ==
  /\ pending \in [Instances -> Maybe]
  /\ \A i \in Instances : \A r \in Requests :
       pending[i] = r => Home[r] = i /\ pc[r] \notin {"idle", "waiting"}
  /\ \A r \in Requests : pc[r] \in {"idle", "waiting"} =>
       heard[r] = {} /\ outcome[r] = None /\ ver[r] = 0

(* What may be stored or sent from now on is fresh for all removals ...     *)
FlightsFresh ==
  \A r \in Requests : pc[r] \in MissPhases /\ r \notin tainted /\ ver[r] # 0 =>
    \A s \in Nat : Removed(s) => ver[r] >= s

StoreFresh == \A s \in Nat : Removed(s) => Fresh(store.val, store.val, s)

(* ... and what an instance has, for the removals it heard of.              *)
LocalFresh ==
  /\ \A i \in Instances : Fresh(cached[i].val, cached[i].by, fence[i])
  /\ \A r \in Requests : pc[r] \in MissPhases =>
       \A v \in heard[r] \cup {outcome[r]} : Fresh(v, r, fence[Home[r]])

(* A message is no older than the removals that arrive before it. *)
Follows(i, k) ==
  /\ Fresh(queue[i][k].val, queue[i][k].by, fence[i])
  /\ \A l \in DOMAIN queue[i] : l < k /\ Removes(queue[i][l])
       => Fresh(queue[i][k].val, queue[i][k].by, queue[i][l].src)

QueuesFresh ==
  \A i \in Instances : \A k \in DOMAIN queue[i] : ~Removes(queue[i][k]) => Follows(i, k)

FreshInv == Past /\ Own /\ Begun /\ FlightsFresh /\ StoreFresh /\ LocalFresh /\ QueuesFresh

LEMMA FreshStays ==
  ASSUME DataInv, NEW v \in Data, NEW by, NEW s, Fresh(v, by, s), tainted \subseteq tainted',
         \A q \in Requests : ver[q] # 0 => ver'[q] = ver[q]
  PROVE  Fresh(v, by, s)'
BY DEF Fresh, Data, Served

LEMMA FreshTypes ==
  ASSUME DataInv
  PROVE  /\ pc \in [Requests -> Phases] /\ src \in Nat \ {0} /\ ver \in [Requests -> Nat]
         /\ inv \in [Instances -> {"idle", "locked", "removed", "published"}]
         /\ store.val \in Data /\ queue \in [Instances -> Seq(Messages)]
         /\ invSrc \in [Instances -> Nat] /\ heard \in [Requests -> SUBSET Data]
         /\ outcome \in [Requests -> Data] /\ data \in [Requests -> Data]
         /\ cached \in [Instances -> Entries] /\ None \in Data /\ now \in Nat
         /\ \A i \in Instances : \A k \in DOMAIN queue[i] :
              queue[i][k] \in Messages /\ queue[i][k].val \in Data /\ queue[i][k].src \in Nat
         /\ \A i \in Instances : cached[i].val \in Data
         /\ \A r \in Requests : Home[r] \in Instances
<1>1. \A i \in Instances : queue[i] \in Seq(Messages) BY DEF DataInv, SharedData
<1>2. \A i \in Instances : \A k \in DOMAIN queue[i] : queue[i][k] \in Messages BY <1>1
<1>3. QED
  BY <1>1, <1>2, HomeAssumption DEF DataInv, IInv, Basics, LocalData, SharedData, Entries, Messages, Data

(* A step of one get, without a message: what it does to the others is in its *)
(* cache and in the store, and that is what it got.                           *)
LEMMA FreshMove ==
  ASSUME DataInv, FreshInv, DataInv', NEW r \in Requests,
         UNCHANGED <<src, queue, fence, tainted, inv, invSrc>>,
         \A q \in Requests \ {r} : /\ ver'[q] = ver[q] /\ pc'[q] = pc[q] /\ data'[q] = data[q]
                                   /\ heard'[q] = heard[q] /\ outcome'[q] = outcome[q],
         ver'[r] = ver[r] \/ (ver[r] = 0 /\ ver'[r] = src),
         pc'[r] \in MissPhases => pc[r] \in MissPhases \cup {"idle"},
         pc'[r] \in {"idle", "waiting"} =>
           /\ pc[r] \in {"idle", "waiting"}
           /\ UNCHANGED <<ver, heard, outcome, pending>>,
         data'[r] \in {data[r], r, None}, heard'[r] \in {heard[r], {}},
         \/ outcome'[r] \in {outcome[r], None, store.val} \cup heard[r]
         \/ pc[r] \in MissPhases /\ outcome'[r] = data[r],
         pending' \in [Instances -> Maybe],
         \A i \in Instances : pending'[i] \in {pending[i], None} \/ (pending'[i] = r /\ Home[r] = i),
         store' = store \/ (pc[r] \in MissPhases /\ store'.val = data[r] /\ store'.by = r),
         \A i \in Instances :
           \/ cached'[i] = cached[i]
           \/ /\ i = Home[r] /\ pc[r] \in MissPhases
              /\ cached'[i].val = outcome[r] /\ cached'[i].by = r
  PROVE  FreshInv'
<1>1. \A s \in Nat : Removed(s)' <=> Removed(s) BY DEF Removed
<1>2. \A q \in Requests : ver[q] # 0 => ver'[q] = ver[q] OBVIOUS
<1>3. ASSUME NEW v \in Data, NEW by, NEW s, Fresh(v, by, s) PROVE Fresh(v, by, s)'
  BY <1>2, <1>3, FreshStays
<1>4. Past' BY <1>1 DEF FreshInv, Past
<1>5. Own' BY DEF FreshInv, Own
<1>6. Begun'
  BY NoneAssumption DEF FreshInv, Begun
<1>7. FlightsFresh'
  <2>1. ASSUME NEW q \in Requests, pc'[q] \in MissPhases, q \notin tainted, ver'[q] # 0,
               NEW s \in Nat, Removed(s)
        PROVE  ver'[q] >= s
    <3>1. src >= s BY <2>1, FreshTypes DEF FreshInv, Past
    <3>2. CASE ver'[q] = src BY <3>1, <3>2
    <3>3. CASE ver'[q] = ver[q]
      <4>1. pc[q] \in MissPhases BY <2>1, <3>3 DEF FreshInv, Begun
      <4>2. QED BY <2>1, <3>3, <4>1 DEF FreshInv, FlightsFresh
    <3>4. QED BY <3>2, <3>3
  <2>2. QED BY <1>1, <2>1 DEF FlightsFresh
<1>8. ASSUME pc[r] \in MissPhases, NEW s \in Nat, Removed(s) PROVE Fresh(data[r], r, s)
  BY <1>8, FreshTypes DEF FreshInv, FlightsFresh, Own, Fresh, Data, Served
<1>9. StoreFresh'
  <2>1. ASSUME NEW s \in Nat, Removed(s) PROVE Fresh(store'.val, store'.val, s)
    <3>1. CASE store' = store BY <2>1, <3>1 DEF FreshInv, StoreFresh
    <3>2. CASE pc[r] \in MissPhases /\ store'.val = data[r]
      <4>1. data[r] \in {r, None} BY DEF FreshInv, Own
      <4>2. QED BY <1>8, <2>1, <3>2, <4>1 DEF Fresh
    <3>3. QED BY <3>1, <3>2
  <2>2. store'.val \in Data
    BY FreshTypes
  <2>3. QED BY <1>1, <1>3, <2>1, <2>2 DEF StoreFresh, Fresh
<1>10. \A i \in Instances : fence[i] \in Nat /\ Removed(fence[i]) BY DEF Removed, FreshInv, Past
<1>11. ASSUME NEW v \in heard[r] \cup {outcome[r], store.val, data[r]}, pc[r] \in MissPhases
       PROVE  v \in Data /\ Fresh(v, r, fence[Home[r]])
  <2>1. v \in Data BY FreshTypes
  <2>2. CASE v = store.val
    BY <1>10, <2>1, <2>2, FreshTypes DEF FreshInv, StoreFresh, Fresh
  <2>3. CASE v = data[r]
    <3>1. Home[r] \in Instances BY HomeAssumption
    <3>2. fence[Home[r]] \in Nat /\ Removed(fence[Home[r]]) BY <1>10, <3>1
    <3>3. Fresh(data[r], r, fence[Home[r]]) BY <1>8, <1>11, <3>2
    <3>4. QED BY <2>1, <2>3, <3>3 DEF Fresh
  <2>4. CASE v \in heard[r] \cup {outcome[r]} BY <1>11, <2>1, <2>4 DEF FreshInv, LocalFresh
  <2>5. QED BY <2>1, <2>2, <2>3, <2>4
<1>12. LocalFresh'
  <2>1. ASSUME NEW i \in Instances PROVE Fresh(cached[i].val, cached[i].by, fence[i])'
    <3>1. CASE cached'[i] = cached[i]
      BY <1>3, <3>1, FreshTypes DEF FreshInv, LocalFresh
    <3>2. CASE /\ i = Home[r] /\ pc[r] \in MissPhases
               /\ cached'[i].val = outcome[r] /\ cached'[i].by = r
      BY <1>3, <1>11, <3>2
    <3>3. QED BY <3>1, <3>2
  <2>2. ASSUME NEW q \in Requests, pc'[q] \in MissPhases, NEW v \in heard'[q] \cup {outcome'[q]}
        PROVE  Fresh(v, q, fence[Home[q]])'
    <3>1. CASE q # r
      <4>1. v \in Data /\ Fresh(v, q, fence[Home[q]])
        BY <2>2, <3>1, FreshTypes DEF FreshInv, LocalFresh
      <4>2. QED BY <1>3, <4>1
    <3>2. CASE q = r /\ pc[r] \in MissPhases
      <4>1. v = None \/ v \in heard[r] \cup {outcome[r], store.val, data[r]} BY <2>2, <3>2
      <4>2. QED BY <1>3, <1>11, <3>2, <4>1 DEF Fresh
    <3>3. CASE q = r /\ pc[r] = "idle"
      <4>1. v = None \/ v = store.val BY <2>2, <3>3 DEF FreshInv, Begun, MissPhases
      <4>2. store.val \in Data /\ Fresh(store.val, r, fence[Home[r]])
        BY <1>10, FreshTypes DEF FreshInv, StoreFresh, Fresh
      <4>3. QED BY <1>3, <3>3, <4>1, <4>2 DEF Fresh
    <3>4. QED BY <2>2, <3>1, <3>2, <3>3
  <2>3. QED BY <2>1, <2>2 DEF LocalFresh
<1>13. QueuesFresh'
  <2>1. ASSUME NEW i \in Instances, NEW k \in DOMAIN queue[i], ~Removes(queue[i][k])
        PROVE  Follows(i, k)'
    <3>1. Follows(i, k) /\ queue[i][k].val \in Data
      BY <2>1, FreshTypes DEF FreshInv, QueuesFresh
    <3>2. QED BY <1>3, <3>1 DEF Follows
  <2>2. QED BY <2>1 DEF QueuesFresh
<1>14. QED BY <1>4, <1>5, <1>6, <1>7, <1>9, <1>12, <1>13 DEF FreshInv

LEMMA FreshGet ==
  ASSUME DataInv, FreshInv, DataInv', NEW r \in Requests,
         LocalGet(r) \/ BeginMiss(r) \/ CallbackReturns(r) \/ CallbackTimesOut(r) \/ MissFault(r)
  PROVE  FreshInv'
<1>1. UNCHANGED <<src, queue, fence, tainted, inv, invSrc, heard, outcome, cached, store>>
  BY DEF LocalGet, BeginMiss, CallbackReturns, CallbackTimesOut, MissFault, CommandFails,
     UnlockFails, GetHit, GetJoin, JoinResolved, JoinTimeout, Answer, Serve, localVars,
     clusterVars, missVars, invVars, okVars
<1>2. \/ ver' = ver \/ (ver[r] = 0 /\ ver' = [ver EXCEPT ![r] = src] /\ pc' = pc /\ pc[r] = "calling")
  BY DEF LocalGet, BeginMiss, CallbackReturns, CallbackTimesOut, MissFault, CommandFails,
     UnlockFails, GetHit, GetJoin, JoinResolved, JoinTimeout, Answer, Serve, callVars, getVars
<1>3. \/ pc' = pc /\ pc[r] = "calling"
      \/ pc[r] \in MissPhases \cup {"waiting"} /\ pc' = [pc EXCEPT ![r] = "returned"]
      \/ pc[r] = "idle" /\ \E to \in {"returned", "waiting", "subscribing"} : pc' = [pc EXCEPT ![r] = to]
      \/ pc[r] \in MissPhases /\ \E to \in {"storing", "leaving"} : pc' = [pc EXCEPT ![r] = to]
  BY DEF LocalGet, BeginMiss, LockForMiss, Enter, CallbackReturns, CallbackYields, CallbackTimesOut,
     CallbackTimeout, MissFault, CommandFails, UnlockFails, GetHit, GetJoin, JoinResolved,
     JoinTimeout, Answer, Serve, Step, To, MissPhases, getVars
<1>4. \/ data' = data \/ \E v \in {r, None} : data' = [data EXCEPT ![r] = v]
  BY DEF LocalGet, BeginMiss, CallbackReturns, CallbackTimesOut, MissFault, CommandFails,
     UnlockFails, clusterVars, missVars, okVars
<1>5. \/ pending' = pending
      \/ pending' = [pending EXCEPT ![Home[r]] = r] /\ pc' = [pc EXCEPT ![r] = "subscribing"]
  BY DEF LocalGet, BeginMiss, LockForMiss, CallbackReturns, CallbackTimesOut, MissFault,
     CommandFails, UnlockFails, clusterVars, missVars, okVars
<1>6. /\ pending' \in [Instances -> Maybe]
      /\ \A i \in Instances : pending'[i] = pending[i] \/ (pending'[i] = r /\ Home[r] = i)
  BY <1>5 DEF FreshInv, Begun, Maybe
<1>7. /\ pc \in [Requests -> Phases] /\ ver \in [Requests -> Nat] /\ data \in [Requests -> Data]
  BY FreshTypes
<1>8. \A q \in Requests \ {r} : ver'[q] = ver[q] /\ pc'[q] = pc[q] /\ data'[q] = data[q]
  BY <1>2, <1>3, <1>4, <1>7
<1>9. /\ ver'[r] = ver[r] \/ (ver[r] = 0 /\ ver'[r] = src)
      /\ data'[r] \in {data[r], r, None}
      /\ pc'[r] \in MissPhases => pc[r] \in MissPhases \cup {"idle"}
  BY <1>2, <1>3, <1>4, <1>7 DEF MissPhases
<1>10. pc'[r] \in {"idle", "waiting"} =>
         pc[r] \in {"idle", "waiting"} /\ UNCHANGED <<ver, heard, outcome, pending>>
  BY <1>1, <1>2, <1>3, <1>5, <1>7
<1>11. QED BY <1>1, <1>6, <1>8, <1>9, <1>10, FreshMove

LEMMA FreshProgress ==
  ASSUME DataInv, FreshInv, DataInv', NEW r \in Requests,
         Progress(r), ~PublishResult(r), ~CallbackTimesOut(r)
  PROVE  FreshInv'
<1>1. UNCHANGED <<src, queue, fence, tainted, inv, invSrc, ver>>
  BY DEF Progress, Subscribe, ReadStore, TryLock, HearData, RetryOrGiveUp, StoreObject,
     Unsubscribe, Unlock, localVars, callVars, invVars
<1>2. pc[r] \in MissPhases \ {"calling"} /\ \E to \in MissPhases \cup {"returned"} : pc' = [pc EXCEPT ![r] = to]
  BY DEF Progress, Subscribe, ReadStore, TryLock, HearData, RetryOrGiveUp, StoreObject,
     Unsubscribe, Unlock, AskForLock, Step, To, ReturnOutcome, FinishMiss, MissPhases
<1>3. /\ data' = data \/ data' = [data EXCEPT ![r] = None]
      /\ heard' = heard \/ heard' = [heard EXCEPT ![r] = {}]
      /\ \/ outcome' = outcome
         \/ \E v \in {None, store.val, data[r]} \cup heard[r] : outcome' = [outcome EXCEPT ![r] = v]
  BY DEF Progress, Subscribe, ReadStore, TryLock, HearData, RetryOrGiveUp, StoreObject,
     Unsubscribe, Unlock, ReturnOutcome, missVars
<1>4. /\ pending' = pending \/ pending' = [pending EXCEPT ![Home[r]] = None]
      /\ store' = store \/ (store'.val = data[r] /\ store'.by = r)
  BY DEF Progress, Subscribe, ReadStore, TryLock, HearData, RetryOrGiveUp, StoreObject,
     Unsubscribe, Unlock, missVars
<1>5. \/ cached' = cached
      \/ cached' = [cached EXCEPT ![Home[r]] = [val |-> outcome[r], by |-> r, at |-> now]]
  BY DEF Progress, Subscribe, ReadStore, TryLock, HearData, RetryOrGiveUp, StoreObject,
     Unsubscribe, Unlock, ReturnOutcome, FinishMiss, localVars
<1>6. /\ pc \in [Requests -> Phases] /\ data \in [Requests -> Data]
      /\ heard \in [Requests -> SUBSET Data] /\ outcome \in [Requests -> Data]
      /\ cached \in [Instances -> Entries] /\ pending \in [Instances -> Maybe]
  BY FreshTypes DEF FreshInv, Begun
<1>7. \A q \in Requests \ {r} : /\ pc'[q] = pc[q] /\ data'[q] = data[q]
                                /\ heard'[q] = heard[q] /\ outcome'[q] = outcome[q]
  BY <1>2, <1>3, <1>6
<1>8. /\ pc'[r] \in MissPhases \cup {"returned"} /\ pc[r] \in MissPhases
      /\ data'[r] \in {data[r], None} /\ heard'[r] \in {heard[r], {}}
      /\ outcome'[r] \in {outcome[r], None, store.val, data[r]} \cup heard[r]
  BY <1>2, <1>3, <1>6
<1>9. /\ pending' \in [Instances -> Maybe]
      /\ \A i \in Instances : pending'[i] \in {pending[i], None}
  BY <1>4, <1>6 DEF Maybe
<1>10. \A i \in Instances : \/ cached'[i] = cached[i]
                            \/ i = Home[r] /\ cached'[i].val = outcome[r] /\ cached'[i].by = r
  BY <1>5, <1>6
<1>11. pc'[r] \notin {"idle", "waiting"} BY <1>8 DEF MissPhases
<1>12. QED BY <1>1, <1>4, <1>7, <1>8, <1>9, <1>10, <1>11, FreshMove

LEMMA AppendAt ==
  ASSUME NEW S, NEW q \in Seq(S), NEW m \in S, NEW k \in DOMAIN Append(q, m)
  PROVE  \/ k \in DOMAIN q /\ Append(q, m)[k] = q[k]
         \/ Append(q, m)[k] = m /\ \A l \in DOMAIN Append(q, m) : l <= k
<1>1. Len(q) \in Nat /\ DOMAIN q = 1..Len(q) /\ DOMAIN Append(q, m) = 1..(Len(q) + 1) OBVIOUS
<1>2. CASE k = Len(q) + 1 BY <1>1, <1>2
<1>3. CASE k \in 1..Len(q) BY <1>1, <1>3
<1>4. QED BY <1>1, <1>2, <1>3

(* A broadcast is as fresh as the flight it ends. *)
LEMMA FreshPublish ==
  ASSUME DataInv, FreshInv, DataInv', NEW r \in Requests, PublishResult(r)
  PROVE  FreshInv'
<1>1. /\ UNCHANGED <<src, fence, tainted, inv, invSrc, ver, heard, outcome, pending, store, cached>>
      /\ pc' = [pc EXCEPT ![r] = "unlocking"] /\ pc[r] = "publishing"
      /\ data' = [data EXCEPT ![r] = None]
      /\ Broadcast(Update(r), Listening) \/ UNCHANGED queue
  BY DEF PublishResult, Step, To, localVars, callVars, getRest, invVars
<1>2. /\ pc \in [Requests -> Phases] /\ data \in [Requests -> Data]
      /\ queue \in [Instances -> Seq(Messages)] /\ Update(r) \in Messages
  BY FreshTypes DEF Update, Messages, Maybe
<1>3. ASSUME NEW i \in Instances, NEW k \in DOMAIN queue'[i]
      PROVE  \/ k \in DOMAIN queue[i] /\ queue'[i][k] = queue[i][k]
             \/ queue'[i][k] = Update(r)
  <2>1. queue[i] \in Seq(Messages) /\ (queue'[i] = queue[i] \/ queue'[i] = Append(queue[i], Update(r)))
    BY <1>1, <1>2 DEF Broadcast
  <2>2. CASE queue'[i] = Append(queue[i], Update(r)) BY <1>2, <2>1, <2>2, AppendAt
  <2>3. QED BY <1>3, <2>1, <2>2
<1>4. ~Removes(Update(r)) BY DEF Removes, Update
<1>5. \A s \in Nat : Removed(s)' => Removed(s)
  BY <1>1, <1>3, <1>4 DEF Removed
<1>6. ASSUME NEW v, NEW by, NEW s PROVE Fresh(v, by, s)' <=> Fresh(v, by, s)
  BY <1>1 DEF Fresh
<1>7. ASSUME NEW s \in Nat, Removed(s) PROVE Fresh(data[r], r, s)
  BY <1>1, <1>7, FreshTypes DEF FreshInv, FlightsFresh, Own, Fresh, Data, Served, MissPhases
<1>8. Past' BY <1>1, <1>5 DEF FreshInv, Past
<1>9. Own'
  <2>1. \A q \in Requests : data'[q] \in {q, None} BY <1>1, <1>2 DEF FreshInv, Own
  <2>2. data[r] \in {r, None} BY DEF FreshInv, Own
  <2>3. QED BY <1>1, <1>3, <2>1, <2>2 DEF FreshInv, Own, Update
<1>10. Begun' BY <1>1, <1>2 DEF FreshInv, Begun
<1>11. \A q \in Requests : pc'[q] \in MissPhases => pc[q] \in MissPhases
  BY <1>1, <1>2 DEF MissPhases
<1>12. FlightsFresh' BY <1>1, <1>5, <1>11 DEF FreshInv, FlightsFresh
<1>13. StoreFresh' BY <1>1, <1>5, <1>6 DEF FreshInv, StoreFresh
<1>14. LocalFresh' BY <1>1, <1>6, <1>11 DEF FreshInv, LocalFresh
<1>15. QueuesFresh'
  <2>1. ASSUME NEW i \in Instances, NEW k \in DOMAIN queue'[i], ~Removes(queue'[i][k])
        PROVE  Follows(i, k)'
    <3>1. CASE k \in DOMAIN queue[i] /\ queue'[i][k] = queue[i][k]
      <4>1. Follows(i, k) BY <2>1, <3>1 DEF FreshInv, QueuesFresh
      <4>2. QED BY <1>1, <1>3, <1>4, <1>6, <3>1, <4>1 DEF Follows
    <3>2. CASE queue'[i][k] = Update(r)
      <4>1. fence[i] \in Nat /\ Removed(fence[i]) BY DEF FreshInv, Past, Removed
      <4>2. \A l \in DOMAIN queue'[i] : Removes(queue'[i][l]) =>
               /\ queue'[i][l].src \in Nat /\ Removed(queue'[i][l].src)
        BY <1>3, <1>4, FreshTypes DEF Removed
      <4>3. QED BY <1>1, <1>6, <1>7, <3>2, <4>1, <4>2 DEF Follows, Update
    <3>3. QED BY <1>3, <2>1, <3>1, <3>2
  <2>2. QED BY <2>1 DEF QueuesFresh
<1>16. QED BY <1>8, <1>9, <1>10, <1>12, <1>13, <1>14, <1>15 DEF FreshInv

LEMMA FreshWorld ==
  ASSUME DataInv, FreshInv, DataInv', World \/ UNCHANGED vars
  PROVE  FreshInv'
<1>1. /\ UNCHANGED <<pc, fence, tainted, inv, invSrc, ver, heard, outcome, data, pending, store,
                     cached, queue>>
      /\ src' >= src
  BY FreshTypes DEF World, SourceChanges, Tick, vars, cacheVars, clusterVars, getVars, callVars,
     missVars, invVars
<1>2. \A s \in Nat : Removed(s)' <=> Removed(s) BY <1>1 DEF Removed
<1>3. ASSUME NEW v, NEW by, NEW s PROVE Fresh(v, by, s)' <=> Fresh(v, by, s)
  BY <1>1 DEF Fresh
<1>4. Past'
  <2>1. src \in Nat /\ src' \in Nat /\ invSrc \in [Instances -> Nat]
    BY DEF DataInv, LocalData, SharedData
  <2>2. QED BY <1>1, <1>2, <2>1 DEF FreshInv, Past
<1>5. Own' /\ Begun' BY <1>1 DEF FreshInv, Own, Begun
<1>6. FlightsFresh' /\ StoreFresh' /\ LocalFresh'
  BY <1>1, <1>2, <1>3 DEF FreshInv, FlightsFresh, StoreFresh, LocalFresh
<1>7. QueuesFresh' BY <1>1, <1>3 DEF FreshInv, QueuesFresh, Follows
<1>8. QED BY <1>4, <1>5, <1>6, <1>7 DEF FreshInv

(* The removal from the cluster, and what else an invalidation does. *)
LEMMA FreshInvalidate ==
  ASSUME DataInv, FreshInv, DataInv', NEW i \in Instances, Invalidate(i)
  PROVE  FreshInv'
<1> DEFINE m == [kind |-> "invalidate", val |-> None, by |-> None, src |-> invSrc[i]]
<1>1. /\ UNCHANGED <<src, pc, fence, ver, heard, outcome, data, pending, cached>>
      /\ tainted' = tainted \/ tainted' = tainted \cup AllUnderWay
      /\ store' = store \/ store' = NoEntry
  BY DEF Invalidate, InvLock, InvRemove, InvPublish, InvUnlock, InvFails, InvStep, getVars,
     callVars, missVars
<1>2. \/ queue' = queue
      \/ Broadcast(m, Instances) /\ inv[i] = "removed" /\ UNCHANGED invSrc
  BY DEF Invalidate, InvLock, InvRemove, InvPublish, InvUnlock, InvFails, InvStep
<1>3. \/ inv'[i] # "removed" /\ \A j \in Instances \ {i} : inv'[j] = inv[j] /\ invSrc'[j] = invSrc[j]
      \/ InvRemove(i)
  BY FreshTypes DEF Invalidate, InvLock, InvPublish, InvUnlock, InvFails, InvStep
<1>4. \A j \in Instances : invSrc'[j] \in {invSrc[j], src}
  BY FreshTypes DEF Invalidate, InvLock, InvRemove, InvPublish, InvUnlock, InvFails
<1>5. /\ pc \in [Requests -> Phases] /\ queue \in [Instances -> Seq(Messages)] /\ m \in Messages
      /\ \A r \in Requests : Home[r] \in Instances
  BY FreshTypes DEF Messages, Data, Maybe
<1>6. AllUnderWay = {r \in Requests : pc[r] \in MissPhases}
  BY <1>5 DEF AllUnderWay, UnderWay, Phases, MissPhases
<1>7. tainted \subseteq tainted' /\ tainted' \subseteq Requests
  BY <1>1, <1>6 DEF FreshInv, Past
<1>8. ASSUME NEW v, NEW by, NEW s, Fresh(v, by, s) PROVE Fresh(v, by, s)'
  BY <1>1, <1>7, <1>8 DEF Fresh
<1>9. ASSUME NEW j \in Instances, NEW k \in DOMAIN queue'[j]
      PROVE  \/ k \in DOMAIN queue[j] /\ queue'[j][k] = queue[j][k]
             \/ queue'[j][k] = m /\ inv[i] = "removed"
  <2>1. CASE Broadcast(m, Instances) /\ inv[i] = "removed"
    <3>1. queue'[j] = Append(queue[j], m) BY <2>1 DEF Broadcast
    <3>2. QED BY <2>1, <3>1, <1>5, <1>9, AppendAt
  <2>2. QED BY <1>2, <1>9, <2>1
<1>10. Removes(m) /\ m.src = invSrc[i] BY DEF Removes
<1>11. ASSUME NEW s \in Nat, Removed(s)', ~Removed(s) PROVE InvRemove(i) /\ s = invSrc[i]
  <2>1. \A j \in Instances : \A k \in DOMAIN queue'[j] :
          Removes(queue'[j][k]) /\ queue'[j][k].src = s => FALSE
    BY <1>9, <1>10, <1>11 DEF Removed
  <2>2. PICK j \in Instances : inv'[j] = "removed" /\ invSrc'[j] = s
    BY <1>1, <1>11, <2>1 DEF Removed
  <2>3. CASE ~InvRemove(i) BY <1>3, <1>11, <2>2, <2>3 DEF Removed
  <2>4. CASE InvRemove(i)
    BY <1>11, <2>2, <2>4, FreshTypes DEF InvRemove, InvStep, Removed
  <2>5. QED BY <2>3, <2>4
<1>12. Past'
  <2>1. src \in Nat /\ invSrc \in [Instances -> Nat] BY DEF DataInv, LocalData, SharedData
  <2>2. ASSUME NEW s \in Nat, Removed(s)' PROVE s <= src
    BY <1>11, <2>2 DEF FreshInv, Past
  <2>3. QED BY <1>1, <1>4, <1>7, <2>1, <2>2 DEF FreshInv, Past
<1>13. Own'
  <2>1. store'.val \in {store'.by, None} BY <1>1 DEF FreshInv, Own, NoEntry
  <2>2. QED BY <1>1, <1>9, <1>10, <2>1 DEF FreshInv, Own
<1>14. Begun' BY <1>1 DEF FreshInv, Begun
<1>15. FlightsFresh'
  <2>1. ASSUME NEW r \in Requests, pc[r] \in MissPhases, r \notin tainted', ver[r] # 0,
               NEW s \in Nat, Removed(s)'
        PROVE  ver[r] >= s
    <3>1. ~InvRemove(i) BY <1>6, <2>1 DEF InvRemove
    <3>2. QED BY <1>7, <1>11, <2>1, <3>1 DEF FreshInv, FlightsFresh
  <2>2. QED BY <1>1, <2>1 DEF FlightsFresh
<1>16. StoreFresh'
  <2>1. CASE InvRemove(i) BY <2>1 DEF InvRemove, StoreFresh, Fresh, NoEntry
  <2>2. CASE ~InvRemove(i)
    <3>1. store' = store
      BY <2>2 DEF Invalidate, InvLock, InvPublish, InvUnlock, InvFails
    <3>2. QED BY <1>8, <1>11, <2>2, <3>1 DEF FreshInv, StoreFresh
  <2>3. QED BY <2>1, <2>2
<1>17. LocalFresh' BY <1>1, <1>8 DEF FreshInv, LocalFresh
<1>18. QueuesFresh'
  <2>1. ASSUME NEW j \in Instances, NEW k \in DOMAIN queue'[j], ~Removes(queue'[j][k])
        PROVE  Follows(j, k)'
    <3>1. k \in DOMAIN queue[j] /\ queue'[j][k] = queue[j][k] BY <1>9, <1>10, <2>1
    <3>2. Follows(j, k) BY <2>1, <3>1 DEF FreshInv, QueuesFresh
    <3>3. ASSUME NEW l \in DOMAIN queue'[j], l < k PROVE l \in DOMAIN queue[j] /\ queue'[j][l] = queue[j][l]
      <4>1. CASE queue'[j] = queue[j] BY <3>3, <4>1
      <4>2. CASE queue'[j] = Append(queue[j], m)
        <5>1. queue[j] \in Seq(Messages) BY <1>5
        <5>2. l \in 1..Len(queue[j]) BY <3>1, <3>3, <4>2, <5>1
        <5>3. QED BY <1>5, <4>2, <5>1, <5>2
      <4>3. QED BY <1>2, <4>1, <4>2 DEF Broadcast
    <3>4. QED BY <1>1, <1>8, <3>1, <3>2, <3>3 DEF Follows
  <2>2. QED BY <2>1 DEF QueuesFresh
<1>19. QED BY <1>12, <1>13, <1>14, <1>15, <1>16, <1>17, <1>18 DEF FreshInv

LEMMA FreshCrash ==
  ASSUME DataInv, FreshInv, DataInv', NEW i \in Instances, Crash(i)
  PROVE  FreshInv'
<1>1. /\ UNCHANGED <<src, tainted, fence, ver, heard, outcome, data, store, invSrc>>
      /\ pending' = [pending EXCEPT ![i] = None] /\ inv' = [inv EXCEPT ![i] = "idle"]
      /\ queue' = [queue EXCEPT ![i] = <<>>] /\ cached' = [cached EXCEPT ![i] = NoEntry]
      /\ \A r \in Requests : \/ pc'[r] = pc[r]
                             \/ pc'[r] = "dead" /\ pc[r] # "idle"
  BY FreshTypes DEF Crash, RemoveLocal, callVars
<1>2. \A s \in Nat : Removed(s)' => Removed(s) BY <1>1, FreshTypes DEF Removed
<1>3. ASSUME NEW v, NEW by, NEW s PROVE Fresh(v, by, s)' <=> Fresh(v, by, s)
  BY <1>1 DEF Fresh
<1>4. \A j \in Instances : queue'[j] = queue[j] \/ queue'[j] = <<>> BY <1>1, FreshTypes
<1>5. Past' BY <1>1, <1>2 DEF FreshInv, Past
<1>6. Own' BY <1>1, <1>4 DEF FreshInv, Own
<1>7. Begun' BY <1>1, NoneAssumption DEF FreshInv, Begun, Maybe
<1>8. FlightsFresh' /\ StoreFresh'
  BY <1>1, <1>2, <1>3 DEF FreshInv, FlightsFresh, StoreFresh, MissPhases
<1>9. LocalFresh'
  <2>1. \A j \in Instances : cached'[j] \in {cached[j], NoEntry} BY <1>1, FreshTypes
  <2>2. \A r \in Requests : pc'[r] \in MissPhases => pc[r] \in MissPhases
    BY <1>1 DEF MissPhases
  <2>3. \A s : Fresh(NoEntry.val, NoEntry.by, s) BY DEF Fresh, NoEntry
  <2>4. \A j \in Instances : Fresh(cached'[j].val, cached'[j].by, fence[j])
    BY <2>1, <2>3 DEF FreshInv, LocalFresh
  <2>5. QED BY <1>1, <1>3, <2>2, <2>4 DEF FreshInv, LocalFresh
<1>10. QueuesFresh' BY <1>1, <1>3, <1>4 DEF FreshInv, QueuesFresh, Follows
<1>11. QED BY <1>5, <1>6, <1>7, <1>8, <1>9, <1>10 DEF FreshInv

(* The subscriber.  What follows a removal in the queue is fresh for it, and  *)
(* who is under way when it arrives is listed as overlapped.                  *)
LEMMA FreshReceive ==
  ASSUME DataInv, FreshInv, DataInv', NEW i \in Instances,
         ReceiveUpdate(i) \/ ReceiveInvalidation(i) \/ LoseMessage(i)
  PROVE  FreshInv'
<1> DEFINE m == Head(queue[i])
<1>1. /\ UNCHANGED <<src, pc, ver, outcome, data, pending, store, inv, invSrc>>
      /\ queue[i] # <<>> /\ queue' = [queue EXCEPT ![i] = Tail(queue[i])]
  BY DEF ReceiveUpdate, ReceiveInvalidation, LoseMessage, Received, getVars, callVars, invVars
<1>2. /\ queue \in [Instances -> Seq(Messages)] /\ pc \in [Requests -> Phases]
      /\ fence \in [Instances -> Nat] /\ tainted \subseteq Requests
      /\ cached \in [Instances -> Entries] /\ \A r \in Requests : Home[r] \in Instances
  BY FreshTypes DEF FreshInv, Past
<1>3. 1 \in DOMAIN queue[i] /\ m = queue[i][1] /\ queue[i] \in Seq(Messages) BY <1>1, <1>2
<1>4. ASSUME NEW k \in DOMAIN Tail(queue[i])
      PROVE  /\ k \in Nat /\ k + 1 \in DOMAIN queue[i] /\ k + 1 > 1
             /\ Tail(queue[i])[k] = queue[i][k + 1]
  BY <1>1, <1>3
<1>5. /\ fence' = fence /\ tainted' = tainted
      \/ /\ ReceiveInvalidation(i) /\ Removes(m) /\ fence' = [fence EXCEPT ![i] = m.src]
         /\ cached' = [cached EXCEPT ![i] = NoEntry] /\ tainted' = tainted \cup UnderWay(i)
         /\ heard' = heard
  BY DEF ReceiveUpdate, ReceiveInvalidation, LoseMessage, RemoveLocal, Removes
<1>6. tainted \subseteq tainted' /\ tainted' \subseteq Requests /\ fence' \in [Instances -> Nat]
  BY <1>2, <1>3, <1>5, FreshTypes DEF UnderWay
<1>7. ASSUME NEW v, NEW by, NEW s, Fresh(v, by, s) PROVE Fresh(v, by, s)'
  BY <1>1, <1>6, <1>7 DEF Fresh
<1>8. ASSUME NEW j \in Instances, NEW k \in DOMAIN queue'[j]
      PROVE  \/ j # i /\ queue'[j] = queue[j]
             \/ j = i /\ k \in Nat /\ k + 1 \in DOMAIN queue[i] /\ queue'[i][k] = queue[i][k + 1]
  <2>1. queue'[j] = IF j = i THEN Tail(queue[i]) ELSE queue[j] BY <1>1, <1>2
  <2>2. QED BY <1>4, <1>8, <2>1
<1>9. \A s \in Nat : Removed(s)' => Removed(s)
  <2>1. ASSUME NEW s \in Nat, NEW j \in Instances, fence'[j] = s PROVE Removed(s)
    BY <1>2, <1>3, <1>5, <2>1 DEF Removed
  <2>2. ASSUME NEW s \in Nat, NEW j \in Instances, NEW k \in DOMAIN queue'[j],
               Removes(queue'[j][k]), queue'[j][k].src = s
        PROVE  Removed(s)
    BY <1>8, <2>2 DEF Removed
  <2>3. QED BY <1>1, <2>1, <2>2 DEF Removed
<1>10. Past' BY <1>1, <1>6, <1>9 DEF FreshInv, Past
<1>11. Own' BY <1>1, <1>8 DEF FreshInv, Own
<1>12. ASSUME NEW r \in Requests
       PROVE  \/ heard'[r] = heard[r]
              \/ ReceiveUpdate(i) /\ r = pending[i] /\ heard'[r] = {m.val}
  <2>1. heard \in [Requests -> SUBSET Data] BY FreshTypes
  <2>2. CASE ReceiveUpdate(i)
    BY <2>1, <2>2 DEF ReceiveUpdate, PendingRefresh
  <2>3. CASE ReceiveInvalidation(i) \/ LoseMessage(i)
    BY <2>3 DEF ReceiveInvalidation, LoseMessage
  <2>4. QED BY <2>2, <2>3
<1>13. Begun' BY <1>1, <1>12 DEF FreshInv, Begun
<1>14. FlightsFresh' BY <1>1, <1>6, <1>9 DEF FreshInv, FlightsFresh
<1>15. StoreFresh' BY <1>1, <1>7, <1>9 DEF FreshInv, StoreFresh
<1>16. ASSUME ReceiveUpdate(i)
       PROVE  /\ ~Removes(m) /\ m.val \in {m.by, None} /\ Fresh(m.val, m.by, fence[i])
              /\ fence' = fence
  <2>1. ~Removes(m) /\ fence' = fence BY <1>16 DEF ReceiveUpdate, Removes
  <2>2. QED BY <1>3, <2>1 DEF FreshInv, Own, QueuesFresh, Follows
<1>17. ASSUME NEW j \in Instances PROVE Fresh(cached[j].val, cached[j].by, fence[j])'
  <2>1. CASE cached'[j] = cached[j] /\ fence'[j] = fence[j]
    BY <1>7, <2>1 DEF FreshInv, LocalFresh
  <2>2. CASE cached'[j] = NoEntry BY <2>2 DEF Fresh, NoEntry
  <2>3. CASE ReceiveUpdate(i) /\ j = i /\ cached'[j] = [val |-> m.val, by |-> m.by, at |-> now]
    BY <1>7, <1>16, <2>3
  <2>4. QED
    BY <1>2, <1>5, <1>16, <2>1, <2>2, <2>3
       DEF ReceiveUpdate, ReceiveInvalidation, LoseMessage, RemoveLocal
<1>18. ASSUME NEW r \in Requests, pc[r] \in MissPhases, NEW v \in heard'[r] \cup {outcome[r]}
       PROVE  Fresh(v, r, fence[Home[r]])'
  <2>1. CASE fence'[Home[r]] = fence[Home[r]] /\ v \in heard[r] \cup {outcome[r]}
    BY <1>7, <1>18, <2>1 DEF FreshInv, LocalFresh
  <2>2. CASE Home[r] = i /\ ReceiveInvalidation(i)
    <3>1. r \in tainted' BY <1>18, <2>2 DEF ReceiveInvalidation, UnderWay, MissPhases
    <3>2. QED BY <3>1 DEF Fresh
  <2>3. CASE ReceiveUpdate(i) /\ r = pending[i] /\ v = m.val
    <3>1. Home[r] = i BY <2>3 DEF FreshInv, Begun
    <3>2. Fresh(v, r, fence[i]) BY <1>16, <2>3 DEF Fresh
    <3>3. QED BY <1>7, <1>16, <2>3, <3>1, <3>2
  <2>4. fence'[Home[r]] = fence[Home[r]] \/ (Home[r] = i /\ ReceiveInvalidation(i))
    BY <1>2, <1>5
  <2>5. QED BY <1>12, <1>16, <1>18, <2>1, <2>2, <2>3, <2>4
<1>19. LocalFresh' BY <1>1, <1>17, <1>18 DEF LocalFresh
<1>20. QueuesFresh'
  <2>1. ASSUME NEW j \in Instances, NEW k \in DOMAIN queue'[j], ~Removes(queue'[j][k])
        PROVE  Follows(j, k)'
    <3>1. CASE j # i
      <4>1. queue'[j] = queue[j] /\ fence'[j] = fence[j] BY <1>2, <1>5, <1>8, <2>1, <3>1
      <4>2. Follows(j, k) BY <2>1, <4>1 DEF FreshInv, QueuesFresh
      <4>3. QED BY <1>7, <4>1, <4>2 DEF Follows
    <3>2. CASE j = i
      <4>1. k \in Nat /\ k + 1 \in DOMAIN queue[i] /\ queue'[i][k] = queue[i][k + 1]
        BY <1>8, <2>1, <3>2
      <4>2. Follows(i, k + 1) BY <2>1, <3>2, <4>1 DEF FreshInv, QueuesFresh
      <4>3. Fresh(queue'[i][k].val, queue'[i][k].by, fence'[i])
        <5>1. CASE fence'[i] = fence[i] BY <4>1, <4>2, <5>1 DEF Follows
        <5>2. CASE Removes(m) /\ fence'[i] = m.src
          <6>1. k \in DOMAIN Tail(queue[i]) BY <1>1, <1>2, <2>1, <3>2
          <6>2. 1 < k + 1 BY <1>4, <6>1
          <6>3. QED BY <1>3, <4>1, <4>2, <5>2, <6>2 DEF Follows
        <5>3. QED BY <1>2, <1>5, <5>1, <5>2
      <4>4. ASSUME NEW l \in DOMAIN queue'[i], l < k, Removes(queue'[i][l])
            PROVE  Fresh(queue'[i][k].val, queue'[i][k].by, queue'[i][l].src)
        <5>1. l \in Nat /\ l + 1 \in DOMAIN queue[i] /\ queue'[i][l] = queue[i][l + 1]
          BY <1>8, <4>4
        <5>2. l + 1 < k + 1 BY <4>1, <4>4, <5>1
        <5>3. QED BY <4>1, <4>2, <4>4, <5>1, <5>2 DEF Follows
      <4>5. QED BY <1>7, <3>2, <4>3, <4>4 DEF Follows
    <3>3. QED BY <3>1, <3>2
  <2>2. QED BY <2>1 DEF QueuesFresh
<1>21. QED BY <1>10, <1>11, <1>13, <1>14, <1>15, <1>19, <1>20 DEF FreshInv

LEMMA FreshNext == DataInv /\ FreshInv /\ [ClusterNext]_vars => FreshInv'
<1> SUFFICES ASSUME DataInv, FreshInv, [ClusterNext]_vars PROVE FreshInv' OBVIOUS
<1>1. DataInv' BY DataNext
<1>2. QED
  BY <1>1, FreshGet, FreshProgress, FreshPublish, FreshWorld, FreshInvalidate, FreshCrash,
     FreshReceive DEF ClusterNext, Progress

LEMMA FreshInit == Init => FreshInv
<1> SUFFICES ASSUME Init PROVE FreshInv OBVIOUS
<1>1. /\ src = 1 /\ tainted = {} /\ store = NoEntry
      /\ fence = [i \in Instances |-> 0] /\ invSrc = [i \in Instances |-> 0]
      /\ inv = [i \in Instances |-> "idle"] /\ queue = [i \in Instances |-> <<>>]
      /\ pending = [i \in Instances |-> None] /\ cached = [i \in Instances |-> NoEntry]
      /\ pc = [r \in Requests |-> "idle"] /\ ver = [r \in Requests |-> 0]
      /\ heard = [r \in Requests |-> {}] /\ outcome = [r \in Requests |-> None]
      /\ data = [r \in Requests |-> None]
  BY DEF Init, CacheInit
<1>2. \A s \in Nat : Removed(s) => s = 0 BY <1>1 DEF Removed
<1>3. Past BY <1>1, <1>2 DEF Past
<1>4. Own /\ Begun BY <1>1, NoneAssumption DEF Own, Begun, NoEntry, Maybe
<1>5. FlightsFresh /\ StoreFresh /\ LocalFresh
  BY <1>1 DEF FlightsFresh, StoreFresh, LocalFresh, Fresh, NoEntry, MissPhases
<1>6. QueuesFresh BY <1>1 DEF QueuesFresh
<1>7. QED BY <1>3, <1>4, <1>5, <1>6 DEF FreshInv

(* After an invalidation reached an instance, its cache holds older data only *)
(* if that datum, or the get that put it there, was under way at one of the   *)
(* removals: invalidateCache, handleIncomingInvalidationData.                 *)
THEOREM StaleOnlyFromOverlaps == ClusterSpec => []StaleOnlyFromOverlappingMiss
<1>1. DataInv /\ FreshInv => StaleOnlyFromOverlappingMiss
  <2> SUFFICES ASSUME DataInv, FreshInv, NEW i \in Instances, cached[i].val # None,
                      ver[cached[i].val] < fence[i]
               PROVE  {cached[i].val, cached[i].by} \cap tainted # {}
    BY DEF StaleOnlyFromOverlappingMiss
  <2>1. Fresh(cached[i].val, cached[i].by, fence[i]) BY DEF FreshInv, LocalFresh
  <2>2. ver[cached[i].val] \in Nat /\ fence[i] \in Nat
    BY FreshTypes DEF Data, Served, FreshInv, Past
  <2>3. QED BY <2>1, <2>2 DEF Fresh
<1>2. QED BY <1>1, FreshInit, DataInit, DataNext, FreshNext, PTL DEF ClusterSpec
------------------------------------------------------------------------------
(* The rest of what the type invariant says. *)
OtherTypes ==
  /\ callAt \in [Requests -> Nat] /\ waitsOn \in [Requests -> Maybe]
  /\ lockId \in [Instances -> Maybe] /\ invCount \in Nat
  /\ called \subseteq Requests /\ robbed \subseteq Requests /\ crashed \subseteq Instances

LEMMA OtherTypesNext == DataInv /\ OtherTypes /\ [ClusterNext]_vars => OtherTypes'
<1> SUFFICES ASSUME DataInv, OtherTypes, [ClusterNext]_vars PROVE OtherTypes' OBVIOUS
<1>1. now \in Nat /\ None \in Maybe /\ \A r \in Requests : r \in Maybe /\ Home[r] \in Instances
  BY FreshTypes DEF Maybe
<1>0. lock.by \in Requests \cup {None} BY DEF DataInv, IInv, Basics, Locks
<1>2. ASSUME NEW r \in Requests, LocalGet(r) \/ BeginMiss(r) PROVE OtherTypes'
  <2>1. UNCHANGED <<invCount, callAt, called, robbed, crashed>>
    BY <1>2 DEF LocalGet, BeginMiss, GetHit, GetJoin, JoinResolved, JoinTimeout, Answer, Serve,
       clusterVars, invVars, callVars
  <2>2. waitsOn' = waitsOn \/ waitsOn' = [waitsOn EXCEPT ![r] = LockHolder(Home[r])]
    BY <1>2 DEF LocalGet, BeginMiss, GetHit, GetJoin, JoinResolved, JoinTimeout, Answer, Serve,
       getVars
  <2>3. lockId' = lockId \/ lockId' = [lockId EXCEPT ![Home[r]] = r]
    BY <1>2 DEF LocalGet, BeginMiss, LockForMiss, GetHit, GetJoin, JoinResolved, JoinTimeout,
       Answer, Serve, getVars
  <2>4. LockHolder(Home[r]) \in Maybe BY <1>1 DEF LockHolder, OtherTypes
  <2>5. QED BY <1>1, <2>1, <2>2, <2>3, <2>4 DEF OtherTypes
<1>3. ASSUME NEW r \in Requests, CallbackReturns(r) \/ Progress(r) \/ MissFault(r)
      PROVE  OtherTypes'
  <2>1. /\ invCount' = invCount /\ waitsOn' = waitsOn
        /\ lockId' = lockId \/ lockId' = [lockId EXCEPT ![Home[r]] = None]
    BY <1>3 DEF CallbackReturns, Progress, MissFault, Subscribe, ReadStore, TryLock, HearData,
       RetryOrGiveUp, StoreObject, Unsubscribe, PublishResult, Unlock, CallbackTimesOut,
       CommandFails, UnlockFails, ReturnOutcome, FinishMiss, getRest, invVars, clusterVars, okVars
  <2>2. \/ callAt' = callAt
        \/ \E t \in {0, now} : callAt' = [callAt EXCEPT ![r] = t]
    BY <1>3 DEF CallbackReturns, Progress, MissFault, Subscribe, ReadStore, TryLock, HearData,
       RetryOrGiveUp, StoreObject, Unsubscribe, PublishResult, Unlock, CallbackTimesOut,
       CommandFails, UnlockFails, StartCallback, callVars
  <2>3. /\ called' = called \/ called' = called \cup {r}
        /\ robbed' = robbed \/ robbed' = robbed \cup ({lock.by} \ {r, None})
        /\ crashed' = crashed
    BY <1>3 DEF CallbackReturns, Progress, MissFault, Subscribe, ReadStore, TryLock, HearData,
       RetryOrGiveUp, StoreObject, Unsubscribe, PublishResult, Unlock, CallbackTimesOut,
       CommandFails, UnlockFails, StartCallback, callVars, Release, clusterVars, okVars
  <2>4. QED BY <1>0, <1>1, <2>1, <2>2, <2>3 DEF OtherTypes
<1>4. ASSUME NEW i \in Instances,
             \/ Invalidate(i) \/ Crash(i)
             \/ ReceiveUpdate(i) \/ ReceiveInvalidation(i) \/ LoseMessage(i)
      PROVE  OtherTypes'
  <2>1. /\ callAt' = callAt /\ waitsOn' = waitsOn
        /\ lockId' = lockId \/ lockId' = [lockId EXCEPT ![i] = None]
        /\ invCount' = invCount \/ invCount' = invCount + 1
    BY <1>4 DEF Invalidate, InvLock, InvRemove, InvPublish, InvUnlock, InvFails, InvStep, Crash,
       ReceiveUpdate, ReceiveInvalidation, LoseMessage, Received, getVars, callVars, invVars
  <2>2. /\ called' = called
        /\ robbed' = robbed \/ robbed' = robbed \cup ({lock.by} \ {None})
        /\ crashed' = crashed \/ crashed' = crashed \cup {i}
    BY <1>4 DEF Invalidate, InvLock, InvRemove, InvPublish, InvUnlock, InvFails, InvStep, Crash,
       ReceiveUpdate, ReceiveInvalidation, LoseMessage, Received, callVars, Release
  <2>3. QED BY <1>0, <1>1, <2>1, <2>2 DEF OtherTypes
<1>5. ASSUME World \/ UNCHANGED vars PROVE OtherTypes'
  BY <1>5 DEF World, SourceChanges, Tick, vars, cacheVars, clusterVars, getVars, callVars,
     invVars, OtherTypes
<1>6. QED BY <1>2, <1>3, <1>4, <1>5 DEF ClusterNext

(* The types of all variables of the clustered cache. *)
THEOREM ClusterTyping == ClusterSpec => []ClusterTypeOK
<1>1. ASSUME Init PROVE OtherTypes
  BY <1>1 DEF Init, CacheInit, OtherTypes, Maybe
<1>2. DataInv /\ Told /\ FreshInv /\ OtherTypes => ClusterTypeOK
  <2> SUFFICES ASSUME DataInv, Told, FreshInv, OtherTypes PROVE ClusterTypeOK OBVIOUS
  <2>1. Data \subseteq Maybe /\ Entries \subseteq Entry /\ Messages \subseteq Message
    BY DEF Data, Served, Maybe, Entries, Entry, Messages, Message
  <2>2. Seq(Messages) \subseteq Seq(Message) BY <2>1
  <2>3. IInv /\ LocalData /\ SharedData BY DEF DataInv
  <2>4. /\ now \in Nat /\ src \in Nat /\ pc \in [Requests -> Phases]
        /\ startedAt \in [Requests -> Nat] /\ callAt \in [Requests -> Nat]
        /\ ver \in [Requests -> Nat] /\ waitsOn \in [Requests -> Maybe]
        /\ lockId \in [Instances -> Maybe] /\ fence \in [Instances -> Nat]
        /\ invSrc \in [Instances -> Nat] /\ invCount \in Nat
        /\ lock \in Locks(Instances \cup {DeadClient}, Requests)
        /\ pending \in [Instances -> Maybe] /\ leaseEnd \in [Requests -> Nat]
        /\ inv \in [Instances -> {"idle", "locked", "removed", "published"}]
    BY <2>3 DEF IInv, Basics, LocalData, SharedData, OtherTypes, FreshInv, Past, Begun
  <2>5. /\ result \in [Requests -> Maybe] /\ outcome \in [Requests -> Maybe]
        /\ data \in [Requests -> Maybe] /\ heard \in [Requests -> SUBSET Maybe]
        /\ cached \in [Instances -> Entry] /\ store \in Entry
        /\ queue \in [Instances -> Seq(Message)]
    BY <2>1, <2>2, <2>3 DEF LocalData, SharedData
  <2>6. /\ called \in SUBSET Requests /\ resolved \in SUBSET Requests
        /\ tainted \in SUBSET Requests /\ hasLock \in SUBSET Requests
        /\ robbed \in SUBSET Requests /\ crashed \in SUBSET Instances /\ failed \in Nat
        /\ listeners \in [Instances -> SUBSET Requests] /\ wrapped \in [Instances -> Maybe]
    BY <2>3 DEF OtherTypes, LocalData, FreshInv, Past, IInv, Basics, Told
  <2>7. QED BY <2>4, <2>5, <2>6 DEF ClusterTypeOK
<1>3. QED
  BY <1>1, <1>2, ToldInit, FreshInit, DataInit, ToldNext, DataNext, FreshNext, OtherTypesNext,
     PTL DEF ClusterSpec
=============================================================================
