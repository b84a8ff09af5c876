-------------------------- MODULE ClusterKeys_proofs --------------------------
(***************************************************************************)
(* The rotations of the signing keys, for any number of nodes and jobs,    *)
(* any delays that are in the order of the code's, and any faults.         *)
(***************************************************************************)
EXTENDS ClusterKeys, SequenceTheorems, TLAPS

K == KeySets(MaxKeys)

Steps == {"idle", "locking", "reading", "warning", "storing",
          "cancelling", "publishing", "unlocking", "failing", "done"}

Events == {"nothing", "heartbeat", "start", "finish", "fatal"}

Read == [why : {"init", "pending", "refresh"}, val : K]

ATimer == [kind : {"pending", "refresh", "final"}, at : Nat, proc : Procs \cup {None}]

Message == [event : {"pending", "cancel", "new"}, proc : Procs, keys : K, end : Nat]

RedisTyped ==
  /\ now \in Nat /\ lock \in Locks(Nodes, Procs) /\ store \in K /\ queue \in [Nodes -> Seq(Message)]
NodesTyped ==
  /\ status \in [Nodes -> {"down", "starting", "up", "dead"}] /\ keys \in [Nodes -> K]
  /\ reads \in [Nodes -> SUBSET Read] /\ timers \in [Nodes -> SUBSET ATimer]
CallsTyped ==
  /\ step \in [Procs -> Steps] /\ made \in [Procs -> K] /\ endOfLock \in [Procs -> Nat]
  /\ attempts \in [Nodes -> Nat] /\ nextKey \in 1..(MaxKeys + 1)
HistTyped ==
  /\ lost \subseteq Nodes /\ between \subseteq Nodes /\ raced \subseteq Nodes /\ overrun \in BOOLEAN
JobsTyped ==
  /\ heard \in [Jobs -> [event : Events, key : 0..MaxKeys]]
  /\ refused \subseteq Procs /\ rejected \subseteq Procs

Typed == RedisTyped /\ NodesTyped /\ CallsTyped /\ HistTyped /\ JobsTyped

-----------------------------------------------------------------------------
(* The operators of the model. *)
LEMMA Constants ==
  /\ LockTtl \in Nat /\ StartDelay \in Nat /\ PrevExpiry \in Nat /\ MillisAsSecs \in Nat
  /\ MaxStartDelay \in Nat /\ MaxPrevExpiry \in Nat /\ MaxTime \in Nat /\ MaxKeys \in Nat
  /\ MaxAttempts \in Nat /\ None \notin Procs
  /\ \A p \in Procs : NodeOf(p) \in Nodes
  /\ \A j \in Jobs : j \in Procs /\ j \notin Nodes /\ NodeOf(j) = At[j] /\ At[j] \in Nodes
  /\ \A n \in Nodes : n \in Procs /\ n \notin Jobs /\ NodeOf(n) = n
BY KeysAssumption DEF Procs, NodeOf

LEMMA KeyTypes ==
  /\ NoKeys \in K
  /\ \A key \in 0..MaxKeys : FirstKeys(key) \in K
  /\ \A k \in K, key \in 0..MaxKeys, t \in Nat : Rotated(k, key, t) \in K
<1>1. MaxKeys \in Nat /\ StartDelay \in Nat /\ PrevExpiry \in Nat
  BY Constants
<1>2. \A key \in 0..MaxKeys : FirstKeys(key) \in K
  BY <1>1 DEF K, KeySets, FirstKeys, NoKeys
<1>3. ASSUME NEW k \in K, NEW key \in 0..MaxKeys, NEW t \in Nat
      PROVE  Rotated(k, key, t) \in K
  <2>1. CASE k = NoKeys
    BY <1>2, <2>1 DEF Rotated
  <2>2. CASE k # NoKeys
    BY <1>1, <2>2 DEF Rotated, K, KeySets
  <2>3. QED  BY <2>1, <2>2
<1>4. QED  BY <1>1, <1>2, <1>3 DEF K, KeySets, NoKeys

LEMMA LockTypes ==
  /\ NoLock \in Locks(Nodes, Procs)
  /\ \A p \in Procs, t \in Nat : ForceLock(NodeOf(p), p, t) \in Locks(Nodes, Procs)
  /\ \A l \in Locks(Nodes, Procs), p \in Procs, t \in Nat :
       Unlocked(l, NodeOf(p), t) \in Locks(Nodes, Procs)
BY Constants DEF NoLock, Locks, ForceLock, Unlocked

LEMMA MessageTypes ==
  ASSUME Typed, NEW p \in Procs, NEW k \in K, NEW e \in {"pending", "cancel", "new"}
  PROVE  Msg(e, p, k) \in Message
BY DEF Typed, CallsTyped, Msg, Message

LEMMA BroadcastTypes ==
  ASSUME Typed, NEW m \in Message, Broadcast(m)
  PROVE  queue' \in [Nodes -> Seq(Message)]
<1>1. \A n \in Nodes : queue[n] \in Seq(Message) /\ Append(queue[n], m) \in Seq(Message)
  BY AppendProperties DEF Typed, RedisTyped
<1>2. QED  BY <1>1 DEF Broadcast

LEMMA ReadTypes ==
  ASSUME Typed, NEW n \in Nodes, NEW why \in {"init", "pending", "refresh"}, ReadStore(n, why)
  PROVE  reads' \in [Nodes -> SUBSET Read]
<1>1. [why |-> why, val |-> store] \in Read
  BY DEF Typed, RedisTyped, Read
<1>2. QED  BY <1>1 DEF ReadStore, Typed, NodesTyped

LEMMA TimerTypes ==
  ASSUME Typed
  PROVE  /\ \A kind \in {"pending", "refresh", "final"}, t \in Nat, p \in Procs \cup {None} :
              Timer(kind, t, p) \in ATimer
         /\ \A k \in K : StartTimer(k) \in ATimer
<1>1. \A kind \in {"pending", "refresh", "final"}, t \in Nat, p \in Procs \cup {None} :
        Timer(kind, t, p) \in ATimer
  BY DEF Timer, ATimer
<1>2. ASSUME NEW k \in K  PROVE StartTimer(k) \in ATimer
  <2>1. now \in Nat /\ MaxTime \in Nat /\ MillisAsSecs \in Nat
    BY Constants DEF Typed, RedisTyped
  <2> DEFINE t == now + (IF k.start = 0 THEN 0 ELSE MillisAsSecs)
             u == IF t > MaxTime THEN MaxTime + 1 ELSE t
  <2>2. t \in Nat
    BY <2>1
  <2>3. u \in Nat
    BY <2>1, <2>2
  <2>4. StartTimer(k) = Timer("refresh", u, None)
    BY DEF StartTimer
  <2> HIDE DEF u
  <2>5. QED  BY <1>1, <2>3, <2>4
<1>3. QED  BY <1>1, <1>2
LEMMA Unchanged ==
  ASSUME Typed
  PROVE  /\ UNCHANGED redisVars => RedisTyped'
         /\ UNCHANGED nodeVars => NodesTyped'
         /\ UNCHANGED procVars => CallsTyped'
         /\ UNCHANGED histVars => HistTyped'
         /\ UNCHANGED jobVars => JobsTyped'
BY DEF Typed, RedisTyped, NodesTyped, CallsTyped, HistTyped, JobsTyped,
       redisVars, nodeVars, procVars, histVars, jobVars

LEMMA StepTypes ==
  ASSUME Typed, NEW p \in Procs, NEW to \in Steps, To(p, to)
  PROVE  step' \in [Procs -> Steps]
BY DEF To, Typed, CallsTyped

LEMMA OverrunTypes ==
  ASSUME Typed, NEW p \in Procs, Overrun(p)
  PROVE  overrun' \in BOOLEAN
BY DEF Overrun, Typed, HistTyped

LEMMA ReportTypes ==
  ASSUME Typed, NEW p \in Procs, NEW event \in Events, Reports(p, event)
  PROVE  heard' \in [Jobs -> [event : Events, key : 0..MaxKeys]]
<1>1. \A j \in Jobs : heard[j] \in [event : Events, key : 0..MaxKeys]
  BY DEF Typed, JobsTyped
<1>2. \A j \in Jobs : [heard[j] EXCEPT !.event = event] \in [event : Events, key : 0..MaxKeys]
  BY <1>1
<1>3. QED  BY <1>1, <1>2 DEF Reports

LEMMA ReturnTypes ==
  ASSUME Typed, NEW p \in Procs, NEW k \in K, Return(p, k)
  PROVE  /\ step' \in [Procs -> Steps] /\ status' \in [Nodes -> {"down", "starting", "up", "dead"}]
         /\ keys' \in [Nodes -> K] /\ reads' \in [Nodes -> SUBSET Read] /\ attempts' \in [Nodes -> Nat]
<1>1. NodesTyped /\ CallsTyped /\ NoKeys \in K
  BY KeyTypes DEF Typed
<1>2. CASE p \in Jobs
  BY <1>1, <1>2, StepTypes DEF Return, NodesTyped, CallsTyped, Steps
<1>3. CASE p \notin Jobs
  <2>1. p \in Nodes /\ attempts' = [attempts EXCEPT ![p] = IF k = NoKeys THEN @ + 1 ELSE 0]
    BY <1>3 DEF Procs, Return
  <2>2. attempts' \in [Nodes -> Nat]
    BY <1>1, <2>1 DEF CallsTyped
  <2>3. CASE k # NoKeys
    <3>1. To(p, "done") /\ Keyed(p, k) /\ UNCHANGED reads
      BY <1>3, <2>3 DEF Return
    <3>2. QED  BY <1>1, <2>1, <2>2, <3>1, StepTypes DEF Keyed, NodesTyped, CallsTyped, Steps
  <2>4. CASE k = NoKeys
    <3>1. /\ keys' = [keys EXCEPT ![p] = NoKeys] /\ To(p, "idle")
          /\ \/ ReadStore(p, "init") /\ UNCHANGED status
             \/ status' = [status EXCEPT ![p] = "dead"] /\ UNCHANGED reads
      BY <1>3, <2>4 DEF Return
    <3>2. reads' \in [Nodes -> SUBSET Read]
      BY <1>1, <2>1, <3>1, ReadTypes DEF NodesTyped
    <3>3. QED  BY <1>1, <2>1, <2>2, <3>1, <3>2, StepTypes DEF NodesTyped, CallsTyped, Steps
  <2>5. QED  BY <2>3, <2>4
<1>4. QED  BY <1>2, <1>3

(* A call changes what it knows. *)
LEMMA CallTypes ==
  ASSUME Typed, step' \in [Procs -> Steps],
         made' = made \/ \E p \in Procs : \E k \in K : made' = [made EXCEPT ![p] = k],
         endOfLock' = endOfLock \/ \E p \in Procs : \E t \in Nat : endOfLock' = [endOfLock EXCEPT ![p] = t],
         attempts' \in [Nodes -> Nat], nextKey' \in 1..(MaxKeys + 1)
  PROVE  CallsTyped'
BY DEF Typed, CallsTyped

LEMMA ForgetTypes ==
  ASSUME Typed, NEW p \in Procs, Forget(p)
  PROVE  /\ made' = made \/ \E q \in Procs : \E k \in K : made' = [made EXCEPT ![q] = k]
         /\ endOfLock' = endOfLock \/ \E q \in Procs : \E t \in Nat : endOfLock' = [endOfLock EXCEPT ![q] = t]
BY KeyTypes DEF Forget

LEMMA GenerateTypes ==
  ASSUME Typed, NEW p \in Procs, Generate(p)
  PROVE  Typed'
<1>1. /\ RedisTyped /\ NodesTyped /\ CallsTyped /\ HistTyped /\ JobsTyped
      /\ NodeOf(p) \in Nodes /\ NoKeys \in K /\ made[p] \in K /\ lock \in Locks(Nodes, Procs)
      /\ now \in Nat /\ LockTtl \in Nat /\ MaxKeys \in Nat
  BY Constants, KeyTypes DEF Typed, CallsTyped, RedisTyped
<1>2. ASSUME NEW from \in Steps, NEW to \in Steps, Step(p, from, to), nextKey' = nextKey,
             made' = made \/ \E k \in K : made' = [made EXCEPT ![p] = k]
      PROVE  CallsTyped'
  <2>1. step' \in [Procs -> Steps] /\ endOfLock' = endOfLock /\ attempts' = attempts
    BY <1>2, StepTypes DEF Step
  <2>2. QED  BY <1>1, <1>2, <2>1, CallTypes DEF CallsTyped
<1>3. CASE GetLock(p)
  <2>1. CallsTyped'
    BY <1>2, <1>3 DEF GetLock, Steps
  <2>2. JobsTyped'
    BY <1>1, <1>3, ReportTypes DEF GetLock, Step, JobsTyped, Events
  <2>3. RedisTyped' /\ NodesTyped' /\ HistTyped'
    BY <1>1, <1>3, LockTypes DEF GetLock, Step, RedisTyped, NodesTyped, HistTyped
  <2>4. QED  BY <2>1, <2>2, <2>3 DEF Typed
<1>4. CASE NoLockForUs(p)
  <2>1. NodesTyped' /\ step' \in [Procs -> Steps] /\ attempts' \in [Nodes -> Nat]
    BY <1>1, <1>4, ReturnTypes DEF NoLockForUs, NodesTyped
  <2>2. CallsTyped'
    BY <1>1, <1>4, <2>1, ForgetTypes, CallTypes DEF NoLockForUs, CallsTyped
  <2>3. JobsTyped'
    BY <1>1, <1>4, ReportTypes DEF NoLockForUs, JobsTyped, Events
  <2>4. RedisTyped' /\ HistTyped'
    BY <1>4, Unchanged DEF NoLockForUs
  <2>5. QED  BY <2>1, <2>2, <2>3, <2>4 DEF Typed
<1>5. CASE ReadKeys(p)
  <2>1. RedisTyped' /\ NodesTyped' /\ HistTyped'
    BY <1>1, <1>5 DEF ReadKeys, Step, RedisTyped, NodesTyped, HistTyped
  <2>2. CASE /\ MayRotate(store, now) /\ nextKey <= MaxKeys
             /\ Step(p, "reading", IF store = NoKeys THEN "storing" ELSE "warning")
             /\ made' = [made EXCEPT ![p] = Rotated(store, nextKey, now)]
             /\ nextKey' = nextKey + 1
             /\ UNCHANGED <<heard, refused>>
    <3>1. Rotated(store, nextKey, now) \in K /\ nextKey' \in 1..(MaxKeys + 1)
      BY <1>1, <2>2, KeyTypes DEF RedisTyped, CallsTyped
    <3>2. step' \in [Procs -> Steps] /\ endOfLock' = endOfLock /\ attempts' = attempts /\ rejected' = rejected
      BY <2>2, StepTypes DEF Step, Steps
    <3>3. CallsTyped'
      BY <1>1, <2>2, <3>1, <3>2, CallTypes DEF CallsTyped
    <3>4. JobsTyped'
      BY <1>1, <2>2, <3>2 DEF JobsTyped
    <3>5. QED  BY <2>1, <3>3, <3>4 DEF Typed
  <2>3. CASE /\ Step(p, "reading", "unlocking") /\ Reports(p, "fatal")
             /\ UNCHANGED <<made, nextKey, refused>>
    <3>1. CallsTyped'
      BY <1>2, <2>3 DEF Steps
    <3>2. JobsTyped'
      BY <1>1, <2>3, ReportTypes DEF Step, JobsTyped, Events
    <3>3. QED  BY <2>1, <3>1, <3>2 DEF Typed
  <2>4. QED  BY <1>5, <2>2, <2>3 DEF ReadKeys
<1>6. CASE PublishPending(p)
  <2>1. CallsTyped'
    BY <1>2, <1>6 DEF PublishPending, Steps
  <2>2. queue' \in [Nodes -> Seq(Message)]
    BY <1>1, <1>6, MessageTypes, BroadcastTypes DEF PublishPending
  <2>3. RedisTyped' /\ NodesTyped' /\ HistTyped' /\ JobsTyped'
    BY <1>1, <1>6, <2>2 DEF PublishPending, Step, RedisTyped, NodesTyped, HistTyped, JobsTyped
  <2>4. QED  BY <2>1, <2>3 DEF Typed
<1>7. CASE StoreKeys(p)
  <2>1. CallsTyped'
    BY <1>2, <1>7 DEF StoreKeys, Steps
  <2>2. HistTyped'
    BY <1>1, <1>7, OverrunTypes DEF StoreKeys, Step, HistTyped, Overtaken
  <2>3. JobsTyped'
    <3>1. \A j \in Jobs : heard[j] \in [event : Events, key : 0..MaxKeys] /\ made[p].cur \in 0..MaxKeys
      BY <1>1 DEF JobsTyped, K, KeySets
    <3>2. \A j \in Jobs : [heard[j] EXCEPT !.key = made[p].cur] \in [event : Events, key : 0..MaxKeys]
      BY <3>1
    <3>3. heard' \in [Jobs -> [event : Events, key : 0..MaxKeys]]
      BY <1>7, <3>1, <3>2 DEF StoreKeys
    <3>4. QED  BY <1>1, <1>7, <3>3 DEF StoreKeys, Step, JobsTyped
  <2>4. RedisTyped' /\ NodesTyped'
    BY <1>1, <1>7 DEF StoreKeys, Step, RedisTyped, NodesTyped
  <2>5. QED  BY <2>1, <2>2, <2>3, <2>4 DEF Typed
<1>8. CASE StoreRefused(p)
  <2>1. CallsTyped'
    BY <1>1, <1>2, <1>8 DEF StoreRefused, Steps
  <2>2. RedisTyped' /\ NodesTyped' /\ HistTyped' /\ JobsTyped'
    BY <1>1, <1>8 DEF StoreRefused, Step, RedisTyped, NodesTyped, HistTyped, JobsTyped
  <2>3. QED  BY <2>1, <2>2 DEF Typed
<1>9. CASE PublishCancel(p)
  <2>1. CallsTyped'
    BY <1>2, <1>9 DEF PublishCancel, Steps
  <2>2. queue' \in [Nodes -> Seq(Message)]
    BY <1>1, <1>9, MessageTypes, BroadcastTypes DEF PublishCancel
  <2>3. RedisTyped' /\ NodesTyped' /\ HistTyped' /\ JobsTyped'
    BY <1>1, <1>9, <2>2 DEF PublishCancel, Step, RedisTyped, NodesTyped, HistTyped, JobsTyped
  <2>4. QED  BY <2>1, <2>3 DEF Typed
<1>10. CASE PublishNew(p)
  <2>1. CallsTyped'
    BY <1>2, <1>10 DEF PublishNew, Steps
  <2>2. queue' \in [Nodes -> Seq(Message)]
    BY <1>1, <1>10, MessageTypes, BroadcastTypes DEF PublishNew
  <2>3. timers' \in [Nodes -> SUBSET ATimer]
    <3> DEFINE t == IF made[p].start = 0 THEN now ELSE made[p].start
               new(n) == {Timer("final", t, j) : j \in IF n = NodeOf(p) THEN Jobs \cap {p} ELSE {}}
    <3>1. t \in Nat
      BY <1>1 DEF K, KeySets
    <3>2. \A j \in Jobs : Timer("final", t, j) \in ATimer
      BY <3>1, TimerTypes, Constants
    <3>3. \A n \in Nodes : new(n) \subseteq ATimer
      BY <3>2
    <3>4. timers' = [n \in Nodes |-> timers[n] \cup new(n)]
      BY <1>10 DEF PublishNew, AwaitStart
    <3> HIDE DEF new
    <3>5. \A n \in Nodes : timers[n] \cup new(n) \in SUBSET ATimer
      BY <1>1, <3>3 DEF NodesTyped
    <3>6. QED  BY <3>4, <3>5
  <2>4. HistTyped'
    BY <1>1, <1>10, OverrunTypes DEF PublishNew, Step, HistTyped
  <2>5. RedisTyped' /\ NodesTyped' /\ JobsTyped'
    BY <1>1, <1>10, <2>2, <2>3 DEF PublishNew, Step, RedisTyped, NodesTyped, JobsTyped
  <2>6. QED  BY <2>1, <2>4, <2>5 DEF Typed
<1>11. CASE UnlockKeys(p)
  <2>1. NodesTyped' /\ step' \in [Procs -> Steps] /\ attempts' \in [Nodes -> Nat]
    BY <1>1, <1>11, ReturnTypes DEF UnlockKeys, NodesTyped
  <2>2. CallsTyped'
    BY <1>1, <1>11, <2>1, ForgetTypes, CallTypes DEF UnlockKeys, CallsTyped
  <2>3. RedisTyped'
    BY <1>1, <1>11, LockTypes DEF UnlockKeys, RedisTyped
  <2>4. HistTyped' /\ JobsTyped'
    BY <1>11, Unchanged DEF UnlockKeys
  <2>5. QED  BY <2>1, <2>2, <2>3, <2>4 DEF Typed
<1>12. CASE UnlockAndThrow(p)
  <2>1. NodesTyped' /\ step' \in [Procs -> Steps] /\ attempts' = attempts
    BY <1>1, <1>12, StepTypes DEF UnlockAndThrow, Throw, NodesTyped, Steps
  <2>2. CallsTyped'
    BY <1>1, <1>12, <2>1, ForgetTypes, CallTypes DEF UnlockAndThrow, Throw, CallsTyped
  <2>3. RedisTyped'
    BY <1>1, <1>12, LockTypes DEF UnlockAndThrow, RedisTyped
  <2>4. HistTyped' /\ JobsTyped'
    BY <1>12, Unchanged DEF UnlockAndThrow
  <2>5. QED  BY <2>1, <2>2, <2>3, <2>4 DEF Typed
<1>13. QED
  BY <1>3, <1>4, <1>5, <1>6, <1>7, <1>8, <1>9, <1>10, <1>11, <1>12 DEF Generate
LEMMA TypedInit ==
  ASSUME Init  PROVE Typed
<1>1. /\ NoKeys \in K /\ NoLock \in Locks(Nodes, Procs) /\ MaxKeys \in Nat
      /\ \A f \in Found : f \in {"nothing", "first", "rotated"}
  BY KeyTypes, LockTypes, Constants, KeysAssumption
<1>2. PICK f \in Found :
        /\ store = CASE f = "nothing" -> NoKeys
                     [] f = "first"   -> FirstKeys(1)
                     [] f = "rotated" -> [cur |-> 2, start |-> 1, prev |-> 1, exp |-> 2]
        /\ nextKey = store.cur + 1
  BY DEF Init
<1>3. store \in K /\ nextKey \in 1..(MaxKeys + 1)
  <2>1. MaxKeys >= (IF f = "nothing" THEN 0 ELSE IF f = "first" THEN 1 ELSE 2)
    BY DelaysAssumption
  <2>2. CASE f = "nothing"
    BY <1>1, <1>2, <2>2 DEF NoKeys
  <2>3. CASE f = "first"
    <3>1. store = FirstKeys(1) /\ MaxKeys >= 1
      BY <1>2, <2>1, <2>3
    <3>2. FirstKeys(1) \in K
      BY <1>1, <3>1, KeyTypes
    <3>3. FirstKeys(1).cur = 1
      BY DEF FirstKeys, NoKeys
    <3>4. QED  BY <1>1, <1>2, <3>1, <3>2, <3>3
  <2>4. CASE f = "rotated"
    <3>1. store = [cur |-> 2, start |-> 1, prev |-> 1, exp |-> 2] /\ MaxKeys >= 2
      BY <1>2, <2>1, <2>4
    <3>2. store \in K
      BY <1>1, <3>1 DEF K, KeySets
    <3>3. QED  BY <1>1, <1>2, <3>1, <3>2
  <2>5. QED  BY <1>1, <2>2, <2>3, <2>4
<1>4. RedisTyped
  <2>1. queue = [n \in Nodes |-> <<>>] /\ now = 2 /\ lock = NoLock
    BY DEF Init
  <2>2. <<>> \in Seq(Message)
    OBVIOUS
  <2>3. QED  BY <1>1, <1>3, <2>1, <2>2 DEF RedisTyped
<1>5. NodesTyped
  BY <1>1 DEF Init, NodesTyped
<1>6. CallsTyped
  BY <1>1, <1>3 DEF Init, CallsTyped, Steps
<1>7. HistTyped /\ JobsTyped
  <2>1. [event |-> "nothing", key |-> 0] \in [event : Events, key : 0..MaxKeys]
    BY <1>1 DEF Events
  <2>2. heard \in [Jobs -> [event : Events, key : 0..MaxKeys]]
    BY <2>1 DEF Init
  <2>3. QED  BY <2>2 DEF Init, HistTyped, JobsTyped
<1>8. QED  BY <1>4, <1>5, <1>6, <1>7 DEF Typed

LEMMA ReceiveTypes ==
  ASSUME Typed, NEW n \in Nodes, queue[n] # <<>>
  PROVE  /\ Head(queue[n]) \in Message /\ Tail(queue[n]) \in Seq(Message)
         /\ [queue EXCEPT ![n] = Tail(@)] \in [Nodes -> Seq(Message)]
<1>1. queue \in [Nodes -> Seq(Message)] /\ queue[n] \in Seq(Message)
  BY DEF Typed, RedisTyped
<1>2. Head(queue[n]) \in Message /\ Tail(queue[n]) \in Seq(Message)
  BY <1>1, HeadTailProperties
<1>3. QED  BY <1>1, <1>2

LEMMA NodeTypes ==
  ASSUME Typed, NEW n \in Nodes, StartNode(n) \/ NodeStep(n)
  PROVE  Typed'
<1>1. /\ RedisTyped /\ NodesTyped /\ CallsTyped /\ HistTyped /\ JobsTyped
      /\ NoKeys \in K /\ now \in Nat /\ LockTtl \in Nat /\ n \in Procs /\ None \notin Procs
      /\ \A rd \in reads[n] : rd \in Read /\ rd.val \in K
      /\ \A t \in timers[n] : t \in ATimer
  BY Constants, KeyTypes DEF Typed, RedisTyped, NodesTyped, Read
<1>2. ASSUME NEW event \in {"pending", "cancel", "new"}, Received(n, event)
      PROVE  /\ RedisTyped' /\ CallsTyped' /\ JobsTyped' /\ Head(queue[n]) \in Message
             /\ status' = status /\ reads' = reads /\ lost' = lost /\ between' = between /\ overrun' = overrun
  BY <1>1, <1>2, ReceiveTypes DEF Received, RedisTyped, CallsTyped, JobsTyped, procVars, jobVars
<1>3. CASE StartNode(n)
  <2>1. NodesTyped'
    BY <1>1, <1>3, ReadTypes DEF StartNode, NodesTyped
  <2>2. HistTyped'
    BY <1>1, <1>3 DEF StartNode, HistTyped
  <2>3. RedisTyped' /\ CallsTyped' /\ JobsTyped'
    BY <1>3, Unchanged DEF StartNode
  <2>4. QED  BY <2>1, <2>2, <2>3 DEF Typed
<1>4. CASE ReplyToStart(n)
  <2>1. PICK rd \in reads[n] :
          /\ Reply(n, rd) /\ UNCHANGED <<timers, raced>>
          /\ \/ Keyed(n, rd.val) /\ UNCHANGED <<step, endOfLock>>
             \/ keys' = [keys EXCEPT ![n] = NoKeys] /\ Begin(n) /\ UNCHANGED status
    BY <1>4 DEF ReplyToStart
  <2>2. NodesTyped'
    BY <1>1, <2>1 DEF Reply, Keyed, NodesTyped
  <2>3. CallsTyped'
    <3>1. step' \in [Procs -> Steps]
      BY <1>1, <2>1, StepTypes DEF Begin, Steps, CallsTyped
    <3>2. QED  BY <1>1, <2>1, <3>1 DEF Reply, Begin, CallsTyped
  <2>4. RedisTyped' /\ HistTyped' /\ JobsTyped'
    BY <1>1, <2>1, Unchanged DEF Reply, HistTyped
  <2>5. QED  BY <2>2, <2>3, <2>4 DEF Typed
<1>5. CASE ReplyToTimer(n)
  <2>1. PICK rd \in reads[n] :
          /\ Reply(n, rd) /\ UNCHANGED <<status, step, endOfLock>>
          /\ keys' = IF rd.val # NoKeys THEN [keys EXCEPT ![n] = rd.val] ELSE keys
          /\ AddTimer(n, StartTimer(rd.val)) \/ UNCHANGED timers
          /\ raced' = IF InCall(n) /\ rd.val # NoKeys THEN raced \cup {n} ELSE raced
    BY <1>5 DEF ReplyToTimer
  <2>2. NodesTyped'
    <3>1. timers' \in [Nodes -> SUBSET ATimer]
      BY <1>1, <2>1, TimerTypes DEF AddTimer, NodesTyped
    <3>2. QED  BY <1>1, <2>1, <3>1 DEF Reply, NodesTyped
  <2>3. CallsTyped'
    BY <1>1, <2>1 DEF Reply, CallsTyped
  <2>4. HistTyped'
    BY <1>1, <2>1 DEF Reply, HistTyped
  <2>5. RedisTyped' /\ JobsTyped'
    BY <1>1, <2>1, Unchanged DEF Reply
  <2>6. QED  BY <2>2, <2>3, <2>4, <2>5 DEF Typed
<1>6. CASE FireRead(n)
  <2>1. PICK t \in timers[n] : Fire(n, t) /\ ReadStore(n, t.kind) /\ UNCHANGED heard
                               /\ t.kind \in {"pending", "refresh"}
    BY <1>6 DEF FireRead
  <2>2. NodesTyped'
    BY <1>1, <2>1, ReadTypes DEF Fire, NodesTyped
  <2>3. JobsTyped'
    BY <1>1, <2>1 DEF Fire, JobsTyped
  <2>4. RedisTyped' /\ CallsTyped' /\ HistTyped'
    BY <2>1, Unchanged DEF Fire
  <2>5. QED  BY <2>2, <2>3, <2>4 DEF Typed
<1>7. CASE FireFinal(n)
  <2>1. PICK t \in timers[n] : Fire(n, t) /\ Reports(t.proc, "finish") /\ UNCHANGED reads
    BY <1>7 DEF FireFinal
  <2>2. NodesTyped'
    BY <1>1, <2>1 DEF Fire, NodesTyped
  <2>3. JobsTyped'
    <3>1. \A j \in Jobs : heard[j] \in [event : Events, key : 0..MaxKeys]
      BY <1>1 DEF JobsTyped
    <3>2. \A j \in Jobs : [heard[j] EXCEPT !.event = "finish"] \in [event : Events, key : 0..MaxKeys]
      BY <3>1 DEF Events
    <3>3. QED  BY <1>1, <2>1, <3>1, <3>2 DEF Reports, Fire, JobsTyped
  <2>4. RedisTyped' /\ CallsTyped' /\ HistTyped'
    BY <2>1, Unchanged DEF Fire
  <2>5. QED  BY <2>2, <2>3, <2>4 DEF Typed
<1>8. CASE ReceivePending(n)
  <2> DEFINE m == Head(queue[n])
  <2>1. /\ Received(n, "pending") /\ UNCHANGED <<keys, raced>>
        /\ AddTimer(n, Timer("pending", m.end, m.proc))
    BY <1>8 DEF ReceivePending
  <2>2. m.end \in Nat /\ m.proc \in Procs
    BY <1>2, <2>1 DEF Message
  <2>3. NodesTyped' /\ HistTyped'
    BY <1>1, <1>2, <2>1, <2>2, TimerTypes DEF AddTimer, NodesTyped, HistTyped
  <2>4. QED  BY <1>2, <2>1, <2>3 DEF Typed
<1>9. CASE ReceiveCancel(n)
  <2>1. /\ Received(n, "cancel") /\ UNCHANGED <<keys, raced>>
        /\ timers' = [timers EXCEPT ![n] = NoPending(n, Head(queue[n]).proc)]
    BY <1>9 DEF ReceiveCancel
  <2>2. NodesTyped' /\ HistTyped'
    BY <1>1, <1>2, <2>1 DEF NoPending, NodesTyped, HistTyped
  <2>3. QED  BY <1>2, <2>1, <2>2 DEF Typed
<1>10. CASE ReceiveNew(n)
  <2> DEFINE m == Head(queue[n])
  <2>1. /\ Received(n, "new") /\ keys' = [keys EXCEPT ![n] = m.keys]
        /\ timers' = [timers EXCEPT ![n] = NoPending(n, m.proc) \cup {StartTimer(m.keys)}]
        /\ Overtaken(n, InCall(n))
    BY <1>10 DEF ReceiveNew
  <2>2. m.keys \in K
    BY <1>2, <2>1 DEF Message
  <2>3. NodesTyped' /\ HistTyped'
    BY <1>1, <1>2, <2>1, <2>2, TimerTypes DEF NoPending, Overtaken, NodesTyped, HistTyped
  <2>4. QED  BY <1>2, <2>1, <2>3 DEF Typed
<1>11. QED
  BY <1>3, <1>4, <1>5, <1>6, <1>7, <1>8, <1>9, <1>10 DEF NodeStep

LEMMA ThrowTypes ==
  ASSUME Typed, NEW p \in Procs, Throw(p), nextKey' = nextKey
  PROVE  NodesTyped' /\ CallsTyped'
<1>1. NodesTyped /\ CallsTyped /\ Typed
  BY DEF Typed
<1>2. NodesTyped' /\ step' \in [Procs -> Steps] /\ attempts' = attempts
  BY <1>1, StepTypes DEF Throw, NodesTyped, Steps
<1>3. QED  BY <1>1, <1>2, ForgetTypes, CallTypes DEF Throw, CallsTyped

LEMMA FaultTypes ==
  ASSUME Typed, NEW p \in Procs, LockRejected(p) \/ CallRejected(p) \/ UnlockRejected(p)
  PROVE  Typed'
<1>1. /\ RedisTyped /\ NodesTyped /\ CallsTyped /\ HistTyped /\ JobsTyped
      /\ NodeOf(p) \in Nodes /\ NoKeys \in K /\ made[p] \in K /\ lock \in Locks(Nodes, Procs)
      /\ now \in Nat /\ {p} \subseteq Procs
  BY Constants, KeyTypes DEF Typed, CallsTyped, RedisTyped
<1>2. ASSUME NEW from, Rejects(p, from)
      PROVE  JobsTyped' /\ UNCHANGED <<now, queue, nextKey, lost, between, raced>>
  BY <1>1, <1>2 DEF Rejects, JobsTyped
<1>3. CASE LockRejected(p)
  <2>1. NodesTyped' /\ CallsTyped' /\ JobsTyped' /\ HistTyped'
    BY <1>1, <1>2, <1>3, ThrowTypes DEF LockRejected, HistTyped
  <2>2. lock' \in Locks(Nodes, Procs)
    BY <1>1, <1>3, LockTypes DEF LockRejected
  <2>3. RedisTyped'
    BY <1>1, <1>2, <1>3, <2>2 DEF LockRejected, RedisTyped
  <2>4. QED  BY <2>1, <2>3 DEF Typed
<1>4. CASE CallRejected(p)
  <2>1. JobsTyped' /\ UNCHANGED <<now, queue, nextKey, lost, between, raced>>
    BY <1>2, <1>4 DEF CallRejected
  <2>2. CallsTyped'
    BY <1>1, <1>4, <2>1, StepTypes, CallTypes DEF CallRejected, CallsTyped, Steps
  <2>3. NodesTyped'
    BY <1>4, Unchanged DEF CallRejected
  <2>4. RedisTyped'
    BY <1>1, <1>4, <2>1 DEF CallRejected, RedisTyped
  <2>5. HistTyped'
    BY <1>1, <1>4, <2>1, OverrunTypes DEF CallRejected, HistTyped
  <2>6. QED  BY <2>1, <2>2, <2>3, <2>4, <2>5 DEF Typed
<1>5. CASE UnlockRejected(p)
  <2>1. NodesTyped' /\ CallsTyped' /\ JobsTyped' /\ HistTyped'
    BY <1>1, <1>2, <1>5, ThrowTypes DEF UnlockRejected, HistTyped
  <2>2. lock' \in Locks(Nodes, Procs)
    BY <1>1, <1>5, LockTypes DEF UnlockRejected
  <2>3. RedisTyped'
    BY <1>1, <1>2, <1>5, <2>2 DEF UnlockRejected, RedisTyped
  <2>4. QED  BY <2>1, <2>3 DEF Typed
<1>6. QED  BY <1>3, <1>4, <1>5

LEMMA TypedStep ==
  ASSUME Typed, [Next]_vars  PROVE Typed'
<1>1. /\ RedisTyped /\ NodesTyped /\ CallsTyped /\ HistTyped /\ JobsTyped
      /\ now \in Nat /\ LockTtl \in Nat
  BY Constants DEF Typed, RedisTyped
<1>2. CASE UNCHANGED vars
  BY <1>2, Unchanged DEF vars, Typed
<1>3. CASE \E n \in Nodes : StartNode(n) \/ NodeStep(n)
  BY <1>3, NodeTypes
<1>4. CASE \E p \in Procs : Generate(p)
  BY <1>4, GenerateTypes
<1>5. CASE \E p \in Procs : LockRejected(p) \/ CallRejected(p) \/ UnlockRejected(p)
  BY <1>5, FaultTypes
<1>6. ASSUME NEW n \in Nodes, LoseMessage(n)  PROVE Typed'
  <2>1. RedisTyped'
    BY <1>1, <1>6, ReceiveTypes DEF LoseMessage, RedisTyped
  <2>2. NodesTyped' /\ CallsTyped' /\ JobsTyped'
    BY <1>6, Unchanged DEF LoseMessage
  <2>3. HistTyped'
    BY <1>1, <1>6 DEF LoseMessage, HistTyped
  <2>4. QED  BY <2>1, <2>2, <2>3 DEF Typed
<1>7. ASSUME NEW n \in Nodes, Crash(n)  PROVE Typed'
  <2>1. <<>> \in Seq(Message)
    OBVIOUS
  <2>2. queue' \in [Nodes -> Seq(Message)]
    BY <1>1, <1>7, <2>1 DEF Crash, RedisTyped
  <2>3. RedisTyped' /\ NodesTyped'
    BY <1>1, <1>7, <2>2 DEF Crash, RedisTyped, NodesTyped
  <2>4. step' \in [Procs -> Steps]
    BY <1>1, <1>7 DEF Crash, CallsTyped, Steps
  <2>5. CallsTyped' /\ HistTyped' /\ JobsTyped'
    BY <1>1, <1>7, <2>4, Unchanged DEF Crash, CallsTyped
  <2>6. QED  BY <2>3, <2>5 DEF Typed
<1>8. ASSUME NEW j \in Jobs, BeginJob(j)  PROVE Typed'
  <2>1. j \in Procs
    BY Constants
  <2>2. step' \in [Procs -> Steps]
    BY <1>8, <2>1, StepTypes DEF BeginJob, Begin, Steps
  <2>3. endOfLock' \in [Procs -> Nat]
    BY <1>1, <1>8, <2>1 DEF BeginJob, Begin, CallsTyped
  <2>4. CallsTyped'
    BY <1>1, <1>8, <2>2, <2>3 DEF BeginJob, CallsTyped
  <2>5. QED  BY <1>8, <2>4, Unchanged DEF BeginJob, Typed
<1>9. CASE Tick
  <2>1. RedisTyped'
    BY <1>1, <1>9 DEF Tick, RedisTyped
  <2>2. QED  BY <1>9, <2>1, Unchanged DEF Tick, Typed
<1>10. QED
  BY <1>2, <1>3, <1>4, <1>5, <1>6, <1>7, <1>8, <1>9 DEF Next
-----------------------------------------------------------------------------
(* The life of a node: what it may still wait for when it is down, up or dead;
   its start asks for the keys once at a time, and a bounded number of times. *)
NodeLife(n) ==
  /\ status[n] = "down" => reads[n] = {} /\ step[n] = "idle" /\ attempts[n] = 0
  /\ status[n] \in {"up", "dead"} => step[n] \in {"idle", "done"} /\ \A rd \in reads[n] : rd.why # "init"
  /\ \A rd, other \in reads[n] : rd.why = "init" /\ other.why = "init" => rd = other
  /\ \A rd \in reads[n] : rd.why = "init" => step[n] = "idle"
  /\ status[n] = "starting" => attempts[n] < MaxAttempts
  /\ attempts[n] <= MaxAttempts

(* A step of a call, other than of the one of n, leaves the start of n alone. *)
LEMMA OtherCalls ==
  ASSUME Typed, NEW n \in Nodes, NEW p \in Procs, p # n,
         Generate(p) \/ LockRejected(p) \/ CallRejected(p) \/ UnlockRejected(p)
  PROVE  status'[n] = status[n] /\ reads'[n] = reads[n] /\ step'[n] = step[n] /\ attempts'[n] = attempts[n]
<1>1. n \in Procs /\ (p \notin Jobs => p \in Nodes)
  BY Constants DEF Procs
<1>2. NodesTyped /\ CallsTyped
  BY DEF Typed
<1>3. ASSUME NEW to, To(p, to)  PROVE step'[n] = step[n]
  BY <1>1, <1>2, <1>3 DEF To, CallsTyped
<1>4. ASSUME NEW from, NEW to, Step(p, from, to)
      PROVE  status'[n] = status[n] /\ reads'[n] = reads[n] /\ step'[n] = step[n] /\ attempts'[n] = attempts[n]
  BY <1>3, <1>4 DEF Step
<1>5. ASSUME NEW k, Return(p, k)
      PROVE  status'[n] = status[n] /\ reads'[n] = reads[n] /\ step'[n] = step[n] /\ attempts'[n] = attempts[n]
  <2>1. CASE p \in Jobs
    BY <1>3, <1>5, <2>1 DEF Return
  <2>2. CASE p \notin Jobs
    <3>1. /\ attempts' = [attempts EXCEPT ![p] = IF k = NoKeys THEN @ + 1 ELSE 0]
          /\ To(p, "done") \/ To(p, "idle")
          /\ ReadStore(p, "init") \/ UNCHANGED reads
          /\ status' = [status EXCEPT ![p] = "up"] \/ UNCHANGED status \/ status' = [status EXCEPT ![p] = "dead"]
      BY <1>5, <2>2 DEF Return, Keyed
    <3>2. step'[n] = step[n]
      BY <1>3, <3>1
    <3>3. QED  BY <1>1, <1>2, <2>2, <3>1, <3>2 DEF ReadStore, NodesTyped, CallsTyped
  <2>3. QED  BY <2>1, <2>2
<1>6. ASSUME Throw(p)
      PROVE  status'[n] = status[n] /\ reads'[n] = reads[n] /\ step'[n] = step[n] /\ attempts'[n] = attempts[n]
  BY <1>1, <1>2, <1>3, <1>6 DEF Throw, NodesTyped
<1>7. CASE Generate(p)
  BY <1>4, <1>5, <1>6, <1>7 DEF Generate, GetLock, NoLockForUs, ReadKeys, PublishPending, StoreKeys,
     StoreRefused, PublishCancel, PublishNew, UnlockKeys, UnlockAndThrow
<1>8. CASE LockRejected(p) \/ UnlockRejected(p)
  BY <1>6, <1>8 DEF LockRejected, UnlockRejected
<1>9. CASE CallRejected(p)
  BY <1>3, <1>9 DEF CallRejected, nodeVars
<1>10. QED  BY <1>7, <1>8, <1>9

LEMMA LifeCalls ==
  ASSUME Typed, NEW n \in Nodes, NodeLife(n),
         Generate(n) \/ LockRejected(n) \/ CallRejected(n) \/ UnlockRejected(n)
  PROVE  NodeLife(n)'
<1>1. /\ n \in Procs /\ n \notin Jobs /\ NodesTyped /\ CallsTyped /\ MaxAttempts \in Nat
      /\ attempts[n] \in Nat
  BY Constants DEF Typed, CallsTyped
<1>2. 0 < MaxAttempts
  BY <1>1, DelaysAssumption
<1>3. step[n] \notin {"idle", "done"} =>
        status[n] = "starting" /\ attempts[n] < MaxAttempts /\ \A rd \in reads[n] : rd.why # "init"
  BY <1>1 DEF NodeLife, NodesTyped
<1>4. ASSUME NEW to, To(n, to)  PROVE step'[n] = to
  BY <1>1, <1>4 DEF To, CallsTyped
<1>5. ASSUME NEW from, NEW to, Step(n, from, to), from \notin {"idle", "done"}, to \notin {"idle", "done"}
      PROVE  NodeLife(n)'
  BY <1>3, <1>4, <1>5 DEF Step, NodeLife
<1>6. ASSUME NEW k, Return(n, k), step[n] \notin {"idle", "done"}  PROVE NodeLife(n)'
  <2>1. attempts' = [attempts EXCEPT ![n] = IF k = NoKeys THEN @ + 1 ELSE 0]
    BY <1>1, <1>6 DEF Return
  <2>2. CASE k # NoKeys
    <3>1. step'[n] = "done" /\ status'[n] = "up" /\ reads' = reads /\ attempts'[n] = 0
      BY <1>1, <1>4, <1>6, <2>1, <2>2 DEF Return, Keyed, NodesTyped, CallsTyped
    <3>2. QED  BY <1>1, <1>2, <1>3, <1>6, <3>1 DEF NodeLife
  <2>3. CASE k = NoKeys
    <3>1. attempts'[n] = attempts[n] + 1 /\ step'[n] = "idle"
      BY <1>1, <1>4, <1>6, <2>1, <2>3 DEF Return, CallsTyped
    <3>2. CASE attempts[n] + 1 < MaxAttempts
      <4>1. ReadStore(n, "init") /\ status' = status
        BY <1>1, <1>6, <2>3, <3>2 DEF Return
      <4>2. reads'[n] = reads[n] \cup {[why |-> "init", val |-> store]}
        BY <1>1, <4>1 DEF ReadStore, NodesTyped
      <4>3. QED  BY <1>1, <1>3, <1>6, <3>1, <3>2, <4>1, <4>2 DEF NodeLife
    <3>3. CASE ~(attempts[n] + 1 < MaxAttempts)
      <4>1. status'[n] = "dead" /\ reads' = reads
        BY <1>1, <1>6, <2>3, <3>3 DEF Return, NodesTyped
      <4>2. attempts'[n] <= MaxAttempts
        BY <1>1, <1>3, <1>6, <3>1, <3>3
      <4>3. QED  BY <1>3, <1>6, <3>1, <4>1, <4>2 DEF NodeLife
    <3>4. QED  BY <3>2, <3>3
  <2>4. QED  BY <2>2, <2>3
<1>7. ASSUME Throw(n), step[n] \notin {"idle", "done"}  PROVE NodeLife(n)'
  <2>1. step'[n] = "done" /\ status'[n] = "dead" /\ reads' = reads /\ attempts' = attempts
    BY <1>1, <1>4, <1>7 DEF Throw, NodesTyped
  <2>2. QED  BY <1>1, <1>3, <1>7, <2>1 DEF NodeLife
<1>8. CASE GetLock(n) \/ ReadKeys(n) \/ PublishPending(n) \/ StoreKeys(n) \/ StoreRefused(n)
           \/ PublishCancel(n) \/ PublishNew(n)
  BY <1>5, <1>8 DEF GetLock, ReadKeys, PublishPending, StoreKeys, StoreRefused, PublishCancel, PublishNew
<1>9. CASE NoLockForUs(n) \/ UnlockKeys(n)
  BY <1>6, <1>9 DEF NoLockForUs, UnlockKeys
<1>10. CASE UnlockAndThrow(n) \/ LockRejected(n) \/ UnlockRejected(n)
  BY <1>7, <1>10 DEF UnlockAndThrow, LockRejected, UnlockRejected, Rejects
<1>11. CASE CallRejected(n)
  <2>1. step'[n] = "failing" /\ step[n] \in {"reading", "storing"}
        /\ status' = status /\ reads' = reads /\ attempts' = attempts
    BY <1>4, <1>11 DEF CallRejected, Rejects, nodeVars
  <2>2. QED  BY <1>3, <2>1 DEF NodeLife
<1>12. QED  BY <1>8, <1>9, <1>10, <1>11 DEF Generate

LEMMA LifeStep ==
  ASSUME Typed, NEW n \in Nodes, NodeLife(n), [Next]_vars  PROVE NodeLife(n)'
<1>1. /\ n \in Procs /\ n \notin Jobs /\ NodesTyped /\ CallsTyped /\ MaxAttempts \in Nat
      /\ attempts[n] \in Nat /\ 0 < MaxAttempts
  BY Constants, DelaysAssumption DEF Typed, CallsTyped
<1>2. ASSUME status'[n] = status[n], step'[n] = step[n], attempts'[n] = attempts[n],
             reads'[n] = {} \/ reads'[n] = reads[n]
      PROVE  NodeLife(n)'
  BY <1>2 DEF NodeLife
<1>3. CASE UNCHANGED vars
  BY <1>2, <1>3 DEF vars, nodeVars, procVars
<1>4. ASSUME NEW p \in Procs, Generate(p) \/ LockRejected(p) \/ CallRejected(p) \/ UnlockRejected(p)
      PROVE  NodeLife(n)'
  <2>1. CASE p = n
    BY <1>4, <2>1, LifeCalls
  <2>2. CASE p # n
    BY <1>2, <1>4, <2>2, OtherCalls
  <2>3. QED  BY <2>1, <2>2
<1>5. ASSUME NEW m \in Nodes, StartNode(m)  PROVE NodeLife(n)'
  <2>1. step' = step /\ attempts' = attempts /\ status[m] = "down"
        /\ status' = [status EXCEPT ![m] = "starting"]
        /\ reads' = [reads EXCEPT ![m] = @ \cup {[why |-> "init", val |-> store]}]
    BY <1>5 DEF StartNode, ReadStore, procVars
  <2>2. CASE m = n
    <3>1. status'[n] = "starting" /\ reads'[n] = {[why |-> "init", val |-> store]} /\ attempts[n] = 0 /\ step[n] = "idle"
      BY <1>1, <2>1, <2>2 DEF NodeLife, NodesTyped
    <3>2. QED  BY <1>1, <2>1, <3>1 DEF NodeLife
  <2>3. CASE m # n
    BY <1>1, <1>2, <2>1, <2>3 DEF NodesTyped
  <2>4. QED  BY <2>2, <2>3
<1>6. ASSUME NEW m \in Nodes, ReplyToStart(m)  PROVE NodeLife(n)'
  <2>1. PICK rd \in reads[m] :
          /\ rd.why = "init" /\ Reply(m, rd)
          /\ IF rd.val # NoKeys
             THEN Keyed(m, rd.val) /\ UNCHANGED <<step, endOfLock>>
             ELSE Begin(m) /\ UNCHANGED status
    BY <1>6 DEF ReplyToStart
  <2>2. attempts' = attempts /\ reads' = [reads EXCEPT ![m] = @ \ {rd}]
    BY <2>1 DEF Reply
  <2>3. CASE m = n
    <3>1. reads'[n] = reads[n] \ {rd}
      BY <1>1, <2>2, <2>3 DEF NodesTyped
    <3>2. status[n] = "starting" /\ step[n] = "idle" /\ \A other \in reads'[n] : other.why # "init"
      BY <1>1, <2>1, <2>3, <3>1 DEF NodeLife, NodesTyped
    <3>3. CASE rd.val # NoKeys
      <4>1. status'[n] = "up" /\ step' = step
        BY <1>1, <2>1, <2>3, <3>3 DEF Keyed, NodesTyped
      <4>2. QED  BY <2>2, <3>2, <4>1 DEF NodeLife
    <3>4. CASE rd.val = NoKeys
      <4>1. status' = status /\ step'[n] = "locking"
        BY <1>1, <2>1, <2>3, <3>4 DEF Begin, To, CallsTyped
      <4>2. QED  BY <2>2, <3>2, <4>1 DEF NodeLife
    <3>5. QED  BY <3>3, <3>4
  <2>4. CASE m # n
    <3>1. reads'[n] = reads[n]
      BY <1>1, <2>2, <2>4 DEF NodesTyped
    <3>2. status'[n] = status[n]
      BY <1>1, <2>1, <2>4 DEF NodesTyped, Keyed
    <3>3. step'[n] = step[n]
      BY <1>1, <2>1, <2>4 DEF CallsTyped, Begin, To
    <3>4. QED  BY <1>2, <2>2, <3>1, <3>2, <3>3
  <2>5. QED  BY <2>3, <2>4
<1>7. ASSUME NEW m \in Nodes, ReplyToTimer(m)  PROVE NodeLife(n)'
  <2>1. PICK rd \in reads[m] : Reply(m, rd) /\ UNCHANGED <<status, step>>
    BY <1>7 DEF ReplyToTimer
  <2>2. attempts' = attempts /\ reads' = [reads EXCEPT ![m] = @ \ {rd}]
    BY <2>1 DEF Reply
  <2>3. reads'[n] \subseteq reads[n]
    BY <1>1, <2>2 DEF NodesTyped
  <2>4. QED  BY <2>1, <2>2, <2>3 DEF NodeLife
<1>8. ASSUME NEW m \in Nodes, FireRead(m)  PROVE NodeLife(n)'
  <2>1. PICK t \in timers[m] : t.kind \in {"pending", "refresh"} /\ Fire(m, t) /\ ReadStore(m, t.kind)
    BY <1>8 DEF FireRead
  <2>2. status' = status /\ step' = step /\ attempts' = attempts /\ status[m] # "down"
    BY <2>1 DEF Fire, procVars, Alive
  <2>3. reads'[n] = reads[n] \/ (m = n /\ reads'[n] = reads[n] \cup {[why |-> t.kind, val |-> store]})
    BY <1>1, <2>1 DEF ReadStore, NodesTyped
  <2>4. CASE reads'[n] = reads[n]
    BY <1>2, <2>2, <2>4
  <2>5. CASE m = n /\ reads'[n] = reads[n] \cup {[why |-> t.kind, val |-> store]}
    <3>1. \A rd \in reads'[n] : rd.why = "init" => rd \in reads[n]
      BY <2>1, <2>5
    <3>2. QED  BY <2>2, <2>5, <3>1 DEF NodeLife
  <2>6. QED  BY <2>3, <2>4, <2>5
<1>9. ASSUME NEW m \in Nodes, FireFinal(m) \/ ReceivePending(m) \/ ReceiveCancel(m) \/ ReceiveNew(m) \/ LoseMessage(m)
      PROVE  NodeLife(n)'
  <2>1. UNCHANGED <<status, reads, step, attempts>>
    BY <1>9 DEF FireFinal, Fire, ReceivePending, ReceiveCancel, ReceiveNew, Received, LoseMessage, procVars, nodeVars
  <2>2. QED  BY <1>2, <2>1
<1>10. ASSUME NEW m \in Nodes, Crash(m)  PROVE NodeLife(n)'
  <2>1. /\ status' = [status EXCEPT ![m] = "dead"] /\ reads' = [reads EXCEPT ![m] = {}] /\ attempts' = attempts
        /\ step' = [p \in Procs |-> IF NodeOf(p) = m THEN "done" ELSE step[p]]
    BY <1>10 DEF Crash
  <2>2. step'[n] = IF m = n THEN "done" ELSE step[n]
    BY <1>1, <2>1, Constants
  <2>3. CASE m = n
    <3>1. status'[n] = "dead" /\ reads'[n] = {} /\ step'[n] = "done"
      BY <1>1, <2>1, <2>2, <2>3 DEF NodesTyped
    <3>2. QED  BY <2>1, <3>1 DEF NodeLife
  <2>4. CASE m # n
    BY <1>1, <1>2, <2>1, <2>2, <2>4 DEF NodesTyped
  <2>5. QED  BY <2>3, <2>4
<1>11. ASSUME NEW j \in Jobs, BeginJob(j)  PROVE NodeLife(n)'
  <2>1. status' = status /\ reads' = reads /\ attempts' = attempts /\ step'[n] = step[n]
    BY <1>1, <1>11 DEF BeginJob, Begin, To, nodeVars, CallsTyped
  <2>2. QED  BY <1>2, <2>1
<1>12. CASE Tick
  BY <1>2, <1>12 DEF Tick, nodeVars, procVars
<1>13. QED
  BY <1>3, <1>4, <1>5, <1>6, <1>7, <1>8, <1>9, <1>10, <1>11, <1>12 DEF Next, NodeStep
LEMMA DeadStays ==
  ASSUME Typed, NEW n \in Nodes, NodeLife(n), [Next]_vars, status[n] = "dead"
  PROVE  status'[n] = "dead"
<1>1. n \in Procs /\ NodesTyped /\ CallsTyped /\ step[n] \in {"idle", "done"} /\ \A rd \in reads[n] : rd.why # "init"
  BY Constants DEF Typed, NodeLife
<1>2. CASE UNCHANGED vars
  BY <1>2 DEF vars, nodeVars
<1>3. ASSUME NEW p \in Procs, Generate(p) \/ LockRejected(p) \/ CallRejected(p) \/ UnlockRejected(p)
      PROVE  status'[n] = "dead"
  <2>1. CASE p = n
    BY <1>1, <1>3, <2>1 DEF Generate, GetLock, NoLockForUs, ReadKeys, PublishPending, StoreKeys, StoreRefused,
       PublishCancel, PublishNew, UnlockKeys, UnlockAndThrow, Step, LockRejected, CallRejected, UnlockRejected, Rejects
  <2>2. CASE p # n
    BY <1>3, <2>2, OtherCalls
  <2>3. QED  BY <2>1, <2>2
<1>4. ASSUME NEW m \in Nodes, StartNode(m) \/ NodeStep(m) \/ LoseMessage(m) \/ Crash(m)
      PROVE  status'[n] = "dead"
  <2>1. CASE StartNode(m)
    BY <1>1, <2>1 DEF StartNode, NodesTyped
  <2>2. CASE ReplyToStart(m)
    <3>1. PICK rd \in reads[m] : rd.why = "init" /\ (Keyed(m, rd.val) \/ UNCHANGED status)
      BY <2>2 DEF ReplyToStart
    <3>2. m # n
      BY <1>1, <3>1
    <3>3. QED  BY <1>1, <3>1, <3>2 DEF Keyed, NodesTyped
  <2>3. CASE FireRead(m) \/ FireFinal(m) \/ ReplyToTimer(m)
    BY <2>3 DEF FireRead, FireFinal, Fire, ReplyToTimer
  <2>4. CASE ReceivePending(m) \/ ReceiveCancel(m) \/ ReceiveNew(m) \/ LoseMessage(m)
    BY <2>4 DEF ReceivePending, ReceiveCancel, ReceiveNew, Received, LoseMessage, nodeVars
  <2>5. CASE Crash(m)
    BY <1>1, <2>5 DEF Crash, NodesTyped
  <2>6. QED  BY <1>4, <2>1, <2>2, <2>3, <2>4, <2>5 DEF NodeStep
<1>5. CASE Tick \/ \E j \in Jobs : BeginJob(j)
  BY <1>5 DEF Tick, BeginJob, nodeVars
<1>6. QED  BY <1>2, <1>3, <1>4, <1>5 DEF Next

-----------------------------------------------------------------------------
(* What a job has reported.  A call that is over has left the timer of its
   final report, or its store was refused, or a command of it was rejected. *)
Ends(j) == \/ \E t \in timers[At[j]] : t.kind = "final" /\ t.proc = j
           \/ j \in refused \cup rejected

Reported(j) ==
  heard[j].event = "start" =>
    /\ step[j] \notin {"idle", "locking"}
    /\ step[j] = "unlocking" => Ends(j)
    /\ step[j] = "done" => Ends(j) \/ status[At[j]] = "dead"

Marked(p) == /\ step[p] = "failing" => p \in rejected
             /\ step[p] = "cancelling" => p \in refused

LEMMA CallFrame ==
  ASSUME Typed, NEW p \in Procs, NEW q \in Procs, p # q,
         Generate(p) \/ LockRejected(p) \/ CallRejected(p) \/ UnlockRejected(p)
  PROVE  step'[q] = step[q]
<1>1. CallsTyped
  BY DEF Typed
<1>2. ASSUME NEW to, To(p, to)  PROVE step'[q] = step[q]
  BY <1>1, <1>2 DEF To, CallsTyped
<1>3. QED
  BY <1>2 DEF Generate, GetLock, NoLockForUs, ReadKeys, PublishPending, StoreKeys,
     StoreRefused, PublishCancel, PublishNew, UnlockKeys, UnlockAndThrow, Step, Return, Throw,
     LockRejected, CallRejected, UnlockRejected

(* What only grows, and who may change where a call stands. *)
LEMMA MarksGrow ==
  ASSUME Typed, [Next]_vars
  PROVE  refused \subseteq refused' /\ rejected \subseteq rejected'
<1>1. CASE UNCHANGED vars
  BY <1>1 DEF vars, jobVars
<1>2. ASSUME NEW p \in Procs, Generate(p)  PROVE refused \subseteq refused' /\ rejected \subseteq rejected'
  BY <1>2 DEF Generate, GetLock, NoLockForUs, ReadKeys, PublishPending, StoreKeys,
     StoreRefused, PublishCancel, PublishNew, UnlockKeys, UnlockAndThrow, Step, jobVars
<1>3. ASSUME NEW p \in Procs, LockRejected(p) \/ CallRejected(p) \/ UnlockRejected(p)
      PROVE  refused \subseteq refused' /\ rejected \subseteq rejected'
  BY <1>3 DEF LockRejected, CallRejected, UnlockRejected, Rejects, NoFault
<1>4. ASSUME NEW n \in Nodes, StartNode(n) \/ NodeStep(n) \/ LoseMessage(n) \/ Crash(n)
      PROVE  refused' = refused /\ rejected' = rejected
  BY <1>4 DEF StartNode, NodeStep, ReplyToStart, ReplyToTimer, Reply, FireRead, FireFinal, Fire,
     ReceivePending, ReceiveCancel, ReceiveNew, Received, LoseMessage, Crash, jobVars
<1>5. CASE Tick \/ \E j \in Jobs : BeginJob(j)
  BY <1>5 DEF Tick, BeginJob, jobVars
<1>6. QED  BY <1>1, <1>2, <1>3, <1>4, <1>5 DEF Next

LEMMA Standing ==
  ASSUME Typed, NEW q \in Procs, [Next]_vars
  PROVE  \/ step'[q] = step[q]
         \/ Generate(q) \/ LockRejected(q) \/ CallRejected(q) \/ UnlockRejected(q)
         \/ step[q] = "idle" /\ step'[q] = "locking"
         \/ q \in Nodes /\ ReplyToStart(q) /\ step'[q] = "locking"
         \/ Crash(NodeOf(q)) /\ step'[q] = "done"
<1>1. CallsTyped /\ \A n \in Nodes : n \in Procs
  BY Constants DEF Typed
<1>2. CASE UNCHANGED vars
  BY <1>2 DEF vars, procVars
<1>3. ASSUME NEW n \in Nodes, StartNode(n) \/ LoseMessage(n) \/ ReplyToTimer(n) \/ FireRead(n) \/ FireFinal(n)
                              \/ ReceivePending(n) \/ ReceiveCancel(n) \/ ReceiveNew(n)
      PROVE  step'[q] = step[q]
  BY <1>3 DEF StartNode, ReplyToTimer, FireRead, FireFinal, Fire,
     ReceivePending, ReceiveCancel, ReceiveNew, Received, LoseMessage, procVars
<1>4. ASSUME NEW n \in Nodes, ReplyToStart(n)
      PROVE  step'[q] = step[q] \/ (q \in Nodes /\ ReplyToStart(q) /\ step'[q] = "locking")
  <2>1. step' = step \/ step' = [step EXCEPT ![n] = "locking"]
    BY <1>4 DEF ReplyToStart, Begin, To
  <2>2. QED  BY <1>1, <1>4, <2>1 DEF CallsTyped
<1>5. ASSUME NEW n \in Nodes, Crash(n)
      PROVE  step'[q] = step[q] \/ (Crash(NodeOf(q)) /\ step'[q] = "done")
  <2>1. step'[q] = IF NodeOf(q) = n THEN "done" ELSE step[q]
    BY <1>5 DEF Crash
  <2>2. QED  BY <1>5, <2>1
<1>6. ASSUME NEW j \in Jobs, BeginJob(j)
      PROVE  step'[q] = step[q] \/ (step[q] = "idle" /\ step'[q] = "locking")
  BY <1>1, <1>6 DEF BeginJob, Begin, To, CallsTyped
<1>7. CASE Tick
  BY <1>7 DEF Tick, procVars
<1>8. ASSUME NEW p \in Procs, Generate(p) \/ LockRejected(p) \/ CallRejected(p) \/ UnlockRejected(p), p # q
      PROVE  step'[q] = step[q]
  BY <1>8, CallFrame
<1>9. QED  BY <1>2, <1>3, <1>4, <1>5, <1>6, <1>7, <1>8 DEF Next, NodeStep

LEMMA MarkedStep ==
  ASSUME Typed, NEW q \in Procs, Marked(q), [Next]_vars  PROVE Marked(q)'
<1>1. CallsTyped /\ refused \subseteq refused' /\ rejected \subseteq rejected'
  BY MarksGrow DEF Typed
<1>2. CASE step'[q] = step[q] \/ step'[q] \in {"locking", "done"}
  BY <1>1, <1>2 DEF Marked
<1>3. ASSUME NEW to, To(q, to)  PROVE step'[q] = to
  BY <1>1, <1>3 DEF To, CallsTyped
<1>4. CASE StoreRefused(q)
  BY <1>3, <1>4 DEF StoreRefused, Step, Marked
<1>5. CASE CallRejected(q)
  BY <1>3, <1>5 DEF CallRejected, Rejects, Marked
<1>6. CASE LockRejected(q) \/ UnlockRejected(q) \/ UnlockAndThrow(q)
  <2>1. step'[q] = "done"
    BY <1>3, <1>6 DEF LockRejected, UnlockRejected, UnlockAndThrow, Throw
  <2>2. QED  BY <2>1 DEF Marked
<1>7. CASE NoLockForUs(q) \/ UnlockKeys(q)
  <2>1. step'[q] \in {"done", "idle"}
    BY <1>3, <1>7 DEF NoLockForUs, UnlockKeys, Return
  <2>2. QED  BY <2>1 DEF Marked
<1>8. CASE GetLock(q) \/ ReadKeys(q) \/ PublishPending(q) \/ StoreKeys(q) \/ PublishCancel(q) \/ PublishNew(q)
  <2>1. step'[q] \in {"reading", "warning", "storing", "unlocking", "publishing"}
    BY <1>3, <1>8 DEF GetLock, ReadKeys, PublishPending, StoreKeys, PublishCancel, PublishNew, Step
  <2>2. QED  BY <2>1 DEF Marked
<1>9. QED  BY <1>2, <1>4, <1>5, <1>6, <1>7, <1>8, Standing DEF Generate

(* Only the report, or the end of its node, removes the final timer of a job. *)
LEMMA FinalStays ==
  ASSUME Typed, NEW j \in Jobs, NEW t \in timers[At[j]], t.kind = "final", t.proc = j, [Next]_vars
  PROVE  \/ t \in timers'[At[j]]
         \/ heard'[j].event = "finish"
         \/ status'[At[j]] = "dead" /\ step'[j] = "done"
<1>1. /\ NodesTyped /\ CallsTyped /\ JobsTyped /\ j \in Procs /\ At[j] \in Nodes /\ NodeOf(j) = At[j]
      /\ heard[j] \in [event : Events, key : 0..MaxKeys] /\ timers \in [Nodes -> SUBSET ATimer]
  BY Constants DEF Typed, JobsTyped, NodesTyped
<1>2. CASE UNCHANGED vars
  BY <1>2 DEF vars, nodeVars
<1>3. ASSUME NEW p \in Procs, Generate(p)  PROVE t \in timers'[At[j]]
  <2>1. CASE PublishNew(p)
    BY <1>1, <2>1 DEF PublishNew, AwaitStart
  <2>2. CASE ~PublishNew(p)
    BY <1>3, <2>2 DEF Generate, GetLock, NoLockForUs, ReadKeys, PublishPending, StoreKeys,
       StoreRefused, PublishCancel, UnlockKeys, UnlockAndThrow, Throw
  <2>3. QED  BY <2>1, <2>2
<1>4. ASSUME NEW p \in Procs, LockRejected(p) \/ CallRejected(p) \/ UnlockRejected(p)
      PROVE  t \in timers'[At[j]]
  BY <1>4 DEF LockRejected, CallRejected, UnlockRejected, Throw, nodeVars
<1>5. ASSUME NEW n \in Nodes, StartNode(n) \/ LoseMessage(n) \/ ReplyToStart(n)
      PROVE  t \in timers'[At[j]]
  BY <1>5 DEF StartNode, LoseMessage, ReplyToStart, nodeVars
<1>6. ASSUME NEW n \in Nodes, ReplyToTimer(n)  PROVE t \in timers'[At[j]]
  <2>1. timers' = timers \/ \E u : AddTimer(n, u)
    BY <1>6 DEF ReplyToTimer
  <2>2. QED  BY <1>1, <2>1 DEF AddTimer
<1>7. ASSUME NEW n \in Nodes, FireRead(n)  PROVE t \in timers'[At[j]]
  <2>1. PICK u \in timers[n] : u.kind \in {"pending", "refresh"} /\ timers' = [timers EXCEPT ![n] = @ \ {u}]
    BY <1>7 DEF FireRead, Fire
  <2>2. QED  BY <1>1, <2>1
<1>8. ASSUME NEW n \in Nodes, FireFinal(n)  PROVE t \in timers'[At[j]] \/ heard'[j].event = "finish"
  <2>1. PICK u \in timers[n] : Reports(u.proc, "finish") /\ timers' = [timers EXCEPT ![n] = @ \ {u}]
    BY <1>8 DEF FireFinal, Fire
  <2>2. CASE u = t
    BY <1>1, <2>1, <2>2 DEF Reports
  <2>3. CASE u # t
    BY <1>1, <2>1, <2>3
  <2>4. QED  BY <2>2, <2>3
<1>9. ASSUME NEW n \in Nodes, ReceivePending(n)  PROVE t \in timers'[At[j]]
  BY <1>1, <1>9 DEF ReceivePending, AddTimer
<1>10. ASSUME NEW n \in Nodes, ReceiveCancel(n)  PROVE t \in timers'[At[j]]
  BY <1>1, <1>10 DEF ReceiveCancel, NoPending
<1>11. ASSUME NEW n \in Nodes, ReceiveNew(n)  PROVE t \in timers'[At[j]]
  BY <1>1, <1>11 DEF ReceiveNew, NoPending
<1>12. ASSUME NEW n \in Nodes, Crash(n)
       PROVE  t \in timers'[At[j]] \/ (status'[At[j]] = "dead" /\ step'[j] = "done")
  <2>1. /\ status' = [status EXCEPT ![n] = "dead"] /\ timers' = [timers EXCEPT ![n] = {}]
        /\ step'[j] = IF NodeOf(j) = n THEN "done" ELSE step[j]
    BY <1>1, <1>12 DEF Crash
  <2>2. CASE n = At[j]
    BY <1>1, <2>1, <2>2 DEF NodesTyped
  <2>3. CASE n # At[j]
    BY <1>1, <2>1, <2>3
  <2>4. QED  BY <2>2, <2>3
<1>13. CASE Tick \/ \E i \in Jobs : BeginJob(i)
  BY <1>13 DEF Tick, BeginJob, nodeVars
<1>14. QED
  BY <1>2, <1>3, <1>4, <1>5, <1>6, <1>7, <1>8, <1>9, <1>10, <1>11, <1>12, <1>13 DEF Next, NodeStep

(* Only GetLock reports a start. *)
LEMMA StartReports ==
  ASSUME Typed, NEW j \in Jobs, [Next]_vars, heard'[j].event = "start", heard[j].event # "start"
  PROVE  GetLock(j)
<1>1. JobsTyped /\ heard[j] \in [event : Events, key : 0..MaxKeys]
  BY DEF Typed, JobsTyped
<1>2. ASSUME NEW p, NEW event, Reports(p, event)  PROVE heard'[j].event = (IF j = p THEN event ELSE heard[j].event)
  BY <1>1, <1>2 DEF Reports
<1>3. ~(UNCHANGED heard)
  OBVIOUS
<1>4. ASSUME NEW p \in Procs, Generate(p), ~GetLock(p)  PROVE FALSE
  <2>1. CASE StoreKeys(p)
    BY <1>1, <2>1 DEF StoreKeys
  <2>2. CASE ~StoreKeys(p)
    BY <1>2, <1>3, <1>4, <2>2 DEF Generate, NoLockForUs, ReadKeys, PublishPending,
       StoreRefused, PublishCancel, PublishNew, UnlockKeys, UnlockAndThrow, jobVars
  <2>3. QED  BY <2>1, <2>2
<1>5. ASSUME NEW p \in Procs, GetLock(p)  PROVE p = j
  BY <1>2, <1>5 DEF GetLock
<1>6. ASSUME NEW p \in Procs, LockRejected(p) \/ CallRejected(p) \/ UnlockRejected(p)  PROVE FALSE
  BY <1>3, <1>6 DEF LockRejected, CallRejected, UnlockRejected, Rejects
<1>7. ASSUME NEW n \in Nodes, FireFinal(n)  PROVE FALSE
  BY <1>2, <1>7 DEF FireFinal
<1>8. ASSUME NEW n \in Nodes, StartNode(n) \/ ReplyToStart(n) \/ ReplyToTimer(n) \/ FireRead(n)
             \/ ReceivePending(n) \/ ReceiveCancel(n) \/ ReceiveNew(n) \/ LoseMessage(n) \/ Crash(n)
      PROVE  FALSE
  BY <1>3, <1>8 DEF StartNode, ReplyToStart, ReplyToTimer, Reply, FireRead,
     ReceivePending, ReceiveCancel, ReceiveNew, Received, LoseMessage, Crash, jobVars
<1>9. CASE Tick \/ UNCHANGED vars \/ \E i \in Jobs : BeginJob(i)
  BY <1>3, <1>9 DEF Tick, BeginJob, vars, jobVars
<1>10. QED  BY <1>4, <1>5, <1>6, <1>7, <1>8, <1>9 DEF Next, NodeStep

LEMMA ReportedStep ==
  ASSUME Typed, NEW j \in Jobs, NodeLife(At[j]), Marked(j), Reported(j), [Next]_vars  PROVE Reported(j)'
<1>1. j \in Procs /\ At[j] \in Nodes /\ NodeOf(j) = At[j] /\ j \notin Nodes /\ CallsTyped /\ JobsTyped /\ NodesTyped
  BY Constants DEF Typed
<1>2. ASSUME NEW to, To(j, to)  PROVE step'[j] = to
  BY <1>1, <1>2 DEF To, CallsTyped
<1>3. CASE heard'[j].event # "start"
  BY <1>3 DEF Reported
<1>4. CASE GetLock(j)
  BY <1>2, <1>4 DEF GetLock, Step, Reported
<1>5. CASE heard[j].event = "start" /\ heard'[j].event = "start" /\ ~GetLock(j)
  <2>1. step[j] \notin {"idle", "locking"} /\ refused \subseteq refused' /\ rejected \subseteq rejected'
    BY <1>5, MarksGrow DEF Reported
  <2>2. Ends(j) => Ends(j)' \/ (status'[At[j]] = "dead" /\ step'[j] = "done")
    BY <1>5, <2>1, FinalStays DEF Ends
  <2>3. CASE step'[j] = step[j]
    BY <1>1, <1>5, <2>1, <2>2, <2>3, DeadStays DEF Reported
  <2>4. CASE Crash(At[j]) /\ step'[j] = "done"
    <3>1. status'[At[j]] = "dead"
      BY <1>1, <2>4 DEF Crash, NodesTyped
    <3>2. QED  BY <2>4, <3>1 DEF Reported
  <2>5. CASE StoreRefused(j) \/ PublishCancel(j)
    <3>1. step'[j] \in {"cancelling", "unlocking"} /\ j \in refused'
      BY <1>2, <2>1, <2>5 DEF StoreRefused, PublishCancel, Step, Marked
    <3>2. Ends(j)'
      BY <3>1 DEF Ends
    <3>3. QED  BY <3>1, <3>2 DEF Reported
  <2>6. CASE PublishNew(j)
    <3> DEFINE t == Timer("final", IF made[j].start = 0 THEN now ELSE made[j].start, j)
    <3>1. t \in timers'[At[j]]
      BY <1>1, <2>6 DEF PublishNew, AwaitStart
    <3>2. t.kind = "final" /\ t.proc = j
      BY DEF Timer
    <3>3. Ends(j)'
      BY <3>1, <3>2 DEF Ends
    <3>4. step'[j] = "unlocking"
      BY <1>2, <2>6 DEF PublishNew, Step
    <3>5. QED  BY <3>3, <3>4 DEF Reported
  <2>7. CASE ReadKeys(j)
    <3>1. ~Reports(j, "fatal")
      BY <1>1, <1>5 DEF Reports, JobsTyped
    <3>2. step'[j] \in {"storing", "warning"}
      BY <1>2, <2>7, <3>1 DEF ReadKeys, Step
    <3>3. QED  BY <3>2 DEF Reported
  <2>8. CASE UnlockKeys(j)
    <3>1. step[j] = "unlocking" /\ step'[j] = "done"
      BY <1>1, <1>2, <2>8 DEF UnlockKeys, Return
    <3>2. QED  BY <1>5, <2>2, <3>1 DEF Reported
  <2>9. CASE UnlockAndThrow(j) \/ UnlockRejected(j) \/ LockRejected(j) \/ CallRejected(j)
    <3>1. step'[j] \in {"done", "failing"} /\ j \in rejected'
      BY <1>2, <2>1, <2>9 DEF UnlockAndThrow, UnlockRejected, LockRejected, CallRejected, Throw, Rejects, Marked
    <3>2. Ends(j)'
      BY <3>1 DEF Ends
    <3>3. QED  BY <3>1, <3>2 DEF Reported
  <2>10. CASE NoLockForUs(j)
    BY <2>1, <2>10 DEF NoLockForUs
  <2>11. CASE PublishPending(j) \/ StoreKeys(j)
    <3>1. step'[j] \in {"storing", "publishing"}
      BY <1>2, <2>11 DEF PublishPending, StoreKeys, Step
    <3>2. QED  BY <3>1 DEF Reported
  <2>12. QED
    BY <1>1, <1>5, <2>1, <2>3, <2>4, <2>5, <2>6, <2>7, <2>8, <2>9, <2>10, <2>11, Standing DEF Generate
<1>6. QED  BY <1>3, <1>4, <1>5, StartReports
-----------------------------------------------------------------------------
(* The chain of rotations.  A call that holds the lock made its keys from the
   stored ones: nobody stored others since, except a call that had lost the
   lock to it. *)
InTime(k) == k.start <= now + StartDelay /\ k.exp <= now + PrevExpiry

MadeFromStore(p) ==
  step[p] \in {"warning", "storing"} /\ lock.by = p =>
    \/ overrun \/ store = NoKeys
    \/ /\ made[p].prev = store.cur
       /\ store.start = 0 \/ store.start + 1 <= now
       /\ store.exp = 0 \/ store.exp + 1 <= now

LEMMA ClockStep ==
  ASSUME Typed, [Next]_vars
  PROVE  now' = now \/ (Tick /\ now' = now + 1 /\ UNCHANGED <<lock, store, queue, nodeVars, procVars, histVars, jobVars>>)
<1>1. CASE UNCHANGED vars
  BY <1>1 DEF vars, redisVars
<1>2. ASSUME NEW p \in Procs, Generate(p) \/ LockRejected(p) \/ CallRejected(p) \/ UnlockRejected(p)
      PROVE  now' = now
  BY <1>2 DEF Generate, GetLock, NoLockForUs, ReadKeys, PublishPending, StoreKeys,
     StoreRefused, PublishCancel, PublishNew, UnlockKeys, UnlockAndThrow, Step,
     LockRejected, CallRejected, UnlockRejected, Rejects, redisVars
<1>3. ASSUME NEW n \in Nodes, StartNode(n) \/ NodeStep(n) \/ LoseMessage(n) \/ Crash(n)
      PROVE  now' = now
  BY <1>3 DEF StartNode, NodeStep, ReplyToStart, ReplyToTimer, Reply, FireRead, FireFinal, Fire,
     ReceivePending, ReceiveCancel, ReceiveNew, Received, LoseMessage, Crash, redisVars
<1>4. CASE Tick
  BY <1>4 DEF Tick
<1>5. CASE \E j \in Jobs : BeginJob(j)
  BY <1>5 DEF BeginJob, redisVars
<1>6. QED  BY <1>1, <1>2, <1>3, <1>4, <1>5 DEF Next

(* Who changes the stored keys, and how. *)
LEMMA StoreStep ==
  ASSUME Typed, [Next]_vars, store' # store
  PROVE  \E p \in Procs : /\ step[p] = "storing" /\ OwnedBy(lock, NodeOf(p), now) /\ store' = made[p] /\ Overrun(p)
                          /\ lock' = lock /\ now' = now /\ (StoreKeys(p) \/ CallRejected(p))
<1>1. ~UNCHANGED vars
  BY DEF vars, redisVars
<1>2. ASSUME NEW p \in Procs, Generate(p)  PROVE StoreKeys(p)
  BY <1>2 DEF Generate, GetLock, NoLockForUs, ReadKeys, PublishPending,
     StoreRefused, PublishCancel, PublishNew, UnlockKeys, UnlockAndThrow, redisVars
<1>3. ASSUME NEW p \in Procs, LockRejected(p) \/ CallRejected(p) \/ UnlockRejected(p)
      PROVE  CallRejected(p) /\ step[p] = "storing" /\ OwnedBy(lock, NodeOf(p), now) /\ store' = made[p] /\ Overrun(p)
  BY <1>3 DEF LockRejected, CallRejected, UnlockRejected
<1>4. ASSUME NEW n \in Nodes, StartNode(n) \/ NodeStep(n) \/ LoseMessage(n) \/ Crash(n)
      PROVE  FALSE
  BY <1>4 DEF StartNode, NodeStep, ReplyToStart, ReplyToTimer, Reply, FireRead, FireFinal, Fire,
     ReceivePending, ReceiveCancel, ReceiveNew, Received, LoseMessage, Crash, redisVars
<1>5. ~Tick /\ \A j \in Jobs : ~BeginJob(j)
  BY DEF Tick, BeginJob, redisVars
<1>6. ASSUME NEW p \in Procs, StoreKeys(p)
      PROVE  /\ step[p] = "storing" /\ OwnedBy(lock, NodeOf(p), now) /\ store' = made[p] /\ Overrun(p)
             /\ lock' = lock /\ now' = now
  BY <1>6 DEF StoreKeys, Step
<1>7. ASSUME NEW p \in Procs, CallRejected(p)  PROVE lock' = lock /\ now' = now
  BY <1>7 DEF CallRejected, Rejects
<1>8. QED  BY <1>1, <1>2, <1>3, <1>4, <1>5, <1>6, <1>7 DEF Next

(* Who changes the lock, and how. *)
LEMMA LockStep ==
  ASSUME Typed, [Next]_vars, lock' # lock
  PROVE  /\ now' = now
         /\ \E p \in Procs :
              \/ /\ lock' = ForceLock(NodeOf(p), p, now) /\ CanLock(lock, now) /\ step[p] = "locking"
                 /\ GetLock(p) \/ LockRejected(p)
              \/ /\ lock' = NoLock /\ OwnedBy(lock, NodeOf(p), now) /\ step[p] \in {"unlocking", "failing"}
                 /\ UnlockKeys(p) \/ UnlockAndThrow(p) \/ UnlockRejected(p)
<1>1. ~UNCHANGED vars
  BY DEF vars, redisVars
<1>2. ASSUME NEW p \in Procs, Generate(p)  PROVE GetLock(p) \/ UnlockKeys(p) \/ UnlockAndThrow(p)
  BY <1>2 DEF Generate, NoLockForUs, ReadKeys, PublishPending, StoreKeys,
     StoreRefused, PublishCancel, PublishNew, redisVars
<1>3. ASSUME NEW p \in Procs, LockRejected(p) \/ CallRejected(p) \/ UnlockRejected(p)
      PROVE  \/ LockRejected(p) /\ lock' = ForceLock(NodeOf(p), p, now) /\ CanLock(lock, now) /\ step[p] = "locking"
             \/ UnlockRejected(p) /\ lock' = Unlocked(lock, NodeOf(p), now) /\ step[p] \in {"unlocking", "failing"}
  BY <1>3 DEF LockRejected, CallRejected, UnlockRejected, Rejects
<1>4. ASSUME NEW n \in Nodes, StartNode(n) \/ NodeStep(n) \/ LoseMessage(n) \/ Crash(n)
      PROVE  FALSE
  BY <1>4 DEF StartNode, NodeStep, ReplyToStart, ReplyToTimer, Reply, FireRead, FireFinal, Fire,
     ReceivePending, ReceiveCancel, ReceiveNew, Received, LoseMessage, Crash, redisVars
<1>5. ~Tick /\ \A j \in Jobs : ~BeginJob(j)
  BY DEF Tick, BeginJob, redisVars
<1>6. now' = now
  BY <1>1, <1>5, ClockStep
<1>7. QED
  BY <1>1, <1>2, <1>3, <1>4, <1>5, <1>6 DEF Next, GetLock, Step, UnlockKeys, UnlockAndThrow, Unlocked

LEMMA OverrunStays ==
  ASSUME Typed, [Next]_vars, overrun  PROVE overrun'
<1>1. CASE UNCHANGED vars
  BY <1>1 DEF vars, histVars
<1>2. ASSUME NEW p \in Procs, Generate(p) \/ LockRejected(p) \/ CallRejected(p) \/ UnlockRejected(p)
      PROVE  overrun'
  BY <1>2 DEF Generate, GetLock, NoLockForUs, ReadKeys, PublishPending, StoreKeys,
     StoreRefused, PublishCancel, PublishNew, UnlockKeys, UnlockAndThrow,
     LockRejected, CallRejected, UnlockRejected, Overrun, histVars
<1>3. ASSUME NEW n \in Nodes, StartNode(n) \/ NodeStep(n) \/ LoseMessage(n) \/ Crash(n)
      PROVE  overrun'
  BY <1>3 DEF StartNode, NodeStep, ReplyToStart, ReplyToTimer, Reply, FireRead, FireFinal, Fire,
     ReceivePending, ReceiveCancel, ReceiveNew, Received, LoseMessage, Crash, histVars
<1>4. CASE Tick \/ \E j \in Jobs : BeginJob(j)
  BY <1>4 DEF Tick, BeginJob, histVars
<1>5. QED  BY <1>1, <1>2, <1>3, <1>4 DEF Next

(* Who changes the keys that a call made. *)
LEMMA MadeStep ==
  ASSUME Typed, NEW p \in Procs, [Next]_vars, made'[p] # made[p]
  PROVE  /\ now' = now
         /\ \/ /\ ReadKeys(p) /\ MayRotate(store, now) /\ made'[p] = Rotated(store, nextKey, now)
               /\ nextKey \in 0..MaxKeys
            \/ /\ made'[p] = NoKeys
               /\ \/ NoLockForUs(p) \/ StoreRefused(p) \/ UnlockKeys(p) \/ UnlockAndThrow(p)
                  \/ LockRejected(p) \/ CallRejected(p) \/ UnlockRejected(p)
<1>1. ~UNCHANGED vars /\ ~UNCHANGED made
  BY DEF vars, procVars
<1>2. CallsTyped /\ MaxKeys \in Nat
  BY Constants DEF Typed
<1>3. ASSUME NEW q \in Procs, Generate(q)
      PROVE  q = p /\ (ReadKeys(p) \/ NoLockForUs(p) \/ StoreRefused(p) \/ UnlockKeys(p) \/ UnlockAndThrow(p))
  <2>1. ReadKeys(q) \/ NoLockForUs(q) \/ StoreRefused(q) \/ UnlockKeys(q) \/ UnlockAndThrow(q)
    BY <1>1, <1>3 DEF Generate, GetLock, PublishPending, StoreKeys, PublishCancel, PublishNew
  <2>2. \E k : made' = [made EXCEPT ![q] = k]
    BY <1>1, <2>1 DEF ReadKeys, NoLockForUs, StoreRefused, UnlockKeys, UnlockAndThrow, Throw, Forget
  <2>3. q = p
    BY <1>2, <2>2 DEF CallsTyped
  <2>4. QED  BY <2>1, <2>3
<1>4. ASSUME NEW q \in Procs, LockRejected(q) \/ CallRejected(q) \/ UnlockRejected(q)
      PROVE  q = p /\ made'[p] = NoKeys
  <2>1. made' = [made EXCEPT ![q] = NoKeys]
    BY <1>4 DEF LockRejected, CallRejected, UnlockRejected, Throw, Forget
  <2>2. QED  BY <1>2, <2>1 DEF CallsTyped
<1>5. ASSUME NEW n \in Nodes, StartNode(n) \/ NodeStep(n) \/ LoseMessage(n) \/ Crash(n)
      PROVE  FALSE
  BY <1>1, <1>5 DEF StartNode, NodeStep, ReplyToStart, ReplyToTimer, Reply, FireRead, FireFinal, Fire,
     ReceivePending, ReceiveCancel, ReceiveNew, Received, LoseMessage, Crash, procVars
<1>6. ~Tick /\ \A j \in Jobs : ~BeginJob(j)
  BY <1>1 DEF Tick, BeginJob, procVars
<1>7. now' = now
  BY <1>1, <1>6, ClockStep
<1>8. CASE ReadKeys(p)
  <2>1. MayRotate(store, now) /\ nextKey <= MaxKeys /\ made' = [made EXCEPT ![p] = Rotated(store, nextKey, now)]
    BY <1>1, <1>8 DEF ReadKeys
  <2>2. QED  BY <1>2, <1>7, <1>8, <2>1 DEF CallsTyped
<1>9. CASE NoLockForUs(p) \/ StoreRefused(p) \/ UnlockKeys(p) \/ UnlockAndThrow(p)
  <2>1. made' = [made EXCEPT ![p] = NoKeys]
    BY <1>9 DEF NoLockForUs, StoreRefused, UnlockKeys, UnlockAndThrow, Throw, Forget
  <2>2. QED  BY <1>2, <1>7, <1>9, <2>1 DEF CallsTyped
<1>10. QED  BY <1>1, <1>3, <1>4, <1>5, <1>6, <1>7, <1>8, <1>9 DEF Next

LEMMA InTimeKept ==
  ASSUME Typed, [Next]_vars
  PROVE  /\ \A k \in K : InTime(k) => InTime(k)'
         /\ \A key \in 0..MaxKeys : InTime(Rotated(store, key, now))
         /\ InTime(NoKeys)
<1>1. now \in Nat /\ StartDelay \in Nat /\ PrevExpiry \in Nat /\ (now' = now \/ now' = now + 1)
  BY Constants, ClockStep DEF Typed, RedisTyped
<1>2. InTime(NoKeys)
  BY <1>1 DEF InTime, NoKeys
<1>3. \A k \in K : InTime(k) => InTime(k)'
  <2>1. \A k \in K : k.start \in Nat /\ k.exp \in Nat
    BY DEF K, KeySets
  <2>2. QED  BY <1>1, <2>1 DEF InTime
<1>4. ASSUME NEW key \in 0..MaxKeys  PROVE InTime(Rotated(store, key, now))
  BY <1>1 DEF InTime, Rotated, FirstKeys, NoKeys
<1>5. QED  BY <1>2, <1>3, <1>4

LEMMA InTimeStep ==
  ASSUME Typed, \A p \in Procs : InTime(made[p]), InTime(store), [Next]_vars
  PROVE  InTime(store)' /\ \A p \in Procs : InTime(made[p])'
<1>1. store \in K /\ (\A p \in Procs : made[p] \in K) /\ NoKeys \in K /\ MaxKeys \in Nat
      /\ (\A k \in K : InTime(k) => InTime(k)')
  BY KeyTypes, Constants, InTimeKept DEF Typed, RedisTyped, CallsTyped
<1>2. \A k : now' = now => (InTime(k) = InTime(k)')
  BY DEF InTime
<1>3. InTime(store)'
  <2>1. PICK k \in K : k = store' /\ InTime(k)
    <3>1. CASE store' = store
      BY <1>1, <3>1
    <3>2. CASE store' # store
      BY <1>1, <3>2, StoreStep
    <3>3. QED  BY <3>1, <3>2
  <2>2. QED  BY <1>1, <2>1 DEF InTime
<1>4. ASSUME NEW p \in Procs  PROVE InTime(made[p])'
  <2>1. PICK k : k = made'[p] /\ InTime(k) /\ (k \in K \/ now' = now)
    BY <1>1, MadeStep, InTimeKept
  <2>2. QED  BY <1>1, <1>2, <2>1 DEF InTime
<1>5. QED  BY <1>3, <1>4

(* When the delays are reasonable, MayRotate says that the last rotation is over. *)
LEMMA RotationOver ==
  ASSUME Typed, InTime(store), MayRotate(store, now)
  PROVE  (store.start = 0 \/ store.start + 1 <= now) /\ (store.exp = 0 \/ store.exp + 1 <= now)
<1>1. now \in Nat /\ store.start \in Nat /\ store.exp \in Nat
  BY DEF Typed, RedisTyped, K, KeySets
<1>2. /\ StartDelay \in Nat /\ MaxStartDelay \in Nat /\ StartDelay < MaxStartDelay
      /\ PrevExpiry \in Nat /\ MaxPrevExpiry \in Nat /\ PrevExpiry < MaxPrevExpiry
  BY Constants, DelaysAssumption
<1>3. QED  BY <1>1, <1>2 DEF InTime, MayRotate, NotStarted, PrevValid

LEMMA MadeFromStep ==
  ASSUME Typed, InTime(store), NEW p \in Procs, MadeFromStore(p), [Next]_vars
  PROVE  MadeFromStore(p)'
<1>1. /\ now \in Nat /\ (now' = now \/ now' = now + 1) /\ store \in K /\ store.start \in Nat /\ store.exp \in Nat
      /\ CallsTyped /\ p # None /\ overrun \in BOOLEAN /\ overrun' \in BOOLEAN
  BY Constants, ClockStep, TypedStep DEF Typed, RedisTyped, HistTyped, K, KeySets
<1>2. ASSUME NEW to, To(p, to)  PROVE step'[p] = to
  BY <1>1, <1>2 DEF To, CallsTyped
<1>3. CASE overrun'
  BY <1>3 DEF MadeFromStore
<1>4. CASE ~overrun' /\ step'[p] \in {"warning", "storing"} /\ lock'.by = p
  <2>1. ~overrun
    BY <1>4, OverrunStays
  <2>2. CASE ReadKeys(p)
    <3>1. MayRotate(store, now) /\ made' = [made EXCEPT ![p] = Rotated(store, nextKey, now)]
      BY <1>2, <1>4, <2>2 DEF ReadKeys, Step
    <3>2. made'[p] = Rotated(store, nextKey, now) /\ store' = store /\ now' = now
      BY <1>1, <2>2, <3>1 DEF ReadKeys, Step, CallsTyped
    <3>3. store # NoKeys => made'[p].prev = store.cur
      BY <3>2 DEF Rotated
    <3>4. QED  BY <3>1, <3>2, <3>3, RotationOver DEF MadeFromStore
  <2>3. CASE ~ReadKeys(p)
    <3>1. step[p] \in {"warning", "storing"}
      BY <1>2, <1>4, <2>3, Standing DEF Generate, GetLock, NoLockForUs, PublishPending, StoreKeys,
         StoreRefused, PublishCancel, PublishNew, UnlockKeys, UnlockAndThrow, Step, Return, Throw,
         LockRejected, CallRejected, UnlockRejected
    <3>2. lock.by = p
      <4>1. CASE lock' = lock
        BY <1>4, <4>1
      <4>2. CASE lock' # lock
        <5>1. PICK q \in Procs : \/ lock' = ForceLock(NodeOf(q), q, now) /\ (GetLock(q) \/ LockRejected(q))
                                    /\ step[q] = "locking"
                                 \/ lock' = NoLock
          BY <4>2, LockStep
        <5>2. lock' # NoLock
          BY <1>1, <1>4 DEF NoLock
        <5>3. q = p
          BY <1>4, <5>1, <5>2 DEF ForceLock
        <5>4. QED  BY <3>1, <5>1, <5>2, <5>3
      <4>3. QED  BY <4>1, <4>2
    <3>3. made'[p] = made[p]
      <4>1. CASE CallRejected(p)
        BY <1>2, <1>4, <4>1 DEF CallRejected
      <4>2. CASE StoreRefused(p)
        BY <1>2, <1>4, <4>2 DEF StoreRefused, Step
      <4>3. ~NoLockForUs(p) /\ ~UnlockKeys(p) /\ ~UnlockAndThrow(p) /\ ~LockRejected(p) /\ ~UnlockRejected(p)
        BY <3>1 DEF NoLockForUs, UnlockKeys, UnlockAndThrow, LockRejected, UnlockRejected, Rejects
      <4>4. QED  BY <2>3, <4>1, <4>2, <4>3, MadeStep
    <3>4. store' = store
      <4>1. SUFFICES ASSUME store' # store  PROVE FALSE
        OBVIOUS
      <4>2. PICK q \in Procs : Overrun(q) /\ (StoreKeys(q) \/ CallRejected(q))
        BY <4>1, StoreStep
      <4>3. q = p
        BY <1>4, <3>2, <4>2 DEF Overrun
      <4>4. step'[p] \in {"publishing", "failing"}
        BY <1>2, <4>2, <4>3 DEF StoreKeys, CallRejected, Step
      <4>5. QED  BY <1>4, <4>4
    <3>5. QED  BY <1>1, <2>1, <3>1, <3>2, <3>3, <3>4 DEF MadeFromStore
  <2>4. QED  BY <2>2, <2>3
<1>5. QED  BY <1>3, <1>4 DEF MadeFromStore

LEMMA ChainStep ==
  ASSUME Typed, \A p \in Procs : MadeFromStore(p), [Next]_vars, store' # store, store # NoKeys
  PROVE  \/ /\ store'.prev = store.cur
            /\ store.start = 0 \/ store.start + 1 <= now
            /\ store.exp = 0 \/ store.exp + 1 <= now
         \/ overrun'
<1>1. PICK p \in Procs : step[p] = "storing" /\ store' = made[p] /\ Overrun(p)
  BY StoreStep
<1>2. overrun' \in BOOLEAN /\ overrun \in BOOLEAN
  BY TypedStep DEF Typed, HistTyped
<1>3. CASE lock.by = p /\ ~overrun
  BY <1>1, <1>3 DEF MadeFromStore
<1>4. CASE lock.by # p \/ overrun
  BY <1>1, <1>4 DEF Overrun
<1>5. QED  BY <1>3, <1>4
-----------------------------------------------------------------------------
(* What holds of every call, node and job. *)
CallsInv ==
  /\ Typed
  /\ \A n \in Nodes : NodeLife(n)
  /\ \A j \in Jobs : Reported(j)
  /\ \A p \in Procs : Marked(p) /\ MadeFromStore(p) /\ InTime(made[p])
  /\ InTime(store)

LEMMA CallsInit ==
  ASSUME Init  PROVE CallsInv
<1>1. /\ Typed /\ now = 2 /\ MaxAttempts \in Nat /\ 0 < MaxAttempts /\ StartDelay \in Nat /\ PrevExpiry \in Nat
      /\ \A n \in Nodes : n \in Procs
  BY TypedInit, Constants, DelaysAssumption DEF Init
<1>2. \A n \in Nodes : NodeLife(n)
  BY <1>1 DEF Init, NodeLife
<1>3. \A j \in Jobs : Reported(j)
  BY DEF Init, Reported
<1>4. \A p \in Procs : step[p] = "idle" /\ made[p] = NoKeys
  BY DEF Init
<1>5. \A p \in Procs : Marked(p) /\ MadeFromStore(p) /\ InTime(made[p])
  BY <1>1, <1>4 DEF Marked, MadeFromStore, InTime, NoKeys
<1>6. InTime(store)
  <2>1. PICK f \in Found :
          store = CASE f = "nothing" -> NoKeys
                    [] f = "first"   -> FirstKeys(1)
                    [] f = "rotated" -> [cur |-> 2, start |-> 1, prev |-> 1, exp |-> 2]
    BY DEF Init
  <2>2. f \in {"nothing", "first", "rotated"}
    BY KeysAssumption
  <2>3. store.start \in {0, 1} /\ store.exp \in {0, 2}
    BY <2>1, <2>2 DEF FirstKeys, NoKeys
  <2>4. QED  BY <1>1, <2>3 DEF InTime
<1>7. QED  BY <1>1, <1>2, <1>3, <1>5, <1>6 DEF CallsInv

LEMMA CallsStep ==
  ASSUME CallsInv, [Next]_vars  PROVE CallsInv'
<1>1. Typed /\ Typed' /\ \A j \in Jobs : At[j] \in Nodes /\ j \in Procs
  BY TypedStep, Constants DEF CallsInv
<1>2. ASSUME NEW n \in Nodes  PROVE NodeLife(n)'
  BY <1>1, LifeStep DEF CallsInv
<1>3. ASSUME NEW j \in Jobs  PROVE Reported(j)'
  BY <1>1, ReportedStep DEF CallsInv
<1>4. ASSUME NEW p \in Procs  PROVE Marked(p)' /\ MadeFromStore(p)'
  BY <1>1, MarkedStep, MadeFromStep DEF CallsInv
<1>5. InTime(store)' /\ \A p \in Procs : InTime(made[p])'
  BY <1>1, InTimeStep DEF CallsInv
<1>6. QED  BY <1>1, <1>2, <1>3, <1>4, <1>5 DEF CallsInv

LEMMA CallsInvariant == Spec => []CallsInv
<1>1. CallsInv /\ [Next]_vars => CallsInv'
  BY CallsStep
<1>2. QED  BY <1>1, CallsInit, PTL DEF Spec

(* Type correctness, with the bound on the attempts of a start. *)
THEOREM KeysTyping == Spec => []KeysTypeOK
<1>1. ASSUME CallsInv  PROVE KeysTypeOK
  <2>1. RedisTyped /\ NodesTyped /\ CallsTyped /\ HistTyped /\ JobsTyped /\ MaxAttempts \in Nat
    BY <1>1, Constants DEF CallsInv, Typed
  <2>2. attempts \in [Nodes -> 0..MaxAttempts]
    BY <1>1, <2>1 DEF CallsInv, NodeLife, CallsTyped
  <2>3. ASSUME NEW n \in Nodes
        PROVE  /\ \A rd \in reads[n] : rd.why \in {"init", "pending", "refresh"} /\ rd.val \in KeySets(MaxKeys)
               /\ \A t \in timers[n] : t.kind \in {"pending", "refresh", "final"} /\ t.at \in Nat
               /\ \A i \in DOMAIN queue[n] : queue[n][i].event \in {"pending", "cancel", "new"}
                                             /\ queue[n][i].keys \in KeySets(MaxKeys)
    <3>1. reads[n] \subseteq Read /\ timers[n] \subseteq ATimer /\ queue[n] \in Seq(Message)
      BY <2>1 DEF RedisTyped, NodesTyped
    <3>2. \A i \in DOMAIN queue[n] : queue[n][i] \in Message
      BY <3>1, ElementOfSeq, LenProperties
    <3>3. QED  BY <3>1, <3>2 DEF Read, ATimer, Message, K
  <2>4. QED  BY <2>1, <2>2, <2>3 DEF KeysTypeOK, RedisTyped, NodesTyped, CallsTyped, HistTyped, JobsTyped, K, Steps, Events
<1>2. QED  BY <1>1, CallsInvariant, PTL

(* Stored keys are only replaced by keys made from them, when their start and the
   validity of their previous key are over, or a call outlived its lock
   (set-if-locked.lua, generateClusterKeys). *)
THEOREM ChainHolds == Spec => RotationsChain
<1>1. CallsInv /\ [Next]_vars
        => [store' # store /\ store # NoKeys =>
              \/ /\ store'.prev = store.cur
                 /\ store.start = 0 \/ store.start + 1 <= now
                 /\ store.exp = 0 \/ store.exp + 1 <= now
              \/ overrun']_vars
  BY ChainStep DEF CallsInv
<1>2. QED  BY <1>1, CallsInvariant, PTL DEF Spec, RotationsChain

(* Who hears that a rotation started hears how it ended, unless the store was
   refused, a command rejected or the node died (generateClusterKeys, ClusterJob). *)
THEOREM StartedSafe == Spec => []StartedJobsReport
<1>1. CallsInv => StartedJobsReport
  BY DEF CallsInv, Reported, Ends, StartedJobsReport
<1>2. QED  BY <1>1, CallsInvariant, PTL
-----------------------------------------------------------------------------
(* A node that must agree with the store. *)
Bound(n) == Alive(n) /\ ~Excused(n) /\ ~Rejected(n)

(* A call that stored its keys and has not returned; one that will not cancel its
   announcement any more. *)
HasStored(p) == step[p] \in {"publishing", "unlocking"} /\ made[p] # NoKeys

Past(p) == HasStored(p) \/ step[p] \in {"failing", "done"}

(* Early enough for the start of the stored key; and not before now. *)
Soon(t) == t + StartDelay <= store.start + LockTtl

OnTime(t, d) == now + d <= t /\ Soon(t)

(* The stored keys are announced to n, after the first i messages on their way. *)
Publisher(n) == \E p \in Procs : step[p] = "publishing" /\ made[p] = store /\ NodeOf(p) # n

News(n, i) ==
  \E k \in DOMAIN queue[n] :
    k > i /\ queue[n][k].event = "new" /\ queue[n][k].keys = store /\ OnTime(queue[n][k].end, 1)

Announced(n, i) == Publisher(n) \/ News(n, i)

(* A timer of the first announcement of p is set at n, or is on its way to it
   after the first i messages, and nothing on its way takes it back. *)
Kept(n, p, i) ==
  \A k \in DOMAIN queue[n] :
    k > i /\ queue[n][k].proc = p =>
      queue[n][k].event # "cancel" /\ (queue[n][k].event = "new" => queue[n][k].keys = store)

Waits(n, p, d) == \E t \in timers[n] : t.kind = "pending" /\ t.proc = p /\ OnTime(t.at, d)

Comes(n, p, k, d) == queue[n][k].event = "pending" /\ queue[n][k].proc = p /\ OnTime(queue[n][k].end, d)

Pends(n, p, i, d) ==
  \/ i = 0 /\ Waits(n, p, d) /\ Kept(n, p, 0)
  \/ \E k \in DOMAIN queue[n] : k > i /\ Comes(n, p, k, d) /\ Kept(n, p, k)

Pending(n, i, d) == \E p \in Procs : Past(p) /\ Pends(n, p, i, d)

(* Both announcements reach n, if nothing failed yet; one of them does, if
   something did.  A node that started between the two gets the second. *)
Told(n, i, d) ==
  IF NoFault THEN Announced(n, i) /\ (n \in between \/ Pending(n, i, d))
             ELSE Announced(n, i) \/ Pending(n, i, d)

Answered(n) == Soon(now) /\ \E rd \in reads[n] : rd.val = store

KeysCovered(n) == status[n] = "up" \/ HasStored(n) => keys[n] = store \/ Answered(n) \/ Told(n, 0, 0)
OwnCovered(n) == HasStored(n) => keys[n] = made[n]
ReadsCovered(n) == \A rd \in reads[n] : rd.val \in {store, NoKeys} \/ Told(n, 0, 1)
NewsCovered(n) == \A i \in DOMAIN queue[n] : queue[n][i].event = "new" => queue[n][i].keys = store \/ Told(n, i, 0)

Covered(n) == Bound(n) => KeysCovered(n) /\ OwnCovered(n) /\ ReadsCovered(n) /\ NewsCovered(n)

(* What a call knows of its keys: it has none before it made them; they start
   long after its lock; while it holds the lock, they follow the stored ones. *)
Made(p) ==
  /\ step[p] \in {"idle", "locking", "reading", "cancelling", "failing"} => made[p] = NoKeys
  /\ step[p] \in {"warning", "storing", "publishing"} => made[p] # NoKeys
  /\ made[p].start # 0 => endOfLock[p] + StartDelay <= made[p].start + LockTtl
  /\ endOfLock[p] <= now + LockTtl

Current(p) ==
  /\ step[p] = "publishing" /\ lock.by = p => made[p] = store \/ overrun
  /\ step[p] \in {"warning", "storing"} /\ lock.by = p /\ made[p].start = 0 => store = NoKeys \/ overrun

(* The first announcement of a call that may still store its keys has reached n,
   or is on its way. *)
Undisturbed(n, p, i) ==
  \A k \in DOMAIN queue[n] : k > i =>
    queue[n][k].event # "new" /\ (queue[n][k].proc = p => queue[n][k].event # "cancel")

Expects(n, p, e) ==
  \/ /\ \E t \in timers[n] : t.kind = "pending" /\ t.proc = p /\ t.at = e
     /\ Undisturbed(n, p, 0)
  \/ \E k \in DOMAIN queue[n] :
       /\ queue[n][k].event = "pending" /\ queue[n][k].proc = p /\ queue[n][k].end = e
       /\ Undisturbed(n, p, k)

Advised(n, p) ==
  /\ Alive(n) /\ n # NodeOf(p) /\ n \notin between \cup lost /\ ~overrun
  /\ step[p] = "storing" /\ made[p].start # 0 /\ lock.by = p /\ now < endOfLock[p]
  => Expects(n, p, endOfLock[p])

(* Before the first rotation nobody has other keys than the first. *)
Among(n, V) ==
  /\ keys[n] \in V
  /\ \A rd \in reads[n] : rd.val \in V
  /\ \A i \in DOMAIN queue[n] : queue[n][i].event = "new" => queue[n][i].keys \in V

Single ==
  store.start = 0 /\ ~overrun =>
    /\ \A n \in Nodes : Among(n, {store, NoKeys})
    /\ \A p \in Procs : HasStored(p) => made[p] = store

HasKeys(n) ==
  /\ status[n] = "up" => keys[n] # NoKeys
  /\ status[n] = "down" => queue[n] = <<>>
  /\ \A i \in DOMAIN queue[n] : queue[n][i].event = "new" => queue[n][i].keys # NoKeys
-----------------------------------------------------------------------------
(* Where keys come from: what n has, what is on its way to it, the store, or the
   call of its own start. *)
LEMMA CallKeys ==
  ASSUME Typed, NEW p \in Procs, Generate(p) \/ LockRejected(p) \/ CallRejected(p) \/ UnlockRejected(p)
  PROVE  \/ StoreKeys(p) /\ keys' = [keys EXCEPT ![NodeOf(p)] = made[p]]
         \/ UnlockKeys(p) /\ p \in Nodes /\ made[p] # NoKeys /\ keys' = [keys EXCEPT ![p] = made[p]]
         \/ /\ UnlockKeys(p) \/ NoLockForUs(p)
            /\ p \in Nodes /\ To(p, "idle") /\ keys' = [keys EXCEPT ![p] = NoKeys]
            /\ UNCHANGED status \/ status' = [status EXCEPT ![p] = "dead"]
            /\ ReadStore(p, "init") \/ UNCHANGED reads
         \/ UNCHANGED keys
<1>1. ASSUME NEW k, Return(p, k)
      PROVE  \/ p \in Nodes /\ k # NoKeys /\ keys' = [keys EXCEPT ![p] = k]
             \/ /\ p \in Nodes /\ k = NoKeys /\ keys' = [keys EXCEPT ![p] = NoKeys] /\ To(p, "idle")
                /\ UNCHANGED status \/ status' = [status EXCEPT ![p] = "dead"]
                /\ ReadStore(p, "init") \/ UNCHANGED reads
             \/ UNCHANGED keys
  BY <1>1 DEF Return, Keyed, Procs
<1>2. CASE NoLockForUs(p)
  BY <1>1, <1>2 DEF NoLockForUs
<1>3. CASE UnlockKeys(p)
  BY <1>1, <1>3 DEF UnlockKeys
<1>4. CASE StoreKeys(p)
  BY <1>4 DEF StoreKeys
<1>5. CASE GetLock(p) \/ ReadKeys(p) \/ PublishPending(p) \/ StoreRefused(p) \/ PublishCancel(p) \/ PublishNew(p)
  BY <1>5 DEF GetLock, ReadKeys, PublishPending, StoreRefused, PublishCancel, PublishNew
<1>6. CASE UnlockAndThrow(p) \/ LockRejected(p) \/ CallRejected(p) \/ UnlockRejected(p)
  BY <1>6 DEF UnlockAndThrow, LockRejected, CallRejected, UnlockRejected, Throw, nodeVars
<1>7. QED  BY <1>2, <1>3, <1>4, <1>5, <1>6 DEF Generate

(* The steps of calls only add messages and timers. *)
LEMMA CallQueues ==
  ASSUME Typed, NEW p \in Procs, NEW n \in Nodes,
         Generate(p) \/ LockRejected(p) \/ CallRejected(p) \/ UnlockRejected(p)
  PROVE  /\ timers[n] \subseteq timers'[n]
         /\ \A t \in timers'[n] \ timers[n] : t.kind = "final"
         /\ \/ queue'[n] = queue[n]
            \/ /\ Alive(n) /\ n # NodeOf(p)
               /\ \/ PublishPending(p) /\ queue'[n] = Append(queue[n], Msg("pending", p, NoKeys))
                  \/ PublishCancel(p) /\ queue'[n] = Append(queue[n], Msg("cancel", p, NoKeys))
                  \/ PublishNew(p) /\ queue'[n] = Append(queue[n], Msg("new", p, made[p]))
<1>1. NodesTyped /\ RedisTyped
  BY DEF Typed
<1>2. CASE PublishNew(p)
  <2>1. timers[n] \subseteq timers'[n] /\ \A t \in timers'[n] \ timers[n] : t.kind = "final"
    BY <1>1, <1>2 DEF PublishNew, AwaitStart, NodesTyped, Timer
  <2>2. QED  BY <1>1, <1>2, <2>1 DEF PublishNew, Broadcast, Msg
<1>3. CASE PublishPending(p)
  BY <1>1, <1>3 DEF PublishPending, Broadcast, Msg
<1>4. CASE PublishCancel(p)
  BY <1>1, <1>4 DEF PublishCancel, Broadcast, Msg
<1>5. CASE GetLock(p) \/ NoLockForUs(p) \/ ReadKeys(p) \/ StoreKeys(p) \/ StoreRefused(p) \/ UnlockKeys(p)
  BY <1>5 DEF GetLock, NoLockForUs, ReadKeys, StoreKeys, StoreRefused, UnlockKeys, redisVars
<1>6. CASE UnlockAndThrow(p) \/ LockRejected(p) \/ CallRejected(p) \/ UnlockRejected(p)
  BY <1>6 DEF UnlockAndThrow, LockRejected, CallRejected, UnlockRejected, Throw, nodeVars, Rejects
<1>7. QED  BY <1>2, <1>3, <1>4, <1>5, <1>6 DEF Generate

(* A message more at the end of a queue, or one less at its head. *)
LEMMA Appended ==
  ASSUME Typed, NEW n \in Nodes, NEW m \in Message, queue'[n] = Append(queue[n], m)
  PROVE  /\ Len(queue[n]) \in Nat /\ DOMAIN queue[n] = 1..Len(queue[n]) /\ DOMAIN queue'[n] = 1..(Len(queue[n]) + 1)
         /\ \A k \in DOMAIN queue[n] : queue'[n][k] = queue[n][k]
         /\ queue'[n][Len(queue[n]) + 1] = m
<1>1. queue[n] \in Seq(Message)
  BY DEF Typed, RedisTyped
<1>2. QED  BY <1>1, AppendProperties, LenProperties

LEMMA Shortened ==
  ASSUME Typed, NEW n \in Nodes, queue[n] # <<>>, queue'[n] = Tail(queue[n])
  PROVE  /\ Len(queue[n]) \in Nat \ {0} /\ DOMAIN queue[n] = 1..Len(queue[n]) /\ DOMAIN queue'[n] = 1..(Len(queue[n]) - 1)
         /\ \A k \in DOMAIN queue'[n] : queue'[n][k] = queue[n][k + 1]
         /\ Head(queue[n]) = queue[n][1]
<1>1. queue[n] \in Seq(Message)
  BY DEF Typed, RedisTyped
<1>2. /\ Len(queue[n]) \in Nat /\ Len(queue[n]) # 0 /\ DOMAIN queue[n] = 1..Len(queue[n])
      /\ Tail(queue[n]) \in Seq(Message) /\ Len(Tail(queue[n])) = Len(queue[n]) - 1
      /\ \A i \in 1..Len(Tail(queue[n])) : Tail(queue[n])[i] = queue[n][i + 1]
      /\ Head(queue[n]) = queue[n][1]
  BY <1>1, HeadTailProperties, LenProperties, EmptySeq
<1>3. DOMAIN Tail(queue[n]) = 1..(Len(queue[n]) - 1)
  BY <1>2, LenProperties
<1>4. QED  BY <1>2, <1>3
(* What happens at another node leaves n alone. *)
LEMMA OtherNodes ==
  ASSUME Typed, NEW n \in Nodes, NEW m \in Nodes, m # n,
         StartNode(m) \/ NodeStep(m) \/ LoseMessage(m) \/ Crash(m)
  PROVE  /\ queue'[n] = queue[n] /\ reads'[n] = reads[n] /\ timers'[n] = timers[n]
         /\ keys'[n] = keys[n] /\ status'[n] = status[n]
<1>1. NodesTyped /\ RedisTyped
  BY DEF Typed
<1>2. CASE StartNode(m)
  BY <1>1, <1>2 DEF StartNode, ReadStore, NodesTyped, redisVars
<1>3. CASE ReplyToStart(m)
  <2>1. PICK rd \in reads[m] :
          /\ Reply(m, rd) /\ UNCHANGED <<timers, raced>>
          /\ \/ Keyed(m, rd.val)
             \/ keys' = [keys EXCEPT ![m] = NoKeys] /\ UNCHANGED status
    BY <1>3 DEF ReplyToStart
  <2>2. QED  BY <1>1, <2>1 DEF Reply, Keyed, NodesTyped, redisVars
<1>4. CASE ReplyToTimer(m)
  <2>1. PICK rd \in reads[m] :
          /\ Reply(m, rd) /\ UNCHANGED <<status, step, endOfLock>>
          /\ keys' = [keys EXCEPT ![m] = rd.val] \/ keys' = keys
          /\ AddTimer(m, StartTimer(rd.val)) \/ UNCHANGED timers
    BY <1>4 DEF ReplyToTimer
  <2>2. QED  BY <1>1, <2>1 DEF Reply, AddTimer, NodesTyped, redisVars
<1>5. CASE FireRead(m)
  BY <1>1, <1>5 DEF FireRead, Fire, ReadStore, NodesTyped, redisVars
<1>6. CASE FireFinal(m)
  BY <1>1, <1>6 DEF FireFinal, Fire, NodesTyped, redisVars
<1>7. CASE ReceivePending(m) \/ ReceiveCancel(m) \/ ReceiveNew(m)
  <2>1. /\ queue' = [queue EXCEPT ![m] = Tail(@)] /\ UNCHANGED <<status, reads>>
        /\ keys' = keys \/ \E k : keys' = [keys EXCEPT ![m] = k]
        /\ \E s : timers' = [timers EXCEPT ![m] = s]
    BY <1>7 DEF ReceivePending, ReceiveCancel, ReceiveNew, Received, AddTimer
  <2>2. QED  BY <1>1, <2>1 DEF NodesTyped, RedisTyped
<1>8. CASE LoseMessage(m)
  BY <1>1, <1>8 DEF LoseMessage, RedisTyped, nodeVars
<1>9. CASE Crash(m)
  BY <1>1, <1>9 DEF Crash, NodesTyped, RedisTyped
<1>10. QED  BY <1>2, <1>3, <1>4, <1>5, <1>6, <1>7, <1>8, <1>9 DEF NodeStep

(* What happens at a node changes neither the store nor what calls know. *)
LEMMA NodeFrame ==
  ASSUME Typed, NEW n \in Nodes, StartNode(n) \/ NodeStep(n) \/ LoseMessage(n) \/ Crash(n)
  PROVE  UNCHANGED <<now, lock, store, made, nextKey, overrun>>
BY DEF StartNode, NodeStep, ReplyToStart, ReplyToTimer, Reply, FireRead, FireFinal, Fire,
   ReceivePending, ReceiveCancel, ReceiveNew, Received, LoseMessage, Crash, redisVars, procVars, histVars

(* The history only grows, and a fault is never undone. *)
LEMMA HistoryGrows ==
  ASSUME Typed, \A n \in Nodes : NodeLife(n), [Next]_vars
  PROVE  /\ between \subseteq between' /\ raced \subseteq raced' /\ lost \subseteq lost'
         /\ NoFault' => NoFault
<1>1. HistTyped
  BY DEF Typed
<1>2. between \subseteq between' /\ raced \subseteq raced' /\ lost \subseteq lost'
  <2>1. CASE UNCHANGED vars \/ Tick \/ \E j \in Jobs : BeginJob(j)
    BY <2>1 DEF vars, histVars, Tick, BeginJob
  <2>2. ASSUME NEW p \in Procs, Generate(p)
        PROVE  between \subseteq between' /\ raced \subseteq raced' /\ lost \subseteq lost'
    BY <2>2 DEF Generate, GetLock, NoLockForUs, ReadKeys, PublishPending, StoreKeys, Overtaken,
     StoreRefused, PublishCancel, PublishNew, UnlockKeys, UnlockAndThrow, Step, histVars
  <2>3. ASSUME NEW p \in Procs, LockRejected(p) \/ CallRejected(p) \/ UnlockRejected(p)
        PROVE  between \subseteq between' /\ raced \subseteq raced' /\ lost \subseteq lost'
    BY <2>3 DEF LockRejected, CallRejected, UnlockRejected, Rejects
  <2>4. ASSUME NEW n \in Nodes, StartNode(n) \/ NodeStep(n)
        PROVE  between \subseteq between' /\ raced \subseteq raced' /\ lost \subseteq lost'
    BY <2>4 DEF StartNode, NodeStep, ReplyToStart, ReplyToTimer, Reply, FireRead, FireFinal, Fire,
     ReceivePending, ReceiveCancel, ReceiveNew, Received, Overtaken, histVars
  <2>5. ASSUME NEW n \in Nodes, LoseMessage(n) \/ Crash(n)
        PROVE  between \subseteq between' /\ raced \subseteq raced' /\ lost \subseteq lost'
    BY <2>5 DEF LoseMessage, Crash, NoFault, histVars
  <2>6. QED  BY <2>1, <2>2, <2>3, <2>4, <2>5 DEF Next
<1>3. rejected \subseteq rejected' /\ \A n \in Nodes : status[n] = "dead" => status'[n] = "dead"
  BY MarksGrow, DeadStays
<1>4. QED  BY <1>2, <1>3 DEF NoFault

(* A node that must agree had to before, unless it starts. *)
LEMMA AliveBefore ==
  ASSUME Typed, NEW n \in Nodes, NodeLife(n), [Next]_vars, Alive(n)', ~Alive(n)
  PROVE  StartNode(n)
<1>1. status[n] = "down" /\ n \in Procs /\ reads[n] = {} /\ step[n] = "idle"
  BY DeadStays, Constants DEF Typed, NodesTyped, Alive, NodeLife
<1>2. status'[n] # status[n]
  BY DEF Alive
<1>3. CASE UNCHANGED vars \/ Tick \/ \E j \in Jobs : BeginJob(j)
  BY <1>2, <1>3 DEF vars, nodeVars, Tick, BeginJob
<1>4. ASSUME NEW p \in Procs, Generate(p) \/ LockRejected(p) \/ CallRejected(p) \/ UnlockRejected(p)  PROVE FALSE
  <2>1. p = n
    BY <1>2, <1>4, OtherCalls
  <2>2. QED
    BY <1>1, <1>4, <2>1 DEF Generate, GetLock, NoLockForUs, ReadKeys, PublishPending, StoreKeys,
     StoreRefused, PublishCancel, PublishNew, UnlockKeys, UnlockAndThrow, Step,
     LockRejected, CallRejected, UnlockRejected, Rejects
<1>5. ASSUME NEW m \in Nodes, StartNode(m) \/ NodeStep(m) \/ LoseMessage(m) \/ Crash(m)
      PROVE  StartNode(n)
  <2>1. m = n
    BY <1>2, <1>5, OtherNodes
  <2>2. CASE NodeStep(n)
    BY <1>1, <1>2, <2>2 DEF NodeStep, ReplyToStart, ReplyToTimer, FireRead, FireFinal, Fire, Alive,
     ReceivePending, ReceiveCancel, ReceiveNew, Received
  <2>3. CASE LoseMessage(n) \/ Crash(n)
    BY <1>1, <1>2, <2>3 DEF LoseMessage, Crash, Alive, nodeVars
  <2>4. QED  BY <1>5, <2>1, <2>2, <2>3
<1>6. QED  BY <1>3, <1>4, <1>5 DEF Next

LEMMA BoundBefore ==
  ASSUME Typed, \A m \in Nodes : NodeLife(m), NEW n \in Nodes, [Next]_vars, Bound(n)'
  PROVE  /\ ~overrun /\ ~overrun' /\ (n \in between' => NoFault') /\ n \notin raced'
         /\ Bound(n) \/ (StartNode(n) /\ ~Alive(n))
<1>1. /\ overrun \in BOOLEAN /\ (overrun => overrun') /\ raced \subseteq raced' /\ between \subseteq between'
      /\ (NoFault' => NoFault) /\ rejected \subseteq rejected'
  BY HistoryGrows, MarksGrow, OverrunStays DEF Typed, HistTyped
<1>2. Alive(n) \/ StartNode(n)
  BY AliveBefore DEF Bound
<1>3. QED  BY <1>1, <1>2 DEF Bound, Excused, Rejected
-----------------------------------------------------------------------------
(* What a call knows. *)
LEMMA Turns ==
  ASSUME Typed, NEW p \in Procs
  PROVE  /\ \A to : To(p, to) => step'[p] = to
         /\ Forget(p) => made'[p] = NoKeys /\ endOfLock'[p] = 0
BY DEF Typed, CallsTyped, To, Forget

(* Where each step of a call takes it, and what it does to its keys. *)
LEMMA CallStep ==
  ASSUME Typed, NEW p \in Procs, Generate(p) \/ LockRejected(p) \/ CallRejected(p) \/ UnlockRejected(p)
  PROVE  \/ /\ step[p] = "locking" /\ step'[p] = "reading" /\ GetLock(p)
            /\ UNCHANGED <<made, endOfLock>>
         \/ /\ step[p] = "locking" /\ step'[p] \in {"idle", "done"} /\ made'[p] = NoKeys /\ endOfLock'[p] = 0
            /\ NoLockForUs(p) \/ LockRejected(p)
         \/ /\ step[p] = "reading" /\ step'[p] = (IF store = NoKeys THEN "storing" ELSE "warning")
            /\ ReadKeys(p) /\ made' = [made EXCEPT ![p] = Rotated(store, nextKey, now)]
            /\ MayRotate(store, now) /\ nextKey <= MaxKeys /\ nextKey' = nextKey + 1
            /\ UNCHANGED <<endOfLock, lock, store>>
         \/ /\ step[p] = "reading" /\ step'[p] = "unlocking" /\ ReadKeys(p)
            /\ UNCHANGED <<made, endOfLock, lock, store>>
         \/ /\ step[p] = "warning" /\ step'[p] = "storing" /\ PublishPending(p)
            /\ UNCHANGED <<made, endOfLock, lock, store>>
         \/ /\ step[p] = "storing" /\ step'[p] = "publishing" /\ StoreKeys(p)
            /\ store' = made[p] /\ Overrun(p) /\ UNCHANGED <<made, endOfLock, lock>>
         \/ /\ step[p] = "storing" /\ step'[p] \in {"cancelling", "unlocking"} /\ made'[p] = NoKeys /\ StoreRefused(p)
            /\ UNCHANGED <<endOfLock, lock, store>>
         \/ /\ step[p] = "cancelling" /\ step'[p] = "unlocking" /\ PublishCancel(p)
            /\ UNCHANGED <<made, endOfLock, lock, store>>
         \/ /\ step[p] = "publishing" /\ step'[p] = "unlocking" /\ PublishNew(p)
            /\ UNCHANGED <<made, endOfLock, lock, store>>
         \/ /\ step[p] \in {"reading", "storing"} /\ step'[p] = "failing" /\ made'[p] = NoKeys /\ CallRejected(p)
            /\ UNCHANGED <<endOfLock, lock>>
         \/ /\ step[p] = "unlocking" /\ UnlockKeys(p) /\ made'[p] = NoKeys /\ endOfLock'[p] = 0
            /\ step'[p] = (IF p \in Jobs \/ made[p] # NoKeys THEN "done" ELSE "idle") /\ UNCHANGED store
         \/ /\ step[p] \in {"unlocking", "failing"} /\ step'[p] = "done" /\ made'[p] = NoKeys /\ endOfLock'[p] = 0
            /\ UnlockAndThrow(p) \/ UnlockRejected(p)
            /\ UNCHANGED store
<1>1. (\A to : To(p, to) => step'[p] = to) /\ (Forget(p) => made'[p] = NoKeys /\ endOfLock'[p] = 0)
  BY Turns
<1>2. \A k : Return(p, k) => step'[p] = (IF p \in Jobs \/ k # NoKeys THEN "done" ELSE "idle")
  BY <1>1 DEF Return
<1>3. CallsTyped
  BY DEF Typed
<1>4. CASE GetLock(p)
  BY <1>1, <1>4 DEF GetLock, Step
<1>5. CASE NoLockForUs(p)
  BY <1>1, <1>2, <1>5 DEF NoLockForUs
<1>6. CASE ReadKeys(p)
  BY <1>1, <1>6 DEF ReadKeys, Step
<1>7. CASE PublishPending(p) \/ PublishCancel(p) \/ PublishNew(p)
  BY <1>1, <1>7 DEF PublishPending, PublishCancel, PublishNew, Step
<1>8. CASE StoreKeys(p)
  BY <1>1, <1>8 DEF StoreKeys, Step
<1>9. CASE StoreRefused(p)
  BY <1>1, <1>3, <1>9 DEF StoreRefused, Step, CallsTyped
<1>10. CASE UnlockKeys(p)
  BY <1>1, <1>2, <1>10 DEF UnlockKeys
<1>11. CASE UnlockAndThrow(p) \/ UnlockRejected(p) \/ LockRejected(p)
  BY <1>1, <1>11 DEF UnlockAndThrow, UnlockRejected, LockRejected, Throw, Rejects
<1>12. CASE CallRejected(p)
  BY <1>1, <1>3, <1>12 DEF CallRejected, Rejects, CallsTyped
<1>13. QED
  BY <1>4, <1>5, <1>6, <1>7, <1>8, <1>9, <1>10, <1>11, <1>12 DEF Generate

(* A step of a call leaves the others alone. *)
LEMMA OtherCall ==
  ASSUME Typed, NEW p \in Procs, NEW q \in Procs, p # q,
         Generate(q) \/ LockRejected(q) \/ CallRejected(q) \/ UnlockRejected(q)
  PROVE  step'[p] = step[p] /\ made'[p] = made[p] /\ endOfLock'[p] = endOfLock[p]
<1>1. CallsTyped
  BY DEF Typed
<1>2. step'[p] = step[p]
  BY CallFrame
<1>3. /\ made' = made \/ \E k : made' = [made EXCEPT ![q] = k]
      /\ endOfLock' = endOfLock \/ endOfLock' = [endOfLock EXCEPT ![q] = 0]
  BY DEF Generate, GetLock, NoLockForUs, ReadKeys, PublishPending, StoreKeys, StoreRefused, PublishCancel,
     PublishNew, UnlockKeys, UnlockAndThrow, Step, Forget, Throw, LockRejected, CallRejected, UnlockRejected
<1>4. QED  BY <1>1, <1>2, <1>3 DEF CallsTyped

(* What else happens to a call: it begins, or its node crashes. *)
LEMMA CallChange ==
  ASSUME Typed, NEW p \in Procs, NodeOf(p) = p => NodeLife(NodeOf(p)), [Next]_vars
  PROVE  \/ Generate(p) \/ LockRejected(p) \/ CallRejected(p) \/ UnlockRejected(p)
         \/ /\ step[p] = "idle" /\ step'[p] = "locking" /\ made'[p] = made[p]
            /\ endOfLock'[p] = now + LockTtl /\ UNCHANGED <<store, lock, overrun>>
         \/ Crash(NodeOf(p)) /\ step'[p] = "done" /\ made'[p] = made[p] /\ endOfLock'[p] = endOfLock[p]
         \/ step'[p] = step[p] /\ made'[p] = made[p] /\ endOfLock'[p] = endOfLock[p]
<1>1. CallsTyped /\ (\A n \in Nodes : n \in Procs /\ NodeOf(n) = n) /\ (\A j \in Jobs : j \in Procs)
  BY Constants DEF Typed
<1>2. CASE UNCHANGED vars \/ Tick
  BY <1>2 DEF vars, procVars, Tick
<1>3. ASSUME NEW n \in Nodes, StartNode(n) \/ LoseMessage(n) \/ ReplyToTimer(n) \/ FireRead(n) \/ FireFinal(n)
                              \/ ReceivePending(n) \/ ReceiveCancel(n) \/ ReceiveNew(n)
      PROVE  step' = step /\ made' = made /\ endOfLock' = endOfLock
  BY <1>3 DEF StartNode, ReplyToTimer, Reply, FireRead, FireFinal, Fire,
     ReceivePending, ReceiveCancel, ReceiveNew, Received, LoseMessage, procVars
<1>4. ASSUME NEW n \in Nodes, ReplyToStart(n)
      PROVE  \/ step'[p] = step[p] /\ made'[p] = made[p] /\ endOfLock'[p] = endOfLock[p]
             \/ /\ step[p] = "idle" /\ step'[p] = "locking" /\ made'[p] = made[p] /\ endOfLock'[p] = now + LockTtl
                /\ UNCHANGED <<store, lock, overrun>>
  <2>1. PICK rd \in reads[n] : rd.why = "init" /\ Reply(n, rd) /\ (Begin(n) \/ UNCHANGED <<step, endOfLock>>)
    BY <1>4 DEF ReplyToStart
  <2>2. made' = made /\ UNCHANGED <<store, lock, overrun>>
    BY <2>1 DEF Reply, redisVars
  <2>3. CASE UNCHANGED <<step, endOfLock>>
    BY <2>2, <2>3
  <2>4. CASE Begin(n) /\ p # n
    BY <1>1, <2>2, <2>4 DEF Begin, To, CallsTyped
  <2>5. CASE Begin(n) /\ p = n
    <3>1. step[p] = "idle"
      BY <1>1, <2>1, <2>5 DEF NodeLife
    <3>2. QED  BY <1>1, <2>2, <2>5, <3>1 DEF Begin, To, CallsTyped
  <2>6. QED  BY <2>1, <2>3, <2>4, <2>5
<1>5. ASSUME NEW n \in Nodes, Crash(n)
      PROVE  /\ step'[p] = step[p] \/ (Crash(NodeOf(p)) /\ step'[p] = "done")
             /\ made'[p] = made[p] /\ endOfLock'[p] = endOfLock[p]
  <2>1. step'[p] = (IF NodeOf(p) = n THEN "done" ELSE step[p]) /\ made' = made /\ endOfLock' = endOfLock
    BY <1>5 DEF Crash
  <2>2. QED  BY <1>5, <2>1
<1>6. ASSUME NEW j \in Jobs, BeginJob(j)
      PROVE  \/ step'[p] = step[p] /\ made'[p] = made[p] /\ endOfLock'[p] = endOfLock[p]
             \/ /\ step[p] = "idle" /\ step'[p] = "locking" /\ made'[p] = made[p] /\ endOfLock'[p] = now + LockTtl
                /\ UNCHANGED <<store, lock, overrun>>
  BY <1>1, <1>6 DEF BeginJob, Begin, To, CallsTyped, redisVars, histVars
<1>7. ASSUME NEW q \in Procs, Generate(q) \/ LockRejected(q) \/ CallRejected(q) \/ UnlockRejected(q), p # q
      PROVE  step'[p] = step[p] /\ made'[p] = made[p] /\ endOfLock'[p] = endOfLock[p]
  BY <1>7, OtherCall
<1>8. QED  BY <1>2, <1>3, <1>4, <1>5, <1>6, <1>7 DEF Next, NodeStep
(* Who holds the lock took it; while it does, nobody else stores keys. *)
LEMMA LockKept ==
  ASSUME Typed, NEW p \in Procs, [Next]_vars, lock'.by = p, step[p] # "locking"
  PROVE  lock.by = p
<1>1. p # None
  BY Constants
<1>2. CASE lock' = lock
  BY <1>2
<1>3. CASE lock' # lock
  <2>1. PICK q \in Procs : \/ lock' = ForceLock(NodeOf(q), q, now) /\ step[q] = "locking"
                           \/ lock' = NoLock
    BY <1>3, LockStep
  <2>2. QED  BY <1>1, <2>1 DEF ForceLock, NoLock
<1>4. QED  BY <1>2, <1>3

LEMMA StoreKept ==
  ASSUME Typed, NEW p \in Procs, [Next]_vars, lock.by = p, step[p] # "storing", ~overrun'
  PROVE  store' = store
<1>1. SUFFICES ASSUME store' # store  PROVE FALSE
  OBVIOUS
<1>2. PICK q \in Procs : step[q] = "storing" /\ Overrun(q)
  BY <1>1, StoreStep
<1>3. q = p
  BY <1>2 DEF Overrun
<1>4. QED  BY <1>2, <1>3

LEMMA MadeKept ==
  ASSUME Typed, NEW p \in Procs, NodeOf(p) = p => NodeLife(NodeOf(p)), Made(p), [Next]_vars
  PROVE  Made(p)'
<1>1. /\ now \in Nat /\ (now' = now \/ now' = now + 1) /\ LockTtl \in Nat /\ StartDelay \in Nat \ {0}
      /\ endOfLock[p] \in Nat /\ made[p] \in K /\ nextKey \in 1..(MaxKeys + 1) /\ MaxKeys \in Nat
  BY Constants, ClockStep, KeysAssumption DEF Typed, RedisTyped, CallsTyped
<1>2. made[p].start \in Nat
  BY <1>1 DEF K, KeySets
<1>3. CASE made'[p] = made[p] /\ endOfLock'[p] = endOfLock[p] /\ step'[p] \in {step[p], "done"}
  BY <1>1, <1>2, <1>3 DEF Made
<1>4. CASE step[p] = "idle" /\ step'[p] = "locking" /\ made'[p] = made[p] /\ endOfLock'[p] = now + LockTtl
  <2>1. made[p] = NoKeys
    BY <1>4 DEF Made
  <2>2. QED  BY <1>1, <1>4, <2>1 DEF Made, NoKeys
<1>5. CASE made'[p] = NoKeys /\ endOfLock'[p] \in {0, endOfLock[p]} /\ step'[p] \notin {"warning", "storing", "publishing"}
  BY <1>1, <1>5 DEF Made, NoKeys
<1>6. CASE Generate(p) \/ LockRejected(p) \/ CallRejected(p) \/ UnlockRejected(p)
  <2>1. CASE /\ step[p] = "reading" /\ step'[p] = (IF store = NoKeys THEN "storing" ELSE "warning")
             /\ made' = [made EXCEPT ![p] = Rotated(store, nextKey, now)] /\ UNCHANGED endOfLock
             /\ nextKey <= MaxKeys
    <3> DEFINE k == Rotated(store, nextKey, now)
    <3>1. made'[p] = k
      BY <2>1 DEF Typed, CallsTyped
    <3>2. k # NoKeys /\ (k.start # 0 => k.start = now + StartDelay)
      BY <1>1 DEF Rotated, FirstKeys, NoKeys
    <3> HIDE DEF k
    <3>3. endOfLock'[p] <= now' + LockTtl /\ endOfLock[p] <= now + LockTtl
      BY <1>1, <2>1 DEF Made
    <3>4. made'[p].start # 0 => endOfLock'[p] + StartDelay <= made'[p].start + LockTtl
      BY <1>1, <2>1, <3>1, <3>2, <3>3
    <3>5. QED  BY <2>1, <3>1, <3>2, <3>3, <3>4 DEF Made
  <2>2. CASE UNCHANGED <<made, endOfLock>> /\ (step'[p] = "unlocking" \/ (step[p] = "locking" /\ step'[p] = "reading"))
    BY <1>1, <1>2, <2>2 DEF Made
  <2>3. CASE UNCHANGED <<made, endOfLock>> /\ step[p] \in {"warning", "storing"} /\ step'[p] \in {"storing", "publishing"}
    BY <1>1, <1>2, <2>3 DEF Made
  <2>4. QED  BY <1>5, <1>6, <2>1, <2>2, <2>3, CallStep
<1>7. QED  BY <1>3, <1>4, <1>6, CallChange

LEMMA CurrentKept ==
  ASSUME Typed, NEW p \in Procs, NodeOf(p) = p => NodeLife(NodeOf(p)), Made(p), Current(p), [Next]_vars
  PROVE  Current(p)'
<1>1. overrun => overrun'
  BY OverrunStays
<1>2. SUFFICES ASSUME ~overrun', lock'.by = p, step'[p] \in {"warning", "storing", "publishing"}
               PROVE  Current(p)'
  BY DEF Current
<1>3. ~overrun
  BY <1>1, <1>2
<1>4. CASE step'[p] = step[p] /\ made'[p] = made[p]
  <2>1. lock.by = p
    BY <1>2, <1>4, LockKept
  <2>2. CASE store' = store
    BY <1>2, <1>3, <1>4, <2>1, <2>2 DEF Current
  <2>3. CASE store' # store
    <3>1. step[p] = "storing"
      BY <1>2, <2>1, <2>3, StoreKept
    <3>2. PICK q \in Procs : Overrun(q) /\ (StoreKeys(q) \/ CallRejected(q))
      BY <2>3, StoreStep
    <3>3. q = p
      BY <1>2, <2>1, <3>2 DEF Overrun
    <3>4. step'[p] \in {"publishing", "failing"}
      BY <3>2, <3>3, Turns DEF StoreKeys, Step, CallRejected
    <3>5. QED  BY <1>4, <3>1, <3>4
  <2>4. QED  BY <2>2, <2>3
<1>5. CASE Generate(p) \/ LockRejected(p) \/ CallRejected(p) \/ UnlockRejected(p)
  <2>1. CASE step'[p] = "publishing"
    <3>1. store' = made[p] /\ made' = made
      BY <1>5, <2>1, CallStep
    <3>2. QED  BY <2>1, <3>1 DEF Current
  <2>2. CASE step[p] = "reading"
    <3>1. made'[p] = Rotated(store, nextKey, now) /\ store' = store
      BY <1>2, <1>5, <2>2, CallStep DEF Typed, CallsTyped
    <3>2. now + StartDelay # 0
      BY Constants, KeysAssumption DEF Typed, RedisTyped
    <3>3. made'[p].start = 0 => store = NoKeys
      BY <3>1, <3>2 DEF Rotated
    <3>4. step'[p] # "publishing"
      BY <1>2, <1>5, <2>2, CallStep
    <3>5. QED  BY <3>1, <3>3, <3>4 DEF Current
  <2>3. CASE step[p] # "reading" /\ step'[p] # "publishing"
    <3>1. step[p] = "warning" /\ step'[p] = "storing" /\ UNCHANGED <<made, lock, store>>
      BY <1>2, <1>5, <2>3, CallStep
    <3>2. QED  BY <1>2, <1>3, <3>1 DEF Current
  <2>4. QED  BY <2>1, <2>2, <2>3
<1>6. QED  BY <1>2, <1>4, <1>5, CallChange

LEMMA PastStays ==
  ASSUME Typed, NEW p \in Procs, NodeOf(p) = p => NodeLife(NodeOf(p)), Made(p), [Next]_vars, Past(p)
  PROVE  Past(p)'
<1>1. step[p] \in {"publishing", "unlocking"} => made[p] # NoKeys
  BY DEF Past, HasStored
<1>2. step[p] \in {"publishing", "unlocking", "failing", "done"}
  BY DEF Past, HasStored
<1>3. CASE Generate(p) \/ LockRejected(p) \/ CallRejected(p) \/ UnlockRejected(p)
  BY <1>1, <1>2, <1>3, CallStep DEF Past, HasStored
<1>4. QED  BY <1>1, <1>2, <1>3, CallChange DEF Past, HasStored

LEMMA StoredBefore ==
  ASSUME Typed, NEW p \in Procs, NodeOf(p) = p => NodeLife(NodeOf(p)), Made(p), [Next]_vars, HasStored(p)'
  PROVE  \/ HasStored(p) /\ made'[p] = made[p]
         \/ StoreKeys(p) /\ store' = made[p] /\ made'[p] = made[p] /\ step[p] = "storing"
<1>1. step'[p] \in {"publishing", "unlocking"} /\ made'[p] # NoKeys
  BY DEF HasStored
<1>2. step[p] \in {"reading", "cancelling"} => made[p] = NoKeys
  BY DEF Made
<1>3. CASE Generate(p) \/ LockRejected(p) \/ CallRejected(p) \/ UnlockRejected(p)
  BY <1>1, <1>2, <1>3, CallStep DEF HasStored
<1>4. QED  BY <1>1, <1>3, CallChange DEF HasStored
-----------------------------------------------------------------------------
(* Where the keys of a node, and those on their way to it, come from. *)
LEMMA KeysBefore ==
  ASSUME Typed, NEW n \in Nodes, NodeLife(n), [Next]_vars, keys'[n] # keys[n]
  PROVE  \/ \E p \in Procs : StoreKeys(p) /\ NodeOf(p) = n /\ keys'[n] = made[p] /\ store' = made[p] /\ step[p] = "storing"
         \/ UnlockKeys(n) /\ HasStored(n) /\ keys'[n] = made[n]
         \/ keys'[n] = NoKeys /\ status'[n] # "up" /\ step'[n] \in {"idle", "locking"}
         \/ (ReplyToStart(n) \/ ReplyToTimer(n)) /\ \E rd \in reads[n] : keys'[n] = rd.val /\ rd.val # NoKeys
         \/ ReceiveNew(n) /\ keys'[n] = Head(queue[n]).keys
<1>1. /\ NodesTyped /\ n \in Procs /\ NodeOf(n) = n /\ \A p \in Procs : NodeOf(p) \in Nodes
      /\ status[n] = "up" => step[n] \in {"idle", "done"} /\ \A rd \in reads[n] : rd.why # "init"
  BY Constants DEF Typed, NodeLife
<1>2. ~UNCHANGED keys /\ ~Tick /\ (\A j \in Jobs : ~BeginJob(j)) /\ ~UNCHANGED vars
  BY DEF Tick, BeginJob, vars, nodeVars
<1>3. ASSUME NEW p \in Procs, Generate(p) \/ LockRejected(p) \/ CallRejected(p) \/ UnlockRejected(p)
      PROVE  \/ StoreKeys(p) /\ NodeOf(p) = n /\ keys'[n] = made[p] /\ store' = made[p] /\ step[p] = "storing"
             \/ UnlockKeys(n) /\ HasStored(n) /\ keys'[n] = made[n]
             \/ keys'[n] = NoKeys /\ status'[n] # "up" /\ step'[n] \in {"idle", "locking"}
  <2>1. CASE StoreKeys(p) /\ keys' = [keys EXCEPT ![NodeOf(p)] = made[p]]
    BY <1>1, <2>1 DEF StoreKeys, Step, NodesTyped
  <2>2. CASE UnlockKeys(p) /\ p \in Nodes /\ made[p] # NoKeys /\ keys' = [keys EXCEPT ![p] = made[p]]
    BY <1>1, <2>2 DEF UnlockKeys, HasStored, NodesTyped
  <2>3. CASE /\ UnlockKeys(p) \/ NoLockForUs(p)
             /\ p \in Nodes /\ To(p, "idle") /\ keys' = [keys EXCEPT ![p] = NoKeys]
             /\ UNCHANGED status \/ status' = [status EXCEPT ![p] = "dead"]
    <3>1. p = n /\ keys'[n] = NoKeys
      BY <1>1, <2>3 DEF NodesTyped
    <3>2. step[n] \in {"unlocking", "locking"}
      BY <2>3, <3>1 DEF UnlockKeys, NoLockForUs
    <3>3. status'[n] # "up" /\ step'[n] = "idle"
      BY <1>1, <2>3, <3>1, <3>2, Turns DEF NodesTyped
    <3>4. QED  BY <3>1, <3>3
  <2>4. QED  BY <1>2, <1>3, <2>1, <2>2, <2>3, CallKeys
<1>4. ASSUME NEW m \in Nodes, StartNode(m) \/ NodeStep(m) \/ LoseMessage(m) \/ Crash(m)
      PROVE  \/ keys'[n] = NoKeys /\ status'[n] # "up" /\ step'[n] \in {"idle", "locking"}
             \/ (ReplyToStart(n) \/ ReplyToTimer(n)) /\ \E rd \in reads[n] : keys'[n] = rd.val /\ rd.val # NoKeys
             \/ ReceiveNew(n) /\ keys'[n] = Head(queue[n]).keys
  <2>1. m = n
    BY <1>4, OtherNodes
  <2>2. CASE ReplyToStart(n)
    <3>1. PICK rd \in reads[n] :
            /\ rd.why = "init"
            /\ IF rd.val # NoKeys THEN Keyed(n, rd.val)
               ELSE keys' = [keys EXCEPT ![n] = NoKeys] /\ Begin(n) /\ UNCHANGED status
      BY <2>2 DEF ReplyToStart
    <3>2. CASE rd.val # NoKeys
      BY <1>1, <2>2, <3>1, <3>2 DEF Keyed, NodesTyped
    <3>3. CASE rd.val = NoKeys
      <4>1. step'[n] = "locking"
        BY <1>1, <3>1, <3>3, Turns DEF Begin
      <4>2. QED  BY <1>1, <3>1, <3>3, <4>1 DEF NodesTyped
    <3>4. QED  BY <3>2, <3>3
  <2>3. CASE ReplyToTimer(n)
    BY <1>1, <1>2, <2>3 DEF ReplyToTimer, NodesTyped
  <2>4. CASE ReceiveNew(n)
    BY <1>1, <2>4 DEF ReceiveNew, NodesTyped
  <2>5. CASE StartNode(n) \/ FireRead(n) \/ FireFinal(n) \/ ReceivePending(n) \/ ReceiveCancel(n) \/ LoseMessage(n) \/ Crash(n)
    BY <1>2, <2>5 DEF StartNode, FireRead, FireFinal, Fire, ReceivePending, ReceiveCancel, LoseMessage, Crash, nodeVars
  <2>6. QED  BY <1>4, <2>1, <2>2, <2>3, <2>4, <2>5 DEF NodeStep
<1>5. QED  BY <1>2, <1>3, <1>4 DEF Next

LEMMA ReadsBefore ==
  ASSUME Typed, NEW n \in Nodes, [Next]_vars, NEW rd \in reads'[n]
  PROVE  rd \in reads[n] \/ rd.val = store
<1>1. NodesTyped
  BY DEF Typed
<1>2. CASE Tick \/ UNCHANGED vars \/ \E j \in Jobs : BeginJob(j)
  BY <1>2 DEF Tick, BeginJob, vars, nodeVars
<1>3. ASSUME NEW m, NEW why, ReadStore(m, why)  PROVE rd \in reads[n] \/ rd.val = store
  BY <1>1, <1>3 DEF ReadStore, NodesTyped
<1>4. ASSUME NEW p \in Procs, Generate(p) \/ LockRejected(p) \/ CallRejected(p) \/ UnlockRejected(p)
      PROVE  rd \in reads[n] \/ rd.val = store
  <2>1. UNCHANGED reads \/ \E m, why : ReadStore(m, why)
    BY <1>4 DEF Generate, GetLock, NoLockForUs, ReadKeys, PublishPending, StoreKeys, StoreRefused, PublishCancel,
       PublishNew, UnlockKeys, UnlockAndThrow, Step, Return, Throw, LockRejected, CallRejected, UnlockRejected, nodeVars
  <2>2. QED  BY <1>3, <2>1
<1>5. ASSUME NEW m \in Nodes, StartNode(m) \/ NodeStep(m) \/ LoseMessage(m) \/ Crash(m)
      PROVE  rd \in reads[n] \/ rd.val = store
  <2>1. CASE m # n
    BY <1>5, <2>1, OtherNodes
  <2>2. CASE StartNode(m) \/ FireRead(m)
    BY <1>3, <2>2 DEF StartNode, FireRead
  <2>3. CASE ReplyToStart(m) \/ ReplyToTimer(m)
    BY <1>1, <2>3 DEF ReplyToStart, ReplyToTimer, Reply, NodesTyped
  <2>4. CASE Crash(m)
    BY <1>1, <2>4 DEF Crash, NodesTyped
  <2>5. CASE FireFinal(m) \/ ReceivePending(m) \/ ReceiveCancel(m) \/ ReceiveNew(m) \/ LoseMessage(m)
    BY <2>5 DEF FireFinal, ReceivePending, ReceiveCancel, ReceiveNew, Received, LoseMessage, nodeVars
  <2>6. QED  BY <1>5, <2>1, <2>2, <2>3, <2>4, <2>5 DEF NodeStep
<1>6. QED  BY <1>2, <1>4, <1>5 DEF Next

LEMMA QueueBefore ==
  ASSUME Typed, NEW n \in Nodes, [Next]_vars, NEW i \in DOMAIN queue'[n]
  PROVE  \/ \E k \in DOMAIN queue[n] : queue'[n][i] = queue[n][k]
         \/ \E p \in Procs : /\ Alive(n) /\ n # NodeOf(p)
                             /\ \/ PublishPending(p) /\ queue'[n][i] = Msg("pending", p, NoKeys)
                                \/ PublishCancel(p) /\ queue'[n][i] = Msg("cancel", p, NoKeys)
                                \/ PublishNew(p) /\ queue'[n][i] = Msg("new", p, made[p])
<1>1. NodesTyped /\ RedisTyped /\ NoKeys \in K /\ \A p \in Procs : made[p] \in K
  BY KeyTypes DEF Typed, CallsTyped
<1>2. CASE queue'[n] = queue[n]
  BY <1>2
<1>3. CASE Tick \/ UNCHANGED vars \/ \E j \in Jobs : BeginJob(j)
  BY <1>2, <1>3 DEF Tick, BeginJob, vars, redisVars
<1>4. ASSUME NEW p \in Procs, Generate(p) \/ LockRejected(p) \/ CallRejected(p) \/ UnlockRejected(p),
             queue'[n] # queue[n]
      PROVE  \/ \E k \in DOMAIN queue[n] : queue'[n][i] = queue[n][k]
             \/ /\ Alive(n) /\ n # NodeOf(p)
                /\ \/ PublishPending(p) /\ queue'[n][i] = Msg("pending", p, NoKeys)
                   \/ PublishCancel(p) /\ queue'[n][i] = Msg("cancel", p, NoKeys)
                   \/ PublishNew(p) /\ queue'[n][i] = Msg("new", p, made[p])
  <2>1. PICK m \in Message :
          /\ queue'[n] = Append(queue[n], m) /\ Alive(n) /\ n # NodeOf(p)
          /\ \/ PublishPending(p) /\ m = Msg("pending", p, NoKeys)
             \/ PublishCancel(p) /\ m = Msg("cancel", p, NoKeys)
             \/ PublishNew(p) /\ m = Msg("new", p, made[p])
    <3>1. \A e \in {"pending", "cancel", "new"}, k \in K : Msg(e, p, k) \in Message
      BY MessageTypes
    <3>2. QED  BY <1>1, <1>4, <3>1, CallQueues
  <2>2. /\ Len(queue[n]) \in Nat /\ DOMAIN queue[n] = 1..Len(queue[n]) /\ DOMAIN queue'[n] = 1..(Len(queue[n]) + 1)
        /\ \A k \in DOMAIN queue[n] : queue'[n][k] = queue[n][k]
        /\ queue'[n][Len(queue[n]) + 1] = m
    BY <2>1, Appended
  <2>3. i \in DOMAIN queue[n] \/ i = Len(queue[n]) + 1
    BY <2>2
  <2>4. QED  BY <2>1, <2>2, <2>3
<1>5. ASSUME NEW m \in Nodes, StartNode(m) \/ NodeStep(m) \/ LoseMessage(m) \/ Crash(m), queue'[n] # queue[n]
      PROVE  \E k \in DOMAIN queue[n] : queue'[n][i] = queue[n][k]
  <2>1. m = n
    BY <1>5, OtherNodes
  <2>2. CASE Crash(n)
    <3>1. queue'[n] = <<>>
      BY <1>1, <2>2 DEF Crash, RedisTyped
    <3>2. QED  BY <3>1
  <2>3. CASE queue[n] # <<>> /\ queue'[n] = Tail(queue[n])
    <3>1. /\ Len(queue[n]) \in Nat \ {0} /\ DOMAIN queue[n] = 1..Len(queue[n]) /\ DOMAIN queue'[n] = 1..(Len(queue[n]) - 1)
          /\ queue'[n][i] = queue[n][i + 1]
      BY <2>3, Shortened
    <3>2. i + 1 \in DOMAIN queue[n]
      BY <3>1
    <3>3. QED  BY <3>1, <3>2
  <2>4. StartNode(n) \/ FireRead(n) \/ FireFinal(n) \/ ReplyToStart(n) \/ ReplyToTimer(n) => queue' = queue
    BY DEF StartNode, FireRead, FireFinal, Fire, ReplyToStart, ReplyToTimer, Reply, redisVars
  <2>5. ReceivePending(n) \/ ReceiveCancel(n) \/ ReceiveNew(n) \/ LoseMessage(n) => queue[n] # <<>> /\ queue'[n] = Tail(queue[n])
    BY <1>1 DEF ReceivePending, ReceiveCancel, ReceiveNew, Received, LoseMessage, RedisTyped
  <2>6. QED  BY <1>5, <2>1, <2>2, <2>3, <2>4, <2>5 DEF NodeStep
<1>6. QED  BY <1>2, <1>3, <1>4, <1>5 DEF Next

LEMMA AtHead ==
  ASSUME Typed, NEW n \in Nodes, NEW event, Received(n, event)
  PROVE  /\ queue[n] # <<>> /\ queue'[n] = Tail(queue[n])
         /\ 1 \in DOMAIN queue[n] /\ Head(queue[n]) = queue[n][1] /\ queue[n][1].event = event
<1>1. RedisTyped
  BY DEF Typed
<1>2. queue[n] # <<>> /\ queue'[n] = Tail(queue[n]) /\ Head(queue[n]).event = event
  BY <1>1 DEF Received, RedisTyped
<1>3. QED  BY <1>2, Shortened

(* The new keys on their way to n are those that were, or those of a call. *)
LEMMA NewsBefore ==
  ASSUME Typed, NEW n \in Nodes, [Next]_vars, NEW i \in DOMAIN queue'[n], queue'[n][i].event = "new"
  PROVE  \/ \E k \in DOMAIN queue[n] : queue'[n][i] = queue[n][k]
         \/ \E p \in Procs : PublishNew(p) /\ step[p] = "publishing" /\ queue'[n][i].keys = made[p]
<1>1. \A e, p, k : Msg(e, p, k).event = e /\ Msg(e, p, k).keys = k
  BY DEF Msg
<1>2. \A p : PublishNew(p) => step[p] = "publishing"
  BY DEF PublishNew, Step
<1>3. CASE \E p \in Procs : /\ Alive(n) /\ n # NodeOf(p)
                             /\ \/ PublishPending(p) /\ queue'[n][i] = Msg("pending", p, NoKeys)
                                \/ PublishCancel(p) /\ queue'[n][i] = Msg("cancel", p, NoKeys)
                                \/ PublishNew(p) /\ queue'[n][i] = Msg("new", p, made[p])
  BY <1>1, <1>2, <1>3
<1>4. QED  BY <1>3, QueueBefore
(* Keys of a set that has the stored ones stay in it. *)
LEMMA AmongKept ==
  ASSUME Typed, NEW n \in Nodes, NodeLife(n), NEW V, Among(n, V), NoKeys \in V, store \in V, store' \in V,
         HasStored(n) => made[n] \in V,
         \A p \in Procs : PublishNew(p) => made[p] \in V,
         [Next]_vars
  PROVE  Among(n, V)'
<1>1. keys'[n] \in V
  <2>1. ReceiveNew(n) => Head(queue[n]).keys \in V
    <3>1. SUFFICES ASSUME ReceiveNew(n)  PROVE Head(queue[n]).keys \in V
      OBVIOUS
    <3>2. Received(n, "new")
      BY <3>1 DEF ReceiveNew
    <3>3. 1 \in DOMAIN queue[n] /\ Head(queue[n]) = queue[n][1] /\ queue[n][1].event = "new"
      BY <3>2, AtHead
    <3>4. QED  BY <3>3 DEF Among
  <2>2. CASE keys'[n] # keys[n]
    BY <2>1, <2>2, KeysBefore DEF Among
  <2>3. QED  BY <2>2 DEF Among
<1>2. \A rd \in reads'[n] : rd.val \in V
  BY ReadsBefore DEF Among
<1>3. \A i \in DOMAIN queue'[n] : queue'[n][i].event = "new" => queue'[n][i].keys \in V
  <2>1. SUFFICES ASSUME NEW i \in DOMAIN queue'[n], queue'[n][i].event = "new"
                 PROVE  queue'[n][i].keys \in V
    OBVIOUS
  <2>2. \/ \E k \in DOMAIN queue[n] : queue'[n][i] = queue[n][k]
        \/ \E p \in Procs : PublishNew(p) /\ step[p] = "publishing" /\ queue'[n][i].keys = made[p]
    BY <2>1, NewsBefore
  <2>3. QED  BY <2>1, <2>2 DEF Among
<1>4. QED  BY <1>1, <1>2, <1>3 DEF Among

LEMMA HasKeysKept ==
  ASSUME Typed, NEW n \in Nodes, NodeLife(n), HasKeys(n), \A p \in Procs : Made(p), [Next]_vars
  PROVE  HasKeys(n)'
<1>1. /\ NodesTyped /\ n \in Procs /\ n \notin Jobs
      /\ \A i \in DOMAIN queue[n] : queue[n][i].event = "new" => queue[n][i].keys # NoKeys
  BY Constants DEF Typed, HasKeys
<1>2. \A i \in DOMAIN queue'[n] : queue'[n][i].event = "new" => queue'[n][i].keys # NoKeys
  <2>1. SUFFICES ASSUME NEW i \in DOMAIN queue'[n], queue'[n][i].event = "new"
                 PROVE  queue'[n][i].keys # NoKeys
    OBVIOUS
  <2>2. \/ \E k \in DOMAIN queue[n] : queue'[n][i] = queue[n][k]
        \/ \E p \in Procs : PublishNew(p) /\ step[p] = "publishing" /\ queue'[n][i].keys = made[p]
    BY <2>1, NewsBefore
  <2>3. QED  BY <1>1, <2>1, <2>2 DEF Made
<1>3. status'[n] = "down" => status[n] = "down"
  <2>1. SUFFICES ASSUME status'[n] = "down", status[n] # "down"  PROVE FALSE
    OBVIOUS
  <2>2. ~UNCHANGED status /\ ~Tick /\ (\A j \in Jobs : ~BeginJob(j)) /\ ~UNCHANGED vars
    BY <2>1 DEF Tick, BeginJob, vars, nodeVars
  <2>3. \A m \in Nodes, s \in {"starting", "up", "dead"} : status' # [status EXCEPT ![m] = s]
    BY <1>1, <2>1 DEF NodesTyped
  <2>4. \A p \in Procs : ~Throw(p) /\ \A k : ~Return(p, k)
    BY <2>2, <2>3 DEF Return, Throw, Keyed, Procs
  <2>5. \A p \in Procs : ~(Generate(p) \/ LockRejected(p) \/ CallRejected(p) \/ UnlockRejected(p))
    BY <2>2, <2>4 DEF Generate, GetLock, NoLockForUs, ReadKeys, PublishPending, StoreKeys, StoreRefused,
       PublishCancel, PublishNew, UnlockKeys, UnlockAndThrow, Step, LockRejected, CallRejected, UnlockRejected, nodeVars
  <2>6. \A m \in Nodes : ~(StartNode(m) \/ NodeStep(m) \/ LoseMessage(m) \/ Crash(m))
    BY <2>2, <2>3 DEF StartNode, NodeStep, ReplyToStart, ReplyToTimer, Keyed, FireRead, FireFinal, Fire,
       ReceivePending, ReceiveCancel, ReceiveNew, Received, LoseMessage, Crash, nodeVars
  <2>7. QED  BY <2>2, <2>5, <2>6 DEF Next
<1>4. status'[n] = "down" => queue'[n] = <<>>
  <2>1. SUFFICES ASSUME status'[n] = "down"  PROVE queue'[n] = <<>>
    OBVIOUS
  <2>2. queue[n] = <<>> /\ ~Alive(n)
    BY <1>3, <2>1 DEF HasKeys, Alive
  <2>3. DOMAIN queue'[n] = {}
    <3>1. SUFFICES ASSUME NEW i \in DOMAIN queue'[n]  PROVE FALSE
      OBVIOUS
    <3>2. DOMAIN queue[n] = {}
      BY <2>2
    <3>3. QED  BY <2>2, <3>2, QueueBefore
  <2>4. queue'[n] \in Seq(Message)
    BY TypedStep DEF Typed, RedisTyped
  <2>5. Len(queue'[n]) \in Nat /\ DOMAIN queue'[n] = 1..Len(queue'[n]) /\ (queue'[n] # <<>> => Len(queue'[n]) # 0)
    BY <2>4, LenProperties, EmptySeq
  <2>6. Len(queue'[n]) = 0
    <3>1. Len(queue'[n]) # 0 => 1 \in 1..Len(queue'[n])
      BY <2>5
    <3>2. QED  BY <2>3, <2>5, <3>1
  <2>7. QED  BY <2>5, <2>6
<1>5. status'[n] = "up" => keys'[n] # NoKeys
  <2>1. SUFFICES ASSUME status'[n] = "up"  PROVE keys'[n] # NoKeys
    OBVIOUS
  <2>2. CASE keys'[n] # keys[n]
    <3>1. ReceiveNew(n) => Head(queue[n]).keys # NoKeys
      <4>1. SUFFICES ASSUME ReceiveNew(n)  PROVE Head(queue[n]).keys # NoKeys
        OBVIOUS
      <4>2. Received(n, "new")
        BY <4>1 DEF ReceiveNew
      <4>3. 1 \in DOMAIN queue[n] /\ Head(queue[n]) = queue[n][1] /\ queue[n][1].event = "new"
        BY <4>2, AtHead
      <4>4. QED  BY <1>1, <4>3
    <3>2. QED  BY <2>1, <2>2, <3>1, KeysBefore DEF Made, HasStored
  <2>3. CASE status[n] = "up"
    BY <2>2, <2>3 DEF HasKeys
  <2>4. CASE keys'[n] = keys[n] /\ status[n] # "up"
    <3>1. ~UNCHANGED status /\ ~Tick /\ (\A j \in Jobs : ~BeginJob(j)) /\ ~UNCHANGED vars
      BY <2>1, <2>4 DEF Tick, BeginJob, vars, nodeVars
    <3>2. ASSUME NEW m \in Nodes, NEW k, Keyed(m, k), k # NoKeys  PROVE keys'[n] # NoKeys
      BY <1>1, <2>1, <2>4, <3>2 DEF Keyed, NodesTyped
    <3>3. \A m \in Nodes, s \in {"starting", "dead"} : status' # [status EXCEPT ![m] = s]
      BY <1>1, <2>1, <2>4 DEF NodesTyped
    <3>4. \A p \in Procs : ~Throw(p) /\ \A k : Return(p, k) => keys'[n] # NoKeys
      BY <3>1, <3>2, <3>3 DEF Return, Throw, Procs
    <3>5. ASSUME NEW p \in Procs, Generate(p) \/ LockRejected(p) \/ CallRejected(p) \/ UnlockRejected(p)
          PROVE  keys'[n] # NoKeys
      BY <3>1, <3>4, <3>5 DEF Generate, GetLock, NoLockForUs, ReadKeys, PublishPending, StoreKeys, StoreRefused,
         PublishCancel, PublishNew, UnlockKeys, UnlockAndThrow, Step, LockRejected, CallRejected, UnlockRejected, nodeVars
    <3>6. ASSUME NEW m \in Nodes, StartNode(m) \/ NodeStep(m) \/ LoseMessage(m) \/ Crash(m)
          PROVE  keys'[n] # NoKeys
      BY <3>1, <3>2, <3>3, <3>6 DEF StartNode, NodeStep, ReplyToStart, ReplyToTimer, FireRead, FireFinal, Fire,
         ReceivePending, ReceiveCancel, ReceiveNew, Received, LoseMessage, Crash, nodeVars
    <3>7. QED  BY <3>1, <3>5, <3>6 DEF Next
  <2>5. QED  BY <2>2, <2>3, <2>4
<1>6. QED  BY <1>2, <1>4, <1>5 DEF HasKeys

(* Only a rotation of keys that are there gives a key a start. *)
LEMMA StoreChange ==
  ASSUME Typed, [Next]_vars, store' # store, ~overrun', \A p \in Procs : Current(p) /\ Made(p)
  PROVE  \E p \in Procs : /\ step[p] = "storing" /\ store' = made[p] /\ made[p] # NoKeys /\ lock.by = p /\ now < endOfLock[p]
                          /\ made[p].start = 0 => store = NoKeys
                          /\ OwnedBy(lock, NodeOf(p), now) /\ now' = now /\ lock' = lock
                          /\ StoreKeys(p) \/ CallRejected(p)
<1>1. PICK p \in Procs : /\ step[p] = "storing" /\ OwnedBy(lock, NodeOf(p), now) /\ store' = made[p] /\ Overrun(p)
                         /\ lock' = lock /\ now' = now /\ (StoreKeys(p) \/ CallRejected(p))
  BY StoreStep
<1>2. lock.by = p /\ ~(now >= endOfLock[p]) /\ ~overrun
  BY <1>1 DEF Overrun
<1>3. now < endOfLock[p]
  BY <1>2 DEF Typed, RedisTyped, CallsTyped
<1>4. made[p] # NoKeys /\ (made[p].start = 0 => store = NoKeys)
  BY <1>1, <1>2 DEF Made, Current
<1>5. QED  BY <1>1, <1>2, <1>3, <1>4

LEMMA SingleKept ==
  ASSUME Typed, \A n \in Nodes : NodeLife(n), \A p \in Procs : Made(p) /\ Current(p), Single, [Next]_vars
  PROVE  Single'
<1>1. (overrun => overrun') /\ (\A n \in Nodes : n \in Procs /\ NodeOf(n) = n) /\ \A p \in Procs : NodeOf(p) \in Nodes
  BY OverrunStays, Constants
<1>2. SUFFICES ASSUME store'.start = 0, ~overrun'  PROVE Single'
  BY DEF Single
<1>3. CASE store' = store
  <2>1. /\ \A n \in Nodes : Among(n, {store, NoKeys})
        /\ \A p \in Procs : HasStored(p) => made[p] = store
    BY <1>1, <1>2, <1>3 DEF Single
  <2>2. ASSUME NEW n \in Nodes  PROVE Among(n, {store, NoKeys})'
    <3>1. PICK V : V = {store, NoKeys}
      OBVIOUS
    <3>2. \A p \in Procs : PublishNew(p) => HasStored(p)
      BY DEF PublishNew, Step, Made, HasStored
    <3>3. Among(n, V)'
      BY <1>1, <1>3, <2>1, <3>1, <3>2, AmongKept
    <3>4. QED  BY <1>3, <3>1, <3>3 DEF Among
  <2>3. ASSUME NEW p \in Procs, HasStored(p)'  PROVE made'[p] = store'
    BY <1>1, <1>3, <2>1, <2>3, StoredBefore
  <2>4. QED  BY <2>2, <2>3 DEF Single
<1>4. CASE store' # store
  <2>1. PICK q \in Procs : /\ step[q] = "storing" /\ store' = made[q] /\ lock.by = q
                           /\ made[q].start = 0 => store = NoKeys
    BY <1>2, <1>4, StoreChange
  <2>2. store = NoKeys /\ store.start = 0
    BY <1>2, <2>1 DEF NoKeys
  <2>3. /\ \A n \in Nodes : Among(n, {store, NoKeys})
        /\ \A p \in Procs : HasStored(p) => made[p] = store
    BY <1>1, <1>2, <2>2 DEF Single
  <2>4. \A p \in Procs : ~HasStored(p)
    BY <2>2, <2>3 DEF HasStored
  <2>5. ASSUME NEW n \in Nodes  PROVE Among(n, {store, NoKeys})'
    <3>1. PICK V : V = {store', NoKeys}
      OBVIOUS
    <3>2. \A p \in Procs : PublishNew(p) => HasStored(p)
      BY DEF PublishNew, Step, Made, HasStored
    <3>3. Among(n, V)
      BY <2>2, <2>3, <3>1 DEF Among
    <3>4. Among(n, V)'
      BY <1>1, <2>2, <2>4, <3>1, <3>2, <3>3, AmongKept
    <3>5. QED  BY <3>1, <3>4 DEF Among
  <2>6. ASSUME NEW p \in Procs, HasStored(p)'  PROVE made'[p] = store'
    BY <1>1, <2>4, <2>6, StoredBefore
  <2>7. QED  BY <2>5, <2>6 DEF Single
<1>5. QED  BY <1>3, <1>4
-----------------------------------------------------------------------------
(* The first announcement of a call. *)
LEMMA ExpectsKept ==
  ASSUME Typed, \A m \in Nodes : NodeLife(m), NEW n \in Nodes, NEW p \in Procs, NEW e \in Nat,
         Alive(n), Alive(n)', n \notin lost', ~overrun', step[p] = "storing", lock.by = p, now < e,
         Expects(n, p, e), [Next]_vars
  PROVE  Expects(n, p, e)'
<1>1. NodesTyped /\ RedisTyped /\ now \in Nat /\ NoKeys \in K /\ \A q \in Procs : made[q] \in K
  BY KeyTypes DEF Typed, RedisTyped, CallsTyped
<1>2. ASSUME queue'[n] = queue[n],
             \A t \in timers[n] : t.kind = "pending" /\ t.at = e => t \in timers'[n]
      PROVE  Expects(n, p, e)'
  BY <1>2 DEF Expects, Undisturbed
<1>3. CASE Tick \/ UNCHANGED vars \/ \E j \in Jobs : BeginJob(j)
  BY <1>2, <1>3 DEF Tick, BeginJob, vars, nodeVars, redisVars
<1>4. ASSUME NEW q \in Procs, Generate(q) \/ LockRejected(q) \/ CallRejected(q) \/ UnlockRejected(q)
      PROVE  Expects(n, p, e)'
  <2>1. timers[n] \subseteq timers'[n]
    BY <1>4, CallQueues
  <2>2. CASE queue'[n] # queue[n]
    <3>1. PICK m \in Message :
            /\ queue'[n] = Append(queue[n], m) /\ m.event # "new" /\ m.proc = q /\ q # p
      <4>1. \A ev \in {"pending", "cancel", "new"}, k \in K :
              Msg(ev, q, k) \in Message /\ Msg(ev, q, k).event = ev /\ Msg(ev, q, k).proc = q
        BY MessageTypes DEF Msg
      <4>2. ~PublishNew(q)
        <5>1. SUFFICES ASSUME PublishNew(q)  PROVE FALSE
          OBVIOUS
        <5>2. Overrun(q) /\ step[q] = "publishing"
          BY <5>1 DEF PublishNew, Step
        <5>3. lock.by = q
          BY <5>2 DEF Overrun
        <5>4. QED  BY <5>2, <5>3
      <4>3. PublishPending(q) => q # p /\ queue'[n] = Append(queue[n], Msg("pending", q, NoKeys))
        <5>1. PublishPending(q) => step[q] = "warning" /\ ~PublishCancel(q)
          BY DEF PublishPending, PublishCancel, Step
        <5>2. QED  BY <1>4, <2>2, <4>2, <5>1, CallQueues
      <4>4. PublishCancel(q) => q # p /\ queue'[n] = Append(queue[n], Msg("cancel", q, NoKeys))
        <5>1. PublishCancel(q) => step[q] = "cancelling" /\ ~PublishPending(q)
          BY DEF PublishPending, PublishCancel, Step
        <5>2. QED  BY <1>4, <2>2, <4>2, <5>1, CallQueues
      <4>5. PublishPending(q) \/ PublishCancel(q)
        BY <1>4, <2>2, <4>2, CallQueues
      <4>6. QED  BY <1>1, <4>1, <4>3, <4>4, <4>5
    <3>2. /\ Len(queue[n]) \in Nat /\ DOMAIN queue[n] = 1..Len(queue[n]) /\ DOMAIN queue'[n] = 1..(Len(queue[n]) + 1)
          /\ \A k \in DOMAIN queue[n] : queue'[n][k] = queue[n][k]
          /\ queue'[n][Len(queue[n]) + 1] = m
      BY <3>1, Appended
    <3>3. \A k \in DOMAIN queue'[n] : k \in DOMAIN queue[n] \/ queue'[n][k] = m
      BY <3>2
    <3>4. \A k \in DOMAIN queue[n] : k \in DOMAIN queue'[n]
      BY <3>2
    <3>5. \A i : Undisturbed(n, p, i) => Undisturbed(n, p, i)'
      BY <3>1, <3>2, <3>3 DEF Undisturbed
    <3>6. QED  BY <2>1, <3>2, <3>4, <3>5 DEF Expects
  <2>3. QED  BY <1>2, <2>1, <2>2
<1>5. ASSUME queue[n] # <<>>, queue'[n] = Tail(queue[n]),
             \A t \in timers[n] : t.kind = "pending" /\ t.proc = p /\ Undisturbed(n, p, 0) => t \in timers'[n],
             /\ queue[n][1].event = "pending" /\ queue[n][1].proc = p /\ queue[n][1].end = e
             => \E t \in timers'[n] : t.kind = "pending" /\ t.proc = p /\ t.at = e
      PROVE  Expects(n, p, e)'
  <2>1. /\ Len(queue[n]) \in Nat \ {0} /\ DOMAIN queue[n] = 1..Len(queue[n]) /\ DOMAIN queue'[n] = 1..(Len(queue[n]) - 1)
        /\ \A k \in DOMAIN queue'[n] : queue'[n][k] = queue[n][k + 1] /\ k + 1 \in DOMAIN queue[n]
    BY <1>5, Shortened
  <2>2. Undisturbed(n, p, 0) => Undisturbed(n, p, 0)'
    BY <2>1 DEF Undisturbed
  <2>3. ASSUME NEW i \in DOMAIN queue[n], Undisturbed(n, p, i)  PROVE Undisturbed(n, p, i - 1)'
    <3>1. i \in Nat
      BY <2>1
    <3>2. SUFFICES ASSUME NEW k \in DOMAIN queue'[n], k > i - 1
                   PROVE  queue'[n][k].event # "new" /\ (queue'[n][k].proc = p => queue'[n][k].event # "cancel")
      BY DEF Undisturbed
    <3>3. k + 1 > i /\ k + 1 \in DOMAIN queue[n] /\ queue'[n][k] = queue[n][k + 1]
      BY <2>1, <3>1, <3>2
    <3>4. QED  BY <2>3, <3>3 DEF Undisturbed
  <2>4. CASE (\E t \in timers[n] : t.kind = "pending" /\ t.proc = p /\ t.at = e) /\ Undisturbed(n, p, 0)
    BY <1>5, <2>2, <2>4 DEF Expects
  <2>5. ASSUME NEW k \in DOMAIN queue[n], queue[n][k].event = "pending", queue[n][k].proc = p, queue[n][k].end = e,
               Undisturbed(n, p, k)
        PROVE  Expects(n, p, e)'
    <3>1. CASE k = 1
      <4>1. Undisturbed(n, p, 0)'
        BY <2>3, <2>5, <3>1
      <4>2. QED  BY <1>5, <2>5, <3>1, <4>1 DEF Expects
    <3>2. CASE k # 1
      <4>1. PICK l : l = k - 1
        OBVIOUS
      <4>2. l \in DOMAIN queue'[n] /\ queue'[n][l] = queue[n][k]
        BY <2>1, <3>2, <4>1
      <4>3. Undisturbed(n, p, l)'
        BY <2>3, <2>5, <4>1
      <4>4. QED  BY <2>5, <4>2, <4>3 DEF Expects
    <3>3. QED  BY <3>1, <3>2
  <2>6. QED  BY <2>4, <2>5 DEF Expects
<1>6. ASSUME StartNode(n) \/ NodeStep(n) \/ LoseMessage(n) \/ Crash(n)
      PROVE  Expects(n, p, e)'
  <2>1. CASE StartNode(n)
    BY <2>1 DEF StartNode, Alive
  <2>2. CASE LoseMessage(n) \/ Crash(n)
    BY <1>1, <2>2 DEF LoseMessage, Crash, NodesTyped, Alive
  <2>3. CASE FireRead(n) \/ FireFinal(n)
    <3>1. PICK u \in timers[n] : Fire(n, u)
      BY <2>3 DEF FireRead, FireFinal
    <3>2. queue' = queue /\ timers'[n] = timers[n] \ {u} /\ now >= u.at
      BY <1>1, <3>1 DEF Fire, NodesTyped, redisVars
    <3>3. u.at # e
      BY <1>1, <3>2
    <3>4. QED  BY <1>2, <3>2, <3>3
  <2>4. CASE ReplyToStart(n)
    BY <1>2, <2>4 DEF ReplyToStart, Reply, redisVars
  <2>5. CASE ReplyToTimer(n)
    BY <1>1, <1>2, <2>5 DEF ReplyToTimer, Reply, AddTimer, NodesTyped, redisVars
  <2>6. CASE ReceivePending(n)
    <3>1. Received(n, "pending") /\ timers'[n] = timers[n] \cup {Timer("pending", Head(queue[n]).end, Head(queue[n]).proc)}
      BY <1>1, <2>6 DEF ReceivePending, AddTimer, NodesTyped
    <3>2. queue[n] # <<>> /\ queue'[n] = Tail(queue[n]) /\ Head(queue[n]) = queue[n][1]
      BY <3>1, AtHead
    <3> DEFINE u == Timer("pending", queue[n][1].end, queue[n][1].proc)
    <3>3. u \in timers'[n] /\ u.kind = "pending" /\ u.at = queue[n][1].end /\ u.proc = queue[n][1].proc
      BY <3>1, <3>2 DEF Timer
    <3>4. timers[n] \subseteq timers'[n]
      BY <3>1
    <3> HIDE DEF u
    <3>5. QED  BY <1>5, <3>2, <3>3, <3>4
  <2>7. CASE ReceiveCancel(n)
    <3>1. Received(n, "cancel") /\ timers'[n] = NoPending(n, Head(queue[n]).proc)
      BY <1>1, <2>7 DEF ReceiveCancel, NodesTyped
    <3>2. /\ queue[n] # <<>> /\ queue'[n] = Tail(queue[n]) /\ Head(queue[n]) = queue[n][1]
          /\ 1 \in DOMAIN queue[n] /\ queue[n][1].event = "cancel"
      BY <3>1, AtHead
    <3>3. Undisturbed(n, p, 0) => queue[n][1].proc # p
      BY <3>2 DEF Undisturbed
    <3>4. QED  BY <1>5, <3>1, <3>2, <3>3 DEF NoPending
  <2>8. CASE ReceiveNew(n)
    <3>1. Received(n, "new")
      BY <2>8 DEF ReceiveNew
    <3>2. /\ queue[n] # <<>> /\ queue'[n] = Tail(queue[n]) /\ Head(queue[n]) = queue[n][1]
          /\ 1 \in DOMAIN queue[n] /\ queue[n][1].event = "new"
      BY <3>1, AtHead
    <3>3. ~Undisturbed(n, p, 0)
      BY <3>2 DEF Undisturbed
    <3>4. QED  BY <1>5, <3>2, <3>3
  <2>9. QED  BY <1>6, <2>1, <2>2, <2>3, <2>4, <2>5, <2>6, <2>7, <2>8 DEF NodeStep
<1>7. ASSUME NEW m \in Nodes, m # n, StartNode(m) \/ NodeStep(m) \/ LoseMessage(m) \/ Crash(m)
      PROVE  Expects(n, p, e)'
  BY <1>2, <1>7, OtherNodes
<1>8. QED  BY <1>3, <1>4, <1>6, <1>7 DEF Next

LEMMA AdvisedKept ==
  ASSUME Typed, \A m \in Nodes : NodeLife(m), NEW n \in Nodes, NEW p \in Procs, Advised(n, p), [Next]_vars
  PROVE  Advised(n, p)'
<1>1. /\ between \subseteq between' /\ lost \subseteq lost' /\ (overrun => overrun')
      /\ now \in Nat /\ (now' = now \/ now' = now + 1) /\ NodeOf(p) \in Nodes
      /\ \A q \in Procs : endOfLock[q] \in Nat /\ made[q] \in K
  BY HistoryGrows, OverrunStays, ClockStep, Constants DEF Typed, RedisTyped, CallsTyped
<1>2. SUFFICES ASSUME Alive(n)', n # NodeOf(p), n \notin between' \cup lost', ~overrun',
                      step'[p] = "storing", made'[p].start # 0, lock'.by = p, now' < endOfLock'[p]
               PROVE  Expects(n, p, endOfLock[p])'
  BY DEF Advised
<1>3. CASE step[p] = "storing"
  <2>1. lock.by = p /\ made'[p] = made[p] /\ endOfLock'[p] = endOfLock[p]
    <3>1. ~(Generate(p) \/ LockRejected(p) \/ CallRejected(p) \/ UnlockRejected(p))
      BY <1>2, <1>3, CallStep
    <3>2. lock.by = p
      BY <1>2, <1>3, LockKept
    <3>3. QED  BY <1>1, <1>2, <1>3, <3>1, <3>2, CallChange
  <2>2. Alive(n)
    <3>1. StartNode(n) => n \in between'
      BY <1>3 DEF StartNode
    <3>2. QED  BY <1>2, <3>1, AliveBefore
  <2>3. PICK e \in Nat : e = endOfLock[p]
    BY <1>1
  <2>4. Expects(n, p, e) /\ now < e
    BY <1>1, <1>2, <1>3, <2>1, <2>2, <2>3 DEF Advised
  <2>5. Expects(n, p, e)'
    BY <1>2, <1>3, <2>1, <2>2, <2>4, ExpectsKept
  <2>6. QED  BY <2>1, <2>3, <2>5 DEF Expects
<1>4. CASE step[p] # "storing"
  <2>1. Generate(p) \/ LockRejected(p) \/ CallRejected(p) \/ UnlockRejected(p)
    BY <1>1, <1>2, <1>4, CallChange
  <2>2. CASE ReadKeys(p)
    <3>1. store = NoKeys /\ made'[p] = Rotated(store, nextKey, now)
      BY <1>2, <2>1, <2>2, CallStep DEF Typed, CallsTyped, ReadKeys, Step
    <3>2. made'[p].start = 0
      BY <3>1 DEF Rotated, FirstKeys, NoKeys
    <3>3. QED  BY <1>2, <3>2
  <2>3. CASE ~ReadKeys(p)
    <3>1. PublishPending(p) /\ endOfLock' = endOfLock
      BY <1>2, <1>4, <2>1, <2>3, CallStep
    <3>2. Alive(n) /\ queue' = [m \in Nodes |-> IF Alive(m) /\ m # NodeOf(p)
                                THEN Append(queue[m], Msg("pending", p, NoKeys)) ELSE queue[m]]
      BY <1>2, <3>1 DEF PublishPending, Step, Alive, Broadcast, Msg
    <3>3. queue'[n] = Append(queue[n], Msg("pending", p, NoKeys))
      BY <1>2, <3>2
    <3>4. Msg("pending", p, NoKeys) \in Message
      BY MessageTypes, KeyTypes
    <3>5. /\ Len(queue[n]) \in Nat /\ DOMAIN queue'[n] = 1..(Len(queue[n]) + 1)
          /\ queue'[n][Len(queue[n]) + 1] = Msg("pending", p, NoKeys)
      BY <3>3, <3>4, Appended
    <3>6. PICK k : k = Len(queue[n]) + 1
      OBVIOUS
    <3>7. /\ k \in DOMAIN queue'[n] /\ Undisturbed(n, p, k)'
      BY <3>5, <3>6 DEF Undisturbed
    <3>8. queue'[n][k].event = "pending" /\ queue'[n][k].proc = p /\ queue'[n][k].end = endOfLock'[p]
      BY <3>1, <3>5, <3>6 DEF Msg
    <3>9. QED  BY <3>7, <3>8 DEF Expects
  <2>4. QED  BY <2>2, <2>3
<1>5. QED  BY <1>3, <1>4
-----------------------------------------------------------------------------
(* What is announced to a node stays announced. *)
LEMMA ToldKept ==
  ASSUME NEW n \in Nodes, NEW i, NEW j, NEW d, NoFault' => NoFault, n \in between => n \in between',
         Announced(n, i) => Announced(n, j)', Pending(n, i, d) => Pending(n, j, d)', Told(n, i, d)
  PROVE  Told(n, j, d)'
<1>1. CASE NoFault'
  BY <1>1 DEF Told
<1>2. CASE ~NoFault'
  BY <1>2 DEF Told
<1>3. QED  BY <1>1, <1>2

(* Messages are added at the end of the queue of n. *)
LEMMA AddedKept ==
  ASSUME NEW n \in Nodes, now' = now, store' = store, \A p \in Procs : Past(p) => Past(p)',
         \A k \in DOMAIN queue[n] : k \in DOMAIN queue'[n] /\ queue'[n][k] = queue[n][k],
         \A k \in DOMAIN queue'[n] : \/ k \in DOMAIN queue[n]
                                     \/ /\ queue'[n][k].event = "cancel" => ~Past(queue'[n][k].proc)
                                        /\ queue'[n][k].event = "new" => queue'[n][k].keys = store,
         \A t \in timers[n] : t.kind = "pending" => t \in timers'[n]
  PROVE  /\ \A i : News(n, i) => News(n, i)'
         /\ \A i, d : Pending(n, i, d) => Pending(n, i, d)'
<1>1. ASSUME NEW i, News(n, i)  PROVE News(n, i)'
  BY <1>1 DEF News, OnTime, Soon
<1>2. ASSUME NEW p \in Procs, NEW i, Past(p), Kept(n, p, i)  PROVE Kept(n, p, i)'
  <2>1. SUFFICES ASSUME NEW k \in DOMAIN queue'[n], k > i, queue'[n][k].proc = p
                 PROVE  queue'[n][k].event # "cancel" /\ (queue'[n][k].event = "new" => queue'[n][k].keys = store')
    BY DEF Kept
  <2>2. QED  BY <1>2, <2>1 DEF Kept
<1>3. ASSUME NEW i, NEW d, Pending(n, i, d)  PROVE Pending(n, i, d)'
  <2>1. PICK p \in Procs : Past(p) /\ Pends(n, p, i, d)
    BY <1>3 DEF Pending
  <2>2. Waits(n, p, d) => Waits(n, p, d)'
    BY DEF Waits, OnTime, Soon
  <2>3. \A k \in DOMAIN queue[n] : Comes(n, p, k, d) => Comes(n, p, k, d)'
    BY DEF Comes, OnTime, Soon
  <2>4. Pends(n, p, i, d)'
    BY <1>2, <2>1, <2>2, <2>3 DEF Pends
  <2>5. QED  BY <2>1, <2>4 DEF Pending
<1>4. QED  BY <1>1, <1>3

(* The first message of the queue of n is taken. *)
LEMMA TakenKept ==
  ASSUME Typed, NEW n \in Nodes, now' = now, store' = store, \A p \in Procs : Past(p) => Past(p)',
         queue[n] # <<>>, queue'[n] = Tail(queue[n])
  PROVE  /\ \A i \in DOMAIN queue'[n] : i + 1 \in DOMAIN queue[n] /\ queue'[n][i] = queue[n][i + 1]
         /\ \A i \in DOMAIN queue[n], j \in Nat : i = j + 1 => (News(n, i) => News(n, j)')
         /\ \A i \in DOMAIN queue[n], j \in Nat, d \in {0, 1} : i = j + 1 => (Pending(n, i, d) => Pending(n, j, d)')
         /\ \A p \in Procs : Kept(n, p, 0) \/ Kept(n, p, 1) => Kept(n, p, 0)'
         /\ queue[n][1].event # "new" => (News(n, 0) => News(n, 0)')
         /\ \A p \in Procs, d \in {0, 1}, k \in DOMAIN queue[n] \ {1} :
              Past(p) /\ Comes(n, p, k, d) /\ Kept(n, p, k) => Pending(n, 0, d)'
<1>1. /\ Len(queue[n]) \in Nat \ {0} /\ DOMAIN queue[n] = 1..Len(queue[n]) /\ DOMAIN queue'[n] = 1..(Len(queue[n]) - 1)
      /\ \A k \in DOMAIN queue'[n] : queue'[n][k] = queue[n][k + 1] /\ k + 1 \in DOMAIN queue[n]
  BY Shortened
<1>2. ASSUME NEW p \in Procs, NEW i \in DOMAIN queue[n], NEW j \in Nat, i = j + 1, Kept(n, p, i)  PROVE Kept(n, p, j)'
  <2>1. SUFFICES ASSUME NEW k \in DOMAIN queue'[n], k > j, queue'[n][k].proc = p
                 PROVE  queue'[n][k].event # "cancel" /\ (queue'[n][k].event = "new" => queue'[n][k].keys = store')
    BY DEF Kept
  <2>2. k + 1 > i /\ k + 1 \in DOMAIN queue[n] /\ queue'[n][k] = queue[n][k + 1]
    BY <1>1, <1>2, <2>1
  <2>3. QED  BY <1>2, <2>1, <2>2 DEF Kept
<1>3. ASSUME NEW p \in Procs, Kept(n, p, 0) \/ Kept(n, p, 1)  PROVE Kept(n, p, 0)'
  <2>1. 1 \in DOMAIN queue[n] /\ Kept(n, p, 1)
    BY <1>1, <1>3 DEF Kept
  <2>2. QED  BY <1>2, <2>1
<1>4. ASSUME NEW k \in DOMAIN queue[n], NEW i \in Nat, NEW j \in Nat, k > i, k # 1, i = j \/ i = j + 1, i = j => i = 0
      PROVE  \E l \in DOMAIN queue'[n] : k = l + 1 /\ queue'[n][l] = queue[n][k] /\ l > j
  <2>1. k - 1 \in DOMAIN queue'[n] /\ k = (k - 1) + 1 /\ k - 1 > j
    BY <1>1, <1>4
  <2>2. QED  BY <1>1, <2>1
<1>5. ASSUME NEW i \in Nat, NEW j \in Nat, News(n, i), i = j \/ i = j + 1, i = j => i = 0 /\ queue[n][1].event # "new"
      PROVE  News(n, j)'
  <2>1. PICK k \in DOMAIN queue[n] :
          k > i /\ queue[n][k].event = "new" /\ queue[n][k].keys = store /\ OnTime(queue[n][k].end, 1)
    BY <1>5 DEF News
  <2>2. k # 1
    BY <1>5, <2>1
  <2>3. PICK l \in DOMAIN queue'[n] : queue'[n][l] = queue[n][k] /\ l > j
    BY <1>4, <1>5, <2>1, <2>2
  <2>4. QED  BY <2>1, <2>3 DEF News, OnTime, Soon
<1>6. ASSUME NEW p \in Procs, NEW d, NEW k \in DOMAIN queue[n] \ {1}, NEW i \in Nat, NEW j \in Nat,
             k > i, i = j \/ i = j + 1, i = j => i = 0,
             Past(p), Comes(n, p, k, d), Kept(n, p, k)
      PROVE  Pending(n, j, d)'
  <2>1. PICK l \in DOMAIN queue'[n] : k = l + 1 /\ queue'[n][l] = queue[n][k] /\ l > j
    BY <1>4, <1>6
  <2>2. l \in Nat
    BY <1>1
  <2>3. Kept(n, p, l)'
    BY <1>2, <1>6, <2>1, <2>2
  <2>4. Comes(n, p, l, d)'
    BY <1>6, <2>1 DEF Comes, OnTime, Soon
  <2>5. QED  BY <1>6, <2>1, <2>3, <2>4 DEF Pending, Pends
<1>7. ASSUME NEW i \in DOMAIN queue[n], NEW j \in Nat, NEW d, i = j + 1, Pending(n, i, d)  PROVE Pending(n, j, d)'
  <2>1. i \in Nat /\ i # 0
    BY <1>1
  <2>2. PICK p \in Procs : Past(p) /\ \E k \in DOMAIN queue[n] : k > i /\ Comes(n, p, k, d) /\ Kept(n, p, k)
    BY <1>7, <2>1 DEF Pending, Pends
  <2>3. PICK k \in DOMAIN queue[n] : k > i /\ Comes(n, p, k, d) /\ Kept(n, p, k)
    BY <2>2
  <2>4. k # 1
    BY <1>1, <2>1, <2>3
  <2>5. QED  BY <1>6, <1>7, <2>1, <2>2, <2>3, <2>4
<1>8. \A i \in DOMAIN queue[n] : i \in Nat /\ i > 0
  BY <1>1
<1>9. \A i \in DOMAIN queue[n], j \in Nat : i = j + 1 => (News(n, i) => News(n, j)')
  BY <1>5, <1>8
<1>10. queue[n][1].event # "new" => (News(n, 0) => News(n, 0)')
  BY <1>5
<1>11. \A p \in Procs, d \in {0, 1}, k \in DOMAIN queue[n] \ {1} :
         Past(p) /\ Comes(n, p, k, d) /\ Kept(n, p, k) => Pending(n, 0, d)'
  BY <1>6, <1>8
<1>12. QED  BY <1>1, <1>3, <1>7, <1>9, <1>10, <1>11
-----------------------------------------------------------------------------
(* While its call has stored keys and not returned, a node has these keys. *)
LEMMA OwnKept ==
  ASSUME Typed, \A m \in Nodes : NodeLife(m), \A p \in Procs : Made(p), NEW n \in Nodes,
         Covered(n), [Next]_vars, Bound(n)'
  PROVE  OwnCovered(n)'
<1>1. /\ n \in Procs /\ n \notin Jobs /\ NodeOf(n) = n /\ NodeLife(n) /\ n \notin raced'
      /\ NodesTyped /\ HistTyped /\ \A p \in Procs : p \in Nodes => NodeOf(p) = p
  BY Constants, BoundBefore DEF Typed
<1>2. SUFFICES ASSUME HasStored(n)'  PROVE keys'[n] = made'[n]
  BY DEF OwnCovered
<1>3. step'[n] \in {"publishing", "unlocking"} /\ made'[n] # NoKeys
  BY <1>2 DEF HasStored
<1>4. CASE StoreKeys(n) /\ made'[n] = made[n]
  BY <1>1, <1>4 DEF StoreKeys, NodesTyped
<1>5. CASE HasStored(n) /\ made'[n] = made[n]
  <2>1. InCall(n) /\ step[n] \in {"publishing", "unlocking"} /\ ~StartNode(n)
    BY <1>1, <1>5 DEF InCall, HasStored, StartNode, NodeLife
  <2>2. keys[n] = made[n]
    BY <1>5, <2>1, BoundBefore DEF Covered, OwnCovered
  <2>3. SUFFICES ASSUME keys'[n] # keys[n]  PROVE FALSE
    BY <1>5, <2>2
  <2>4. ASSUME NEW p \in Procs, StoreKeys(p), NodeOf(p) = n, step[p] = "storing"  PROVE FALSE
    <3>1. p \in Jobs
      BY <1>1, <2>1, <2>4 DEF Procs
    <3>2. QED  BY <1>1, <2>1, <2>4, <3>1 DEF StoreKeys, Overtaken
  <2>5. ~UnlockKeys(n)
    BY <1>1, <1>3, Turns DEF UnlockKeys
  <2>6. ~ReplyToStart(n)
    BY <1>1, <2>1 DEF ReplyToStart, NodeLife
  <2>7. ~ReplyToTimer(n)
    BY <1>1, <2>1, <2>3 DEF ReplyToTimer
  <2>8. ~ReceiveNew(n)
    BY <1>1, <2>1 DEF ReceiveNew, Overtaken
  <2>9. QED  BY <1>1, <1>3, <2>3, <2>4, <2>5, <2>6, <2>7, <2>8, KeysBefore
<1>6. QED  BY <1>1, <1>2, <1>4, <1>5, StoredBefore

(* Before the first rotation there is nothing to agree about. *)
LEMMA AloneCovered ==
  ASSUME NEW n \in Nodes, store'.start = 0, ~overrun', Single', HasKeys(n)', OwnCovered(n)', n \in Procs
  PROVE  Covered(n)'
<1>1. /\ keys'[n] \in {store', NoKeys} /\ \A rd \in reads'[n] : rd.val \in {store', NoKeys}
      /\ \A i \in DOMAIN queue'[n] : queue'[n][i].event = "new" => queue'[n][i].keys \in {store', NoKeys}
      /\ HasStored(n)' => made'[n] = store'
  BY DEF Single, Among
<1>2. /\ status'[n] = "up" => keys'[n] # NoKeys
      /\ \A i \in DOMAIN queue'[n] : queue'[n][i].event = "new" => queue'[n][i].keys # NoKeys
      /\ HasStored(n)' => keys'[n] = made'[n]
  BY DEF HasKeys, OwnCovered
<1>3. KeysCovered(n)'
  BY <1>1, <1>2 DEF KeysCovered
<1>4. ReadsCovered(n)'
  BY <1>1 DEF ReadsCovered
<1>5. NewsCovered(n)'
  BY <1>1, <1>2 DEF NewsCovered
<1>6. QED  BY <1>3, <1>4, <1>5 DEF Covered

(* What is announced early enough for the next moment is for this one. *)

LEMMA ToldThen ==
  ASSUME Typed, [Next]_vars, NEW n \in Nodes, NEW i
  PROVE  Told(n, i, 1)' => Told(n, i, 0)'
<1>1. Typed'
  BY TypedStep
<1>2. now' \in Nat /\ queue'[n] \in Seq(Message) /\ timers'[n] \subseteq ATimer
  BY <1>1 DEF Typed, RedisTyped, NodesTyped
<1>3. \A t \in Nat : now' + 1 <= t => now' + 0 <= t
  <2>1. \A u, t \in Nat : u + 1 <= t => u + 0 <= t
    OBVIOUS
  <2>2. QED  BY <1>2, <2>1
<1>4. \A p : Waits(n, p, 1)' => Waits(n, p, 0)'
  BY <1>2, <1>3 DEF Waits, ATimer, OnTime
<1>5. \A k \in DOMAIN queue'[n] : queue'[n][k].end \in Nat
  <2>1. \A k \in DOMAIN queue'[n] : queue'[n][k] \in Message
    BY <1>2, ElementOfSeq, LenProperties
  <2>2. QED  BY <2>1 DEF Message
<1>6. \A p, k : k \in DOMAIN queue'[n] /\ Comes(n, p, k, 1)' => Comes(n, p, k, 0)'
  BY <1>3, <1>5 DEF Comes, OnTime
<1>7. Pending(n, i, 1)' => Pending(n, i, 0)'
  BY <1>4, <1>6 DEF Pending, Pends
<1>8. QED  BY <1>7 DEF Told
-----------------------------------------------------------------------------
(* When keys are stored, every other node has been advised, and still hears of
   them. *)
LEMMA StoreTold ==
  ASSUME Typed, NEW n \in Nodes, NEW p \in Procs, n # NodeOf(p), Advised(n, p), Made(p), Bound(n), Bound(n)',
         NoFault' => NoFault, n \in between => n \in between', ~overrun,
         step[p] = "storing", store' = made[p], made[p].start # 0, lock.by = p, now < endOfLock[p], now' = now,
         StoreKeys(p) \/ CallRejected(p)
  PROVE  Told(n, 0, 1)' /\ \A i \in DOMAIN queue[n] : queue[n][i].event = "new" => Told(n, i, 0)'
<1>1. /\ now \in Nat /\ endOfLock[p] \in Nat /\ queue[n] \in Seq(Message)
      /\ p \in Procs /\ NodeOf(p) \in Nodes /\ made[p] # NoKeys /\ made[p] \in K
  BY Constants DEF Typed, RedisTyped, CallsTyped, Made
<1>2. queue' = queue /\ timers' = timers
  BY DEF StoreKeys, CallRejected, Rejects, nodeVars
<1>3. DOMAIN queue[n] = 1..Len(queue[n]) /\ Len(queue[n]) \in Nat
  BY <1>1, LenProperties
<1>4. PICK e \in Nat : e = endOfLock[p]
  BY <1>1
<1>5. OnTime(e, 0)' /\ OnTime(e, 1)'
  <2>1. now' + 1 <= e /\ now' + 0 <= e
    BY <1>1, <1>4
  <2>2. e + StartDelay <= store'.start + LockTtl
    BY <1>4 DEF Made
  <2>3. QED  BY <2>1, <2>2 DEF OnTime, Soon
<1>6. ASSUME Expects(n, p, e), Past(p)'
      PROVE  Pending(n, 0, 1)' /\ \A i \in DOMAIN queue[n] : queue[n][i].event = "new" => Pending(n, i, 0)'
  <2>1. \A i : Undisturbed(n, p, i) => Kept(n, p, i)'
    BY <1>2 DEF Undisturbed, Kept
  <2>2. CASE (\E t \in timers[n] : t.kind = "pending" /\ t.proc = p /\ t.at = e) /\ Undisturbed(n, p, 0)
    <3>1. Waits(n, p, 1)'
      BY <1>2, <1>5, <2>2 DEF Waits, OnTime, Soon
    <3>2. \A i \in DOMAIN queue[n] : queue[n][i].event # "new"
      BY <1>3, <2>2 DEF Undisturbed
    <3>3. QED  BY <1>6, <2>1, <2>2, <3>1, <3>2 DEF Pending, Pends
  <2>3. ASSUME NEW k \in DOMAIN queue[n], queue[n][k].event = "pending", queue[n][k].proc = p, queue[n][k].end = e,
               Undisturbed(n, p, k)
        PROVE  Pending(n, 0, 1)' /\ \A i \in DOMAIN queue[n] : queue[n][i].event = "new" => Pending(n, i, 0)'
    <3>1. Comes(n, p, k, 1)' /\ Comes(n, p, k, 0)' /\ Kept(n, p, k)' /\ k \in DOMAIN queue'[n]
      BY <1>2, <1>5, <2>1, <2>3 DEF Comes, OnTime, Soon
    <3>2. k > 0
      BY <1>3
    <3>3. \A i \in DOMAIN queue[n] : queue[n][i].event = "new" => k > i
      BY <1>3, <2>3 DEF Undisturbed
    <3>4. QED  BY <1>6, <3>1, <3>2, <3>3 DEF Pending, Pends
  <2>4. QED  BY <1>6, <2>2, <2>3 DEF Expects
<1>7. CASE StoreKeys(p)
  <2>1. step'[p] = "publishing" /\ made'[p] = made[p] /\ lost' = lost
    BY <1>7, Turns DEF StoreKeys, Step
  <2>2. \A i : Announced(n, i)'
    BY <1>1, <2>1 DEF Announced, Publisher
  <2>3. Past(p)'
    BY <1>1, <2>1 DEF Past, HasStored
  <2>4. NoFault' /\ n \notin between' => Expects(n, p, e)
    BY <1>4 DEF Advised, Bound, NoFault
  <2>5. QED  BY <1>6, <2>2, <2>3, <2>4 DEF Told
<1>8. CASE CallRejected(p)
  <2>1. rejected' = {p} /\ NoFault
    BY <1>8 DEF CallRejected, Rejects
  <2>2. ~NoFault'
    BY <2>1 DEF NoFault
  <2>3. n \notin between' /\ lost = {}
    BY <2>1, <2>2 DEF Bound, Excused, NoFault
  <2>4. Expects(n, p, e)
    BY <1>4, <2>3 DEF Advised, Bound
  <2>5. Past(p)'
    BY <1>8, Turns DEF CallRejected, Past
  <2>6. QED  BY <1>6, <2>2, <2>4, <2>5 DEF Told
<1>9. QED  BY <1>7, <1>8

LEMMA StoreCovered ==
  ASSUME Typed, \A m \in Nodes : NodeLife(m), \A p \in Procs : Made(p) /\ Current(p), NEW n \in Nodes,
         \A p \in Procs : Advised(n, p), [Next]_vars, store' # store, store'.start # 0, Bound(n), Bound(n)', OwnCovered(n)'
  PROVE  Covered(n)'
<1>1. /\ ~overrun /\ ~overrun' /\ n \notin raced' /\ n \in Procs /\ NodeOf(n) = n
      /\ (NoFault' => NoFault) /\ between \subseteq between' /\ NodesTyped
  BY BoundBefore, HistoryGrows, Constants DEF Typed
<1>2. PICK p \in Procs : /\ step[p] = "storing" /\ store' = made[p] /\ lock.by = p /\ now < endOfLock[p] /\ now' = now
                         /\ StoreKeys(p) \/ CallRejected(p)
  BY <1>1, StoreChange
<1>3. queue' = queue /\ reads' = reads
  BY <1>2 DEF StoreKeys, Step, CallRejected, Rejects, nodeVars
<1>4. CASE n # NodeOf(p)
  <2>1. Told(n, 0, 1)' /\ \A i \in DOMAIN queue[n] : queue[n][i].event = "new" => Told(n, i, 0)'
    BY <1>1, <1>2, <1>4, StoreTold
  <2>2. Told(n, 0, 0)'
    BY <2>1, ToldThen
  <2>3. QED  BY <1>3, <2>1, <2>2 DEF Covered, KeysCovered, ReadsCovered, NewsCovered
<1>5. CASE n = NodeOf(p)
  <2>1. ~CallRejected(p)
    BY <1>5 DEF CallRejected, Rejects, Bound, Rejected
  <2>2. keys'[n] = store' /\ reads[n] = {} /\ \A i \in DOMAIN queue[n] : queue[n][i].event # "new"
    BY <1>1, <1>2, <1>5, <2>1 DEF StoreKeys, Overtaken, NodesTyped
  <2>3. QED  BY <1>3, <2>2 DEF Covered, KeysCovered, ReadsCovered, NewsCovered
<1>6. QED  BY <1>4, <1>5
-----------------------------------------------------------------------------
(* A call that is about to announce the stored keys announces them in time, or
   dies with its node. *)
LEMMA PublisherNext ==
  ASSUME Typed, \A m \in Nodes : NodeLife(m), \A p \in Procs : Made(p), NEW n \in Nodes, Alive(n), ~overrun',
         store' = store, store.start # 0, [Next]_vars, Publisher(n)
  PROVE  \/ Publisher(n)'
         \/ \E m \in Nodes : Crash(m)
         \/ \E p \in Procs : /\ PublishNew(p) /\ n # NodeOf(p) /\ made[p] = store /\ OnTime(endOfLock[p], 1)
                             /\ queue'[n] = Append(queue[n], Msg("new", p, made[p]))
<1>1. PICK p \in Procs : step[p] = "publishing" /\ made[p] = store /\ NodeOf(p) # n
  BY DEF Publisher
<1>2. /\ NodeOf(p) \in Nodes /\ now \in Nat /\ endOfLock[p] \in Nat
  BY Constants DEF Typed, RedisTyped, CallsTyped
<1>3. CASE PublishNew(p)
  <2>1. now + 1 <= endOfLock[p]
    <3>1. ~(now >= endOfLock[p])
      BY <1>3 DEF PublishNew, Overrun
    <3>2. QED  BY <1>2, <3>1
  <2>2. endOfLock[p] + StartDelay <= store.start + LockTtl
    BY <1>1 DEF Made
  <2>3. queue' = [m \in Nodes |-> IF Alive(m) /\ m # NodeOf(p)
                                  THEN Append(queue[m], Msg("new", p, made[p])) ELSE queue[m]]
    BY <1>3 DEF PublishNew, Broadcast, Msg
  <2>4. queue'[n] = Append(queue[n], Msg("new", p, made[p]))
    BY <1>1, <2>3
  <2>5. QED  BY <1>1, <1>3, <2>1, <2>2, <2>4 DEF OnTime, Soon
<1>4. CASE step'[p] = step[p] /\ made'[p] = made[p]
  BY <1>1, <1>4 DEF Publisher
<1>5. Generate(p) \/ LockRejected(p) \/ CallRejected(p) \/ UnlockRejected(p) => PublishNew(p)
  BY <1>1, CallStep
<1>6. QED  BY <1>1, <1>2, <1>3, <1>4, <1>5, CallChange

(* What happens elsewhere only adds to what n waits for. *)
LEMMA ElseFrame ==
  ASSUME Typed, NEW n \in Nodes, [Next]_vars, ~Tick, ~StartNode(n), ~NodeStep(n), ~LoseMessage(n), ~Crash(n)
  PROVE  /\ now' = now /\ timers[n] \subseteq timers'[n] /\ reads[n] \subseteq reads'[n]
         /\ \/ queue'[n] = queue[n]
            \/ \E p \in Procs :
                 /\ n # NodeOf(p)
                 /\ \/ PublishPending(p) /\ queue'[n] = Append(queue[n], Msg("pending", p, NoKeys))
                    \/ PublishCancel(p) /\ queue'[n] = Append(queue[n], Msg("cancel", p, NoKeys))
                    \/ PublishNew(p) /\ queue'[n] = Append(queue[n], Msg("new", p, made[p]))
<1>1. now' = now /\ NodesTyped
  BY ClockStep DEF Typed
<1>2. CASE UNCHANGED vars \/ \E j \in Jobs : BeginJob(j)
  BY <1>1, <1>2 DEF vars, BeginJob, redisVars, nodeVars
<1>3. ASSUME NEW m \in Nodes, StartNode(m) \/ NodeStep(m) \/ LoseMessage(m) \/ Crash(m)
      PROVE  queue'[n] = queue[n] /\ reads'[n] = reads[n] /\ timers'[n] = timers[n]
  BY <1>3, OtherNodes
<1>4. ASSUME NEW p \in Procs, Generate(p) \/ LockRejected(p) \/ CallRejected(p) \/ UnlockRejected(p)
      PROVE  reads[n] \subseteq reads'[n]
  <2>1. UNCHANGED reads \/ \E m, why : ReadStore(m, why)
    BY <1>4 DEF Generate, GetLock, NoLockForUs, ReadKeys, PublishPending, StoreKeys, StoreRefused, PublishCancel,
       PublishNew, UnlockKeys, UnlockAndThrow, Step, Return, Throw, LockRejected, CallRejected, UnlockRejected, nodeVars
  <2>2. QED  BY <1>1, <2>1 DEF ReadStore, NodesTyped
<1>5. QED  BY <1>1, <1>2, <1>3, <1>4, CallQueues DEF Next

LEMMA ElseTold ==
  ASSUME Typed, \A m \in Nodes : NodeLife(m), \A p \in Procs : Made(p) /\ Current(p), NEW n \in Nodes,
         Bound(n), Bound(n)', store' = store, store.start # 0,
         [Next]_vars, ~Tick, ~StartNode(n), ~NodeStep(n), ~LoseMessage(n), ~Crash(n)
  PROVE  /\ \A i \in DOMAIN queue'[n] :
              \/ i \in DOMAIN queue[n] /\ queue'[n][i] = queue[n][i]
              \/ queue'[n][i].event = "new" => queue'[n][i].keys = store
         /\ \A i \in DOMAIN queue[n] \cup {0}, d \in {0, 1} : Told(n, i, d) => Told(n, i, d)'
<1>1. /\ ~overrun /\ ~overrun' /\ (NoFault' => NoFault) /\ between \subseteq between'
      /\ RedisTyped /\ NoKeys \in K /\ (\A p \in Procs : made[p] \in K) /\ queue[n] \in Seq(Message)
      /\ \A p \in Procs : NodeOf(p) \in Nodes
  BY BoundBefore, HistoryGrows, KeyTypes, Constants DEF Typed, RedisTyped, CallsTyped
<1>2. now' = now /\ timers[n] \subseteq timers'[n]
  BY ElseFrame
<1>3. \A p \in Procs : Past(p) => Past(p)'
  BY <1>1, PastStays
<1>4. DOMAIN queue[n] = 1..Len(queue[n]) /\ Len(queue[n]) \in Nat
  BY <1>1, LenProperties
<1>5. CASE queue'[n] = queue[n]
  <2>1. /\ \A i : News(n, i) => News(n, i)'
        /\ \A i, d : Pending(n, i, d) => Pending(n, i, d)'
    BY <1>2, <1>3, <1>5, AddedKept
  <2>2. Publisher(n) => Publisher(n)' \/ \E m \in Nodes : Crash(m)
    <3>1. ASSUME NEW m, queue'[n] = Append(queue[n], m), m \in Message  PROVE FALSE
      BY <1>4, <1>5, <3>1, Appended
    <3>2. \A p \in Procs : Msg("new", p, made[p]) \in Message
      BY <1>1, MessageTypes
    <3>3. QED  BY <1>1, <3>1, <3>2, PublisherNext DEF Bound
  <2>3. ASSUME NEW i, NEW d, Told(n, i, d)  PROVE Told(n, i, d)'
    <3>1. CASE \E m \in Nodes : Crash(m)
      <4>1. NoFault /\ ~NoFault'
        BY <3>1 DEF Crash, NoFault, Typed, NodesTyped
      <4>2. n \notin between
        BY <1>1, <4>1 DEF Bound, Excused
      <4>3. QED  BY <2>1, <2>3, <4>1, <4>2 DEF Told
    <3>2. CASE ~\E m \in Nodes : Crash(m)
      <4>1. Announced(n, i) => Announced(n, i)'
        BY <2>1, <2>2, <3>2 DEF Announced
      <4>2. QED  BY <1>1, <2>1, <2>3, <4>1, ToldKept
    <3>3. QED  BY <3>1, <3>2
  <2>4. QED  BY <1>5, <2>3
<1>6. ASSUME NEW p \in Procs, n # NodeOf(p),
             \/ PublishPending(p) /\ queue'[n] = Append(queue[n], Msg("pending", p, NoKeys))
             \/ PublishCancel(p) /\ queue'[n] = Append(queue[n], Msg("cancel", p, NoKeys))
             \/ PublishNew(p) /\ queue'[n] = Append(queue[n], Msg("new", p, made[p]))
      PROVE  /\ \A i \in DOMAIN queue'[n] :
                  \/ i \in DOMAIN queue[n] /\ queue'[n][i] = queue[n][i]
                  \/ queue'[n][i].event = "new" => queue'[n][i].keys = store
             /\ \A i \in DOMAIN queue[n] \cup {0}, d \in {0, 1} : Told(n, i, d) => Told(n, i, d)'
  <2>1. PICK m \in Message :
          /\ queue'[n] = Append(queue[n], m) /\ m.proc = p
          /\ m.event = "cancel" => step[p] = "cancelling"
          /\ m.event = "new" => m.keys = store
          /\ PublishNew(p) => m = Msg("new", p, made[p])
    <3>1. \A ev \in {"pending", "cancel", "new"}, k \in K :
            /\ Msg(ev, p, k) \in Message /\ Msg(ev, p, k).event = ev /\ Msg(ev, p, k).proc = p
            /\ Msg(ev, p, k).keys = k
      BY MessageTypes DEF Msg
    <3>2. PublishNew(p) => made[p] = store
      <4>1. PublishNew(p) => step[p] = "publishing" /\ lock.by = p
        BY <1>1 DEF PublishNew, Step, Overrun
      <4>2. QED  BY <1>1, <4>1 DEF Current
    <3>3. /\ PublishCancel(p) => step[p] = "cancelling" /\ ~PublishNew(p)
          /\ PublishPending(p) => ~PublishNew(p)
      BY DEF PublishCancel, PublishPending, PublishNew, Step
    <3>4. QED  BY <1>1, <1>6, <3>1, <3>2, <3>3
  <2>2. /\ DOMAIN queue'[n] = 1..(Len(queue[n]) + 1)
        /\ \A k \in DOMAIN queue[n] : queue'[n][k] = queue[n][k]
        /\ queue'[n][Len(queue[n]) + 1] = m
    BY <2>1, Appended
  <2>3. (\A k \in DOMAIN queue'[n] : k \in DOMAIN queue[n] \/ queue'[n][k] = m)
        /\ \A k \in DOMAIN queue[n] : k \in DOMAIN queue'[n] /\ queue'[n][k] = queue[n][k]
    BY <1>4, <2>2
  <2>4. m.event = "cancel" => ~Past(m.proc)
    BY <2>1 DEF Past, HasStored
  <2>5. /\ \A i : News(n, i) => News(n, i)'
        /\ \A i, d : Pending(n, i, d) => Pending(n, i, d)'
    BY <1>2, <1>3, <2>1, <2>3, <2>4, AddedKept
  <2>6. ~\E c \in Nodes : Crash(c)
    <3>1. PublishPending(p) \/ PublishCancel(p) \/ PublishNew(p) => UNCHANGED status
      BY DEF PublishPending, PublishCancel, PublishNew, Step
    <3>2. \A c \in Nodes : Crash(c) => status' # status
      BY DEF Crash, NoFault, Alive, Typed, NodesTyped
    <3>3. QED  BY <1>6, <3>1, <3>2
  <2>7. ASSUME NEW i \in DOMAIN queue[n] \cup {0}, Publisher(n), ~Publisher(n)'  PROVE News(n, i)'
    <3>1. PICK q \in Procs : /\ PublishNew(q) /\ n # NodeOf(q) /\ made[q] = store /\ OnTime(endOfLock[q], 1)
                             /\ queue'[n] = Append(queue[n], Msg("new", q, made[q]))
      BY <1>1, <2>6, <2>7, PublisherNext DEF Bound
    <3>2. Msg("new", q, made[q]) \in Message
      BY <1>1, MessageTypes
    <3>3. PICK k \in DOMAIN queue'[n] : k = Len(queue[n]) + 1 /\ queue'[n][k] = Msg("new", q, made[q])
      BY <1>4, <3>1, <3>2, Appended
    <3>4. k > i
      BY <1>4, <3>3
    <3>5. queue'[n][k].event = "new" /\ queue'[n][k].keys = store /\ queue'[n][k].end = endOfLock[q]
      BY <3>1, <3>3 DEF Msg
    <3>6. QED  BY <1>2, <3>1, <3>3, <3>4, <3>5 DEF News, OnTime, Soon
  <2>8. \A i \in DOMAIN queue[n] \cup {0} : Announced(n, i) => Announced(n, i)'
    BY <2>5, <2>7 DEF Announced
  <2>9. \A i \in DOMAIN queue[n] \cup {0}, d \in {0, 1} : Told(n, i, d) => Told(n, i, d)'
    BY <1>1, <2>5, <2>8, ToldKept
  <2>10. QED  BY <2>1, <2>3, <2>9
<1>7. QED  BY <1>5, <1>6, ElseFrame
-----------------------------------------------------------------------------
(* A node whose first keys are not those of a read made them. *)
LEMMA UpBefore ==
  ASSUME Typed, NEW n \in Nodes, [Next]_vars, ~NodeStep(n), status'[n] = "up", status[n] # "up"
  PROVE  HasStored(n)
<1>1. NodesTyped /\ n \in Procs /\ n \notin Jobs
  BY Constants DEF Typed
<1>2. ~UNCHANGED status /\ ~Tick /\ (\A j \in Jobs : ~BeginJob(j)) /\ ~UNCHANGED vars
  BY DEF Tick, BeginJob, vars, nodeVars
<1>3. \A s \in {"starting", "dead"} : status' # [status EXCEPT ![n] = s]
  BY <1>1 DEF NodesTyped
<1>4. ASSUME Generate(n) \/ LockRejected(n) \/ CallRejected(n) \/ UnlockRejected(n)  PROVE HasStored(n)
  <2>1. ~Throw(n) /\ ~Return(n, NoKeys)
    BY <1>1, <1>2, <1>3 DEF Throw, Return
  <2>2. UnlockKeys(n) /\ made[n] # NoKeys
    BY <1>2, <1>4, <2>1 DEF Generate, GetLock, NoLockForUs, ReadKeys, PublishPending, StoreKeys, StoreRefused,
       PublishCancel, PublishNew, UnlockKeys, UnlockAndThrow, Step, LockRejected, CallRejected, UnlockRejected, nodeVars
  <2>3. QED  BY <2>2 DEF UnlockKeys, HasStored
<1>5. \A p \in Procs : p # n => ~(Generate(p) \/ LockRejected(p) \/ CallRejected(p) \/ UnlockRejected(p))
  BY OtherCalls
<1>6. ~StartNode(n) /\ ~LoseMessage(n) /\ ~Crash(n)
  BY <1>2, <1>3 DEF StartNode, LoseMessage, Crash, nodeVars
<1>7. \A m \in Nodes : m # n => ~(StartNode(m) \/ NodeStep(m) \/ LoseMessage(m) \/ Crash(m))
  BY OtherNodes
<1>8. QED  BY <1>2, <1>4, <1>5, <1>6, <1>7 DEF Next

LEMMA ElseCovered ==
  ASSUME Typed, \A m \in Nodes : NodeLife(m), \A p \in Procs : Made(p) /\ Current(p), NEW n \in Nodes, Covered(n),
         Bound(n), Bound(n)', OwnCovered(n)', store' = store, store.start # 0,
         [Next]_vars, ~Tick, ~StartNode(n), ~NodeStep(n), ~LoseMessage(n), ~Crash(n)
  PROVE  Covered(n)'
<1>1. /\ \A i \in DOMAIN queue'[n] :
           \/ i \in DOMAIN queue[n] /\ queue'[n][i] = queue[n][i]
           \/ queue'[n][i].event = "new" => queue'[n][i].keys = store
      /\ \A i \in DOMAIN queue[n] \cup {0}, d \in {0, 1} : Told(n, i, d) => Told(n, i, d)'
      /\ reads[n] \subseteq reads'[n] /\ now' = now
  BY ElseTold, ElseFrame
<1>2. KeysCovered(n) /\ OwnCovered(n) /\ ReadsCovered(n) /\ NewsCovered(n)
  BY DEF Covered
<1>3. Made(n) /\ n \in Procs /\ NodeOf(n) = n /\ NodeLife(n)
  BY Constants
<1>4. KeysCovered(n)'
  <2>1. SUFFICES ASSUME status'[n] = "up" \/ HasStored(n)'
                 PROVE  keys'[n] = store' \/ Answered(n)' \/ Told(n, 0, 0)'
    BY DEF KeysCovered
  <2>2. Answered(n) => Answered(n)'
    BY <1>1 DEF Answered, Soon
  <2>3. CASE keys'[n] = keys[n] /\ (status[n] = "up" \/ HasStored(n))
    BY <1>1, <1>2, <2>2, <2>3 DEF KeysCovered
  <2>4. CASE keys'[n] = keys[n] /\ status[n] # "up" /\ ~HasStored(n)
    <3>1. HasStored(n)'
      BY <2>1, <2>4, UpBefore
    <3>2. store' = made'[n]
      BY <1>3, <2>4, <3>1, StoredBefore
    <3>3. QED  BY <3>1, <3>2 DEF OwnCovered
  <2>5. CASE keys'[n] # keys[n]
    <3>1. ~ReplyToStart(n) /\ ~ReplyToTimer(n) /\ ~ReceiveNew(n)
      BY DEF NodeStep
    <3>2. HasStored(n) => keys[n] = made[n]
      BY <1>2 DEF OwnCovered
    <3>3. step'[n] \in {"idle", "locking"} => ~HasStored(n)'
      BY DEF HasStored
    <3>4. QED  BY <1>3, <2>1, <2>5, <3>1, <3>2, <3>3, KeysBefore
  <2>6. QED  BY <2>3, <2>4, <2>5
<1>5. ReadsCovered(n)'
  <2>1. SUFFICES ASSUME NEW rd \in reads'[n]  PROVE rd.val \in {store', NoKeys} \/ Told(n, 0, 1)'
    BY DEF ReadsCovered
  <2>2. rd \in reads[n] \/ rd.val = store
    BY ReadsBefore
  <2>3. QED  BY <1>1, <1>2, <2>2 DEF ReadsCovered
<1>6. NewsCovered(n)'
  BY <1>1, <1>2 DEF NewsCovered
<1>7. QED  BY <1>4, <1>5, <1>6 DEF Covered

(* Time passes when everything that is due has happened. *)
LEMMA TickCovered ==
  ASSUME Typed, \A m \in Nodes : NodeLife(m), NEW n \in Nodes, Covered(n), Bound(n), Bound(n)', Tick
  PROVE  Covered(n)'
<1>1. /\ queue[n] = <<>> /\ reads[n] = {} /\ \A t \in timers[n] : t.at > now
      /\ now' = now + 1 /\ UNCHANGED <<lock, store, queue, nodeVars, procVars, histVars, jobVars>>
  BY DEF Tick, Bound
<1>2. UNCHANGED <<status, keys, reads, timers, step, made, lost, between, rejected>>
  BY <1>1 DEF nodeVars, procVars, histVars, jobVars
<1>3. now \in Nat /\ timers[n] \subseteq ATimer /\ DOMAIN queue[n] = {}
  BY <1>1 DEF Typed, RedisTyped, NodesTyped
<1>4. KeysCovered(n) /\ OwnCovered(n)
  BY DEF Covered
<1>5. Told(n, 0, 0) => Told(n, 0, 0)'
  <2>1. Announced(n, 0) => Announced(n, 0)'
    BY <1>1, <1>2, <1>3 DEF Announced, Publisher, News
  <2>2. ASSUME NEW p, Waits(n, p, 0)  PROVE Waits(n, p, 0)'
    <3>1. PICK t \in timers[n] : t.kind = "pending" /\ t.proc = p /\ OnTime(t.at, 0)
      BY <2>2 DEF Waits
    <3>2. t \in timers'[n] /\ t.at \in Nat /\ t.at > now
      BY <1>1, <1>2, <1>3 DEF ATimer
    <3>3. now' + 0 <= t.at
      BY <1>1, <1>3, <3>2
    <3>4. QED  BY <1>1, <3>1, <3>2, <3>3 DEF Waits, OnTime, Soon
  <2>3. \A p : Kept(n, p, 0)'
    BY <1>1, <1>3 DEF Kept
  <2>4. Pending(n, 0, 0) => Pending(n, 0, 0)'
    BY <1>2, <1>3, <2>2, <2>3 DEF Pending, Pends, Past, HasStored
  <2>5. NoFault' <=> NoFault
    BY <1>2 DEF NoFault
  <2>6. QED  BY <1>2, <2>1, <2>4, <2>5, ToldKept
<1>6. ~Answered(n)
  BY <1>1 DEF Answered
<1>7. KeysCovered(n)' /\ OwnCovered(n)'
  BY <1>1, <1>2, <1>4, <1>5, <1>6 DEF KeysCovered, OwnCovered, HasStored
<1>8. ReadsCovered(n)' /\ NewsCovered(n)'
  BY <1>1, <1>2, <1>3 DEF ReadsCovered, NewsCovered
<1>9. QED  BY <1>7, <1>8 DEF Covered
-----------------------------------------------------------------------------
(* What a node does itself leaves what is announced to it alone, but for its
   queue and its timers. *)
LEMMA SelfFrame ==
  ASSUME Typed, \A m \in Nodes : NodeLife(m), \A p \in Procs : Made(p), NEW n \in Nodes, [Next]_vars,
         NodeStep(n) \/ LoseMessage(n)
  PROVE  /\ now' = now /\ store' = store /\ made' = made
         /\ \A p \in Procs : Past(p) => Past(p)'
         /\ Publisher(n) => Publisher(n)'
         /\ (NoFault' => NoFault) /\ between \subseteq between'
<1>1. now' = now /\ store' = store /\ made' = made
  BY NodeFrame
<1>2. \A p \in Procs : Past(p) => Past(p)'
  BY PastStays, Constants
<1>3. ASSUME NEW p \in Procs, step[p] = "publishing"  PROVE step'[p] = "publishing"
  <2>1. ~Crash(NodeOf(p)) \/ ~UNCHANGED status
    BY Constants DEF Crash, NoFault, Alive, Typed, NodesTyped
  <2>2. CASE ~ReplyToStart(n)
    <3>1. step' = step
      BY <2>2 DEF NodeStep, ReplyToTimer, Reply, FireRead, FireFinal, Fire,
         ReceivePending, ReceiveCancel, ReceiveNew, Received, LoseMessage, procVars
    <3>2. QED  BY <1>3, <3>1
  <2>3. CASE ReplyToStart(n)
    <3>1. /\ step[n] = "idle" /\ n \in Procs
          /\ step' = step \/ step' = [step EXCEPT ![n] = "locking"]
      BY <2>3, Constants DEF ReplyToStart, Begin, To, NodeLife
    <3>2. QED  BY <1>3, <3>1 DEF Typed, CallsTyped
  <2>4. QED  BY <2>2, <2>3
<1>4. Publisher(n) => Publisher(n)'
  BY <1>1, <1>3 DEF Publisher
<1>5. QED  BY <1>1, <1>2, <1>4, HistoryGrows

(* The replies of reads, and the timers. *)
LEMMA TimersTold ==
  ASSUME Typed, NEW n \in Nodes, now' = now, store' = store, \A p \in Procs : Past(p) => Past(p)',
         Publisher(n) => Publisher(n)', NoFault' => NoFault, between \subseteq between',
         queue'[n] = queue[n], timers[n] \subseteq timers'[n]
  PROVE  \A i, d : Told(n, i, d) => Told(n, i, d)'
<1>1. /\ \A i : News(n, i) => News(n, i)'
      /\ \A i, d : Pending(n, i, d) => Pending(n, i, d)'
  BY AddedKept
<1>2. \A i : Announced(n, i) => Announced(n, i)'
  BY <1>1 DEF Announced
<1>3. QED  BY <1>1, <1>2, ToldKept

LEMMA ReplyCovered ==
  ASSUME Typed, \A m \in Nodes : NodeLife(m), \A p \in Procs : Made(p), NEW n \in Nodes, Covered(n), Bound(n),
         store.start # 0, [Next]_vars, ReplyToStart(n) \/ ReplyToTimer(n), OwnCovered(n)'
  PROVE  Covered(n)'
<1>1. /\ now' = now /\ store' = store /\ made' = made
      /\ \A p \in Procs : Past(p) => Past(p)'
      /\ Publisher(n) => Publisher(n)'
      /\ (NoFault' => NoFault) /\ between \subseteq between'
  BY SelfFrame DEF NodeStep
<1>2. PICK rd \in reads[n] :
        /\ Reply(n, rd)
        /\ \/ /\ rd.why = "init" /\ UNCHANGED <<timers, raced>>
              /\ \/ rd.val # NoKeys /\ Keyed(n, rd.val) /\ UNCHANGED <<step, endOfLock>>
                 \/ Begin(n) /\ UNCHANGED status
           \/ /\ rd.val # NoKeys /\ keys' = [keys EXCEPT ![n] = rd.val]
              /\ AddTimer(n, StartTimer(rd.val)) \/ UNCHANGED timers
              /\ UNCHANGED <<status, step, endOfLock>>
           \/ /\ rd.val = NoKeys /\ keys' = keys /\ UNCHANGED timers
              /\ UNCHANGED <<status, step, endOfLock>>
  BY DEF ReplyToStart, ReplyToTimer
<1>3. /\ queue' = queue /\ reads'[n] = reads[n] \ {rd} /\ NodesTyped /\ n \in Procs
  BY <1>2, Constants DEF Reply, Typed, NodesTyped, redisVars
<1>4. timers[n] \subseteq timers'[n]
  BY <1>2, <1>3 DEF AddTimer, NodesTyped
<1>5. \A i, d : Told(n, i, d) => Told(n, i, d)'
  BY <1>1, <1>3, <1>4, TimersTold
<1>6. KeysCovered(n) /\ ReadsCovered(n) /\ NewsCovered(n)
  BY DEF Covered
<1>7. KeysCovered(n)'
  <2>1. SUFFICES ASSUME status'[n] = "up" \/ HasStored(n)'
                 PROVE  keys'[n] = store' \/ Answered(n)' \/ Told(n, 0, 0)'
    BY DEF KeysCovered
  <2>2. CASE keys'[n] = rd.val /\ rd.val # NoKeys
    <3>1. rd.val = store \/ Told(n, 0, 1)
      BY <1>6, <2>2 DEF ReadsCovered
    <3>2. QED  BY <1>1, <1>5, <2>2, <3>1, ToldThen
  <2>3. CASE rd.why = "init" /\ Begin(n) /\ UNCHANGED status
    <3>1. step'[n] = "locking" /\ status'[n] # "up"
      BY <1>3, <2>3, Turns DEF Begin, NodeLife
    <3>2. QED  BY <2>1, <3>1 DEF HasStored
  <2>4. CASE rd.val = NoKeys /\ keys' = keys /\ UNCHANGED <<status, step, endOfLock>>
    <3>1. NoKeys # store
      BY DEF NoKeys
    <3>2. Answered(n) => Answered(n)'
      BY <1>1, <1>3, <2>4, <3>1 DEF Answered, Soon
    <3>3. status[n] = "up" \/ HasStored(n)
      BY <1>1, <2>1, <2>4 DEF HasStored
    <3>4. QED  BY <1>1, <1>5, <1>6, <2>4, <3>2, <3>3 DEF KeysCovered
  <2>5. QED  BY <1>2, <1>3, <2>2, <2>3, <2>4 DEF Keyed, NodesTyped
<1>8. ReadsCovered(n)' /\ NewsCovered(n)'
  BY <1>1, <1>3, <1>5, <1>6 DEF ReadsCovered, NewsCovered
<1>9. QED  BY <1>7, <1>8 DEF Covered

LEMMA FireCovered ==
  ASSUME Typed, \A m \in Nodes : NodeLife(m), \A p \in Procs : Made(p), NEW n \in Nodes, Covered(n), Bound(n),
         [Next]_vars, FireRead(n) \/ FireFinal(n), OwnCovered(n)'
  PROVE  Covered(n)'
<1>1. /\ now' = now /\ store' = store /\ made' = made
      /\ \A p \in Procs : Past(p) => Past(p)'
      /\ Publisher(n) => Publisher(n)'
      /\ (NoFault' => NoFault) /\ between \subseteq between'
  BY SelfFrame DEF NodeStep
<1>2. PICK t \in timers[n] :
        /\ Fire(n, t)
        /\ (t.kind = "final" /\ UNCHANGED reads) \/ \E why : ReadStore(n, why)
  BY DEF FireRead, FireFinal
<1>3. /\ queue' = queue /\ UNCHANGED <<keys, status, step>> /\ timers'[n] = timers[n] \ {t} /\ now >= t.at
      /\ now \in Nat /\ timers[n] \subseteq ATimer /\ NodesTyped
  BY <1>2 DEF Fire, Typed, RedisTyped, NodesTyped, redisVars, procVars
<1>4. /\ reads[n] \subseteq reads'[n] /\ \A rd \in reads'[n] : rd \in reads[n] \/ rd.val = store
      /\ t.kind = "final" \/ \E rd \in reads'[n] : rd.val = store
  <2>1. CASE t.kind = "final" /\ UNCHANGED reads
    BY <2>1
  <2>2. ASSUME NEW why, ReadStore(n, why)
        PROVE  reads'[n] = reads[n] \cup {[why |-> why, val |-> store]}
    BY <1>3, <2>2 DEF ReadStore, NodesTyped
  <2>3. CASE \E why : ReadStore(n, why)
    <3>1. PICK why : reads'[n] = reads[n] \cup {[why |-> why, val |-> store]}
      BY <2>2, <2>3
    <3>2. PICK rd : rd = [why |-> why, val |-> store]
      OBVIOUS
    <3>3. rd \in reads'[n] /\ rd.val = store /\ reads'[n] = reads[n] \cup {rd}
      BY <3>1, <3>2
    <3>4. QED  BY <3>3
  <2>4. QED  BY <1>2, <2>1, <2>3
<1>5. \A i : News(n, i) => News(n, i)'
  BY <1>1, <1>3 DEF News, OnTime, Soon
<1>6. \A i : Announced(n, i) => Announced(n, i)'
  BY <1>1, <1>5 DEF Announced
<1>7. ASSUME NEW i, NEW d \in {0, 1}, Pending(n, i, d),
             \A p : i = 0 /\ Waits(n, p, d) => Waits(n, p, d)'
      PROVE  Pending(n, i, d)'
  <2>1. \A p, j : Kept(n, p, j) => Kept(n, p, j)'
    BY <1>1, <1>3 DEF Kept
  <2>2. \A p, k : Comes(n, p, k, d) => Comes(n, p, k, d)'
    BY <1>1, <1>3 DEF Comes, OnTime, Soon
  <2>3. QED  BY <1>1, <1>3, <1>7, <2>1, <2>2 DEF Pending, Pends
<1>8. \A p : Waits(n, p, 1) => Waits(n, p, 1)'
  <2>1. \A u \in timers[n] : now + 1 <= u.at => u # t
    BY <1>3 DEF ATimer
  <2>2. QED  BY <1>1, <1>3, <2>1 DEF Waits, OnTime, Soon
<1>9. ASSUME NEW p, Waits(n, p, 0), ~Waits(n, p, 0)'  PROVE Soon(now) /\ t.kind = "pending"
  <2>1. t.kind = "pending" /\ OnTime(t.at, 0)
    BY <1>1, <1>3, <1>9 DEF Waits, OnTime, Soon
  <2>2. t.at \in Nat /\ now + 0 <= t.at
    BY <1>3, <2>1 DEF ATimer, OnTime
  <2>3. t.at = now
    BY <1>3, <2>2
  <2>4. QED  BY <2>1, <2>3 DEF OnTime
<1>10. \A i : (Told(n, i, 1) => Told(n, i, 1)') /\ (i # 0 => (Told(n, i, 0) => Told(n, i, 0)'))
  <2>1. \A i : (Pending(n, i, 1) => Pending(n, i, 1)') /\ (i # 0 => (Pending(n, i, 0) => Pending(n, i, 0)'))
    BY <1>7, <1>8
  <2>2. QED  BY <1>1, <1>6, <2>1, ToldKept
<1>11. Told(n, 0, 0) => Told(n, 0, 0)' \/ (Soon(now) /\ t.kind = "pending")
  <2>1. SUFFICES ASSUME ~(Soon(now) /\ t.kind = "pending"), Told(n, 0, 0)  PROVE Told(n, 0, 0)'
    OBVIOUS
  <2>2. Pending(n, 0, 0) => Pending(n, 0, 0)'
    BY <1>7, <1>9, <2>1
  <2>3. QED  BY <1>1, <1>6, <2>1, <2>2, ToldKept
<1>12. KeysCovered(n) /\ ReadsCovered(n) /\ NewsCovered(n)
  BY DEF Covered
<1>13. KeysCovered(n)'
  <2>1. Answered(n) \/ (Soon(now) /\ t.kind = "pending") => Answered(n)'
    BY <1>1, <1>4 DEF Answered, Soon
  <2>2. QED  BY <1>1, <1>3, <1>11, <1>12, <2>1 DEF KeysCovered, HasStored
<1>14. ReadsCovered(n)'
  BY <1>1, <1>4, <1>10, <1>12 DEF ReadsCovered
<1>15. NewsCovered(n)'
  <2>1. 0 \notin DOMAIN queue[n]
    BY LenProperties DEF Typed, RedisTyped
  <2>2. QED  BY <1>1, <1>3, <1>10, <1>12, <2>1 DEF NewsCovered
<1>16. QED  BY <1>13, <1>14, <1>15 DEF Covered
-----------------------------------------------------------------------------
(* The first message is taken: what was announced after it still is. *)
LEMMA TakenTold ==
  ASSUME Typed, NEW n \in Nodes, now' = now, store' = store, \A p \in Procs : Past(p) => Past(p)',
         Publisher(n) => Publisher(n)', NoFault' => NoFault, between \subseteq between',
         queue[n] # <<>>, queue'[n] = Tail(queue[n])
  PROVE  \A i \in DOMAIN queue[n], j \in Nat : i = j + 1 => (Told(n, i, 0) => Told(n, j, 0)')
<1>1. ASSUME NEW i \in DOMAIN queue[n], NEW j \in Nat, i = j + 1, Told(n, i, 0)  PROVE Told(n, j, 0)'
  <2>1. (News(n, i) => News(n, j)') /\ (Pending(n, i, 0) => Pending(n, j, 0)')
    BY <1>1, TakenKept
  <2>2. Announced(n, i) => Announced(n, j)'
    BY <2>1 DEF Announced
  <2>3. QED  BY <1>1, <2>1, <2>2, ToldKept
<1>2. QED  BY <1>1

LEMMA TakenCovered ==
  ASSUME Typed, NEW n \in Nodes, store' = store, NewsCovered(n), queue[n] # <<>>, queue'[n] = Tail(queue[n]),
         \A i \in DOMAIN queue[n], j \in Nat : i = j + 1 => (Told(n, i, 0) => Told(n, j, 0)')
  PROVE  NewsCovered(n)'
<1>1. SUFFICES ASSUME NEW j \in DOMAIN queue'[n], queue'[n][j].event = "new"
               PROVE  queue'[n][j].keys = store' \/ Told(n, j, 0)'
  BY DEF NewsCovered
<1>2. PICK i \in DOMAIN queue[n] : i = j + 1 /\ queue'[n][j] = queue[n][i] /\ j \in Nat
  BY Shortened
<1>3. QED  BY <1>1, <1>2 DEF NewsCovered

LEMMA HeardCovered ==
  ASSUME Typed, \A m \in Nodes : NodeLife(m), \A p \in Procs : Made(p), NEW n \in Nodes, Covered(n), Bound(n),
         [Next]_vars, ReceivePending(n) \/ ReceiveCancel(n), OwnCovered(n)'
  PROVE  Covered(n)'
<1>1. /\ now' = now /\ store' = store /\ made' = made
      /\ \A p \in Procs : Past(p) => Past(p)'
      /\ Publisher(n) => Publisher(n)'
      /\ (NoFault' => NoFault) /\ between \subseteq between'
  BY SelfFrame DEF NodeStep
<1>2. PICK event \in {"pending", "cancel"} :
        /\ Received(n, event)
        /\ event = "pending" => ReceivePending(n)
        /\ event = "cancel" => ReceiveCancel(n)
  BY DEF ReceivePending, ReceiveCancel
<1>3. /\ queue[n] # <<>> /\ queue'[n] = Tail(queue[n]) /\ 1 \in DOMAIN queue[n]
      /\ Head(queue[n]) = queue[n][1] /\ queue[n][1].event = event
  BY <1>2, AtHead
<1>4. /\ UNCHANGED <<keys, status, reads, step>> /\ NodesTyped
  BY <1>2 DEF ReceivePending, ReceiveCancel, Received, procVars, Typed
<1>5. PICK m : m = queue[n][1]
  OBVIOUS
<1>6. ASSUME NEW p \in Procs, NEW d \in {0, 1}, Past(p), Pends(n, p, 0, d)  PROVE Pending(n, 0, d)'
  <2>1. ASSUME Waits(n, p, d)', Kept(n, p, 0) \/ Kept(n, p, 1)  PROVE Pending(n, 0, d)'
    <3>1. Kept(n, p, 0)'
      BY <1>1, <1>3, <2>1, TakenKept
    <3>2. QED  BY <1>1, <1>6, <2>1, <3>1 DEF Pending, Pends
  <2>2. CASE Waits(n, p, d) /\ Kept(n, p, 0)
    <3>1. CASE event = "pending"
      <4>1. timers[n] \subseteq timers'[n]
        BY <1>2, <1>4, <3>1 DEF ReceivePending, AddTimer, NodesTyped
      <4>2. Waits(n, p, d)'
        BY <1>1, <2>2, <4>1 DEF Waits, OnTime, Soon
      <4>3. QED  BY <2>1, <2>2, <4>2
    <3>2. CASE event = "cancel"
      <4>1. timers'[n] = NoPending(n, m.proc)
        BY <1>2, <1>3, <1>4, <1>5, <3>2 DEF ReceiveCancel, NodesTyped
      <4>2. m.proc # p
        BY <1>3, <1>5, <2>2, <3>2 DEF Kept
      <4>3. Waits(n, p, d)'
        BY <1>1, <2>2, <4>1, <4>2 DEF Waits, NoPending, OnTime, Soon
      <4>4. QED  BY <2>1, <2>2, <4>3
    <3>3. QED  BY <3>1, <3>2
  <2>3. ASSUME Comes(n, p, 1, d), Kept(n, p, 1)  PROVE Pending(n, 0, d)'
    <3>1. event = "pending" /\ m.proc = p /\ OnTime(m.end, d)
      BY <1>3, <1>5, <2>3 DEF Comes
    <3>2. PICK t : t = Timer("pending", m.end, m.proc)
      OBVIOUS
    <3>3. t \in timers'[n] /\ t.kind = "pending" /\ t.at = m.end /\ t.proc = m.proc
      BY <1>2, <1>3, <1>4, <1>5, <3>1, <3>2 DEF ReceivePending, AddTimer, NodesTyped, Timer
    <3>4. Waits(n, p, d)'
      BY <1>1, <3>1, <3>3 DEF Waits, OnTime, Soon
    <3>5. QED  BY <2>1, <2>3, <3>4
  <2>4. ASSUME NEW k \in DOMAIN queue[n] \ {1}, Comes(n, p, k, d), Kept(n, p, k)  PROVE Pending(n, 0, d)'
    BY <1>1, <1>3, <1>6, <2>4, TakenKept
  <2>5. QED  BY <1>6, <2>2, <2>3, <2>4 DEF Pends
<1>7. \A d \in {0, 1} : Told(n, 0, d) => Told(n, 0, d)'
  <2>1. News(n, 0) => News(n, 0)'
    BY <1>1, <1>2, <1>3, TakenKept
  <2>2. Announced(n, 0) => Announced(n, 0)'
    BY <1>1, <2>1 DEF Announced
  <2>3. \A d \in {0, 1} : Pending(n, 0, d) => Pending(n, 0, d)'
    BY <1>6 DEF Pending
  <2>4. QED  BY <1>1, <2>2, <2>3, ToldKept
<1>8. KeysCovered(n) /\ ReadsCovered(n) /\ NewsCovered(n)
  BY DEF Covered
<1>9. KeysCovered(n)' /\ ReadsCovered(n)'
  BY <1>1, <1>4, <1>7, <1>8 DEF KeysCovered, ReadsCovered, HasStored, Answered, Soon
<1>10. NewsCovered(n)'
  BY <1>1, <1>3, <1>8, TakenTold, TakenCovered
<1>11. QED  BY <1>9, <1>10 DEF Covered

LEMMA NewsTaken ==
  ASSUME Typed, \A m \in Nodes : NodeLife(m), \A p \in Procs : Made(p), NEW n \in Nodes, Covered(n), Bound(n), Bound(n)',
         [Next]_vars, ReceiveNew(n), OwnCovered(n)'
  PROVE  Covered(n)'
<1>1. /\ now' = now /\ store' = store /\ made' = made
      /\ \A p \in Procs : Past(p) => Past(p)'
      /\ Publisher(n) => Publisher(n)'
      /\ (NoFault' => NoFault) /\ between \subseteq between'
  BY SelfFrame DEF NodeStep
<1>2. Received(n, "new")
  BY DEF ReceiveNew
<1>3. /\ queue[n] # <<>> /\ queue'[n] = Tail(queue[n]) /\ 1 \in DOMAIN queue[n]
      /\ Head(queue[n]) = queue[n][1] /\ queue[n][1].event = "new"
  BY <1>2, AtHead
<1>4. reads[n] = {} /\ reads' = reads
  BY <1>2 DEF ReceiveNew, Received, Overtaken, Bound, Excused
<1>5. keys'[n] = queue[n][1].keys
  BY <1>3 DEF ReceiveNew, Typed, NodesTyped
<1>6. \A i \in DOMAIN queue[n], j \in Nat : i = j + 1 => (Told(n, i, 0) => Told(n, j, 0)')
  BY <1>1, <1>3, TakenTold
<1>7. KeysCovered(n)'
  <2>1. queue[n][1].keys = store \/ Told(n, 1, 0)
    BY <1>3 DEF Covered, NewsCovered
  <2>2. Told(n, 1, 0) => Told(n, 0, 0)'
    <3>1. \E i \in DOMAIN queue[n], j \in Nat : i = 1 /\ j = 0 /\ i = j + 1
      BY <1>3
    <3>2. QED  BY <1>6, <3>1
  <2>3. QED  BY <1>1, <1>5, <2>1, <2>2 DEF KeysCovered
<1>8. NewsCovered(n)'
  BY <1>1, <1>3, <1>6, TakenCovered DEF Covered
<1>9. ReadsCovered(n)'
  BY <1>4 DEF ReadsCovered
<1>10. QED  BY <1>7, <1>8, <1>9 DEF Covered

(* A message is lost: both announcements were on their way, and one still is. *)
LEMMA LossCovered ==
  ASSUME Typed, \A m \in Nodes : NodeLife(m), \A p \in Procs : Made(p), NEW n \in Nodes, Covered(n), Bound(n), Bound(n)',
         [Next]_vars, LoseMessage(n), OwnCovered(n)'
  PROVE  Covered(n)'
<1>1. /\ now' = now /\ store' = store /\ made' = made
      /\ \A p \in Procs : Past(p) => Past(p)'
      /\ Publisher(n) => Publisher(n)'
      /\ (NoFault' => NoFault) /\ between \subseteq between'
  BY SelfFrame
<1>2. /\ queue[n] # <<>> /\ queue'[n] = Tail(queue[n]) /\ NoFault /\ ~NoFault'
      /\ UNCHANGED <<keys, status, reads, timers, step>> /\ RedisTyped
  BY DEF LoseMessage, NoFault, nodeVars, procVars, Typed, RedisTyped
<1>3. n \notin between
  BY <1>1, <1>2 DEF Bound, Excused
<1>4. \A d \in {0, 1} : Told(n, 0, d) => Told(n, 0, d)'
  <2>1. ASSUME NEW d \in {0, 1}, Announced(n, 0), Pending(n, 0, d)
        PROVE  Announced(n, 0)' \/ Pending(n, 0, d)'
    <3>1. CASE queue[n][1].event # "new"
      <4>1. News(n, 0) => News(n, 0)'
        BY <1>1, <1>2, <3>1, TakenKept
      <4>2. QED  BY <1>1, <2>1, <4>1 DEF Announced
    <3>2. CASE queue[n][1].event = "new"
      <4>1. PICK p \in Procs : Past(p) /\ Pends(n, p, 0, d)
        BY <2>1 DEF Pending
      <4>2. CASE Waits(n, p, d) /\ Kept(n, p, 0)
        <5>1. Waits(n, p, d)'
          BY <1>1, <1>2, <4>2 DEF Waits, OnTime, Soon
        <5>2. Kept(n, p, 0)'
          BY <1>1, <1>2, <4>2, TakenKept
        <5>3. QED  BY <1>1, <4>1, <5>1, <5>2 DEF Pending, Pends
      <4>3. ASSUME NEW k \in DOMAIN queue[n], Comes(n, p, k, d), Kept(n, p, k)  PROVE Pending(n, 0, d)'
        <5>1. k # 1
          BY <3>2, <4>3 DEF Comes
        <5>2. QED  BY <1>1, <1>2, <4>1, <4>3, <5>1, TakenKept
      <4>4. QED  BY <4>1, <4>2, <4>3 DEF Pends
    <3>3. QED  BY <3>1, <3>2
  <2>2. QED  BY <1>2, <1>3, <2>1 DEF Told
<1>5. KeysCovered(n) /\ ReadsCovered(n) /\ NewsCovered(n)
  BY DEF Covered
<1>6. KeysCovered(n)' /\ ReadsCovered(n)'
  BY <1>1, <1>2, <1>4, <1>5 DEF KeysCovered, ReadsCovered, HasStored, Answered, Soon
<1>7. NewsCovered(n)'
  BY <1>1, <1>2, <1>5, TakenTold, TakenCovered
<1>8. QED  BY <1>6, <1>7 DEF Covered
-----------------------------------------------------------------------------
LEMMA CoveredStarting ==
  ASSUME Typed, NEW n \in Nodes, NodeLife(n), HasKeys(n), StartNode(n)
  PROVE  Covered(n)'
<1>1. /\ status[n] = "down" /\ status'[n] = "starting" /\ queue'[n] = <<>> /\ step'[n] = "idle"
      /\ reads'[n] = {[why |-> "init", val |-> store]} /\ store' = store
  BY DEF StartNode, ReadStore, NodeLife, HasKeys, Typed, NodesTyped, redisVars, procVars
<1>2. KeysCovered(n)' /\ OwnCovered(n)'
  BY <1>1 DEF KeysCovered, OwnCovered, HasStored
<1>3. ReadsCovered(n)' /\ NewsCovered(n)'
  BY <1>1 DEF ReadsCovered, NewsCovered
<1>4. QED  BY <1>2, <1>3 DEF Covered

(* What holds of every node: the stored keys have reached it, or are on their
   way to it. *)
AgreeInv ==
  /\ CallsInv
  /\ \A p \in Procs : Made(p) /\ Current(p)
  /\ Single
  /\ \A n \in Nodes : HasKeys(n) /\ Covered(n)
  /\ \A n \in Nodes, p \in Procs : Advised(n, p)

LEMMA CoveredStep ==
  ASSUME AgreeInv, [Next]_vars, NEW n \in Nodes, Single', HasKeys(n)'
  PROVE  Covered(n)'
<1>1. /\ Typed /\ (\A m \in Nodes : NodeLife(m)) /\ (\A p \in Procs : Made(p) /\ Current(p))
      /\ HasKeys(n) /\ Covered(n) /\ (\A p \in Procs : Advised(n, p)) /\ n \in Procs
  BY Constants DEF AgreeInv, CallsInv
<1>2. SUFFICES ASSUME Bound(n)'  PROVE Covered(n)'
  BY DEF Covered
<1>3. ~overrun' /\ OwnCovered(n)'
  BY <1>1, <1>2, BoundBefore, OwnKept
<1>4. CASE StartNode(n)
  BY <1>1, <1>4, CoveredStarting
<1>5. CASE store'.start = 0
  BY <1>1, <1>3, <1>5, AloneCovered
<1>6. CASE store'.start # 0 /\ store' # store /\ ~StartNode(n)
  BY <1>1, <1>2, <1>3, <1>6, BoundBefore, StoreCovered
<1>7. CASE store'.start # 0 /\ store' = store /\ ~StartNode(n)
  <2>1. Bound(n)
    BY <1>1, <1>2, <1>7, BoundBefore
  <2>2. CASE Tick
    BY <1>1, <1>2, <2>1, <2>2, TickCovered
  <2>3. CASE NodeStep(n) \/ LoseMessage(n)
    BY <1>1, <1>2, <1>3, <1>7, <2>1, <2>3, ReplyCovered, FireCovered, HeardCovered, NewsTaken, LossCovered DEF NodeStep
  <2>4. ~Crash(n)
    BY <1>1, <1>2 DEF Crash, Bound, Alive, Typed, NodesTyped
  <2>5. QED  BY <1>1, <1>2, <1>3, <1>7, <2>1, <2>2, <2>3, <2>4, ElseCovered
<1>8. QED  BY <1>4, <1>5, <1>6, <1>7

LEMMA AgreeStep ==
  ASSUME AgreeInv, [Next]_vars  PROVE AgreeInv'
<1>1. /\ Typed /\ (\A m \in Nodes : NodeLife(m)) /\ (\A p \in Procs : Made(p) /\ Current(p)) /\ Single
      /\ (\A n \in Nodes : HasKeys(n)) /\ (\A n \in Nodes, p \in Procs : Advised(n, p))
      /\ \A p \in Procs : NodeOf(p) \in Nodes
  BY Constants DEF AgreeInv, CallsInv
<1>2. CallsInv'
  BY CallsStep DEF AgreeInv
<1>3. \A p \in Procs : Made(p)' /\ Current(p)'
  BY <1>1, MadeKept, CurrentKept
<1>4. Single'
  BY <1>1, SingleKept
<1>5. \A n \in Nodes : HasKeys(n)'
  BY <1>1, HasKeysKept
<1>6. \A n \in Nodes : Covered(n)'
  BY <1>4, <1>5, CoveredStep
<1>7. \A n \in Nodes, p \in Procs : Advised(n, p)'
  BY <1>1, AdvisedKept
<1>8. QED  BY <1>2, <1>3, <1>4, <1>5, <1>6, <1>7 DEF AgreeInv

LEMMA AgreeInit ==
  ASSUME Init  PROVE AgreeInv
<1>1. /\ CallsInv /\ now = 2 /\ LockTtl \in Nat /\ Jobs \cap Nodes = {}
      /\ \A n \in Nodes : n \in Procs
  BY CallsInit, Constants DEF Init
<1>2. \A n \in Nodes : status[n] = "down" /\ keys[n] = NoKeys /\ reads[n] = {} /\ queue[n] = <<>>
  BY DEF Init
<1>3. \A p \in Procs : step[p] = "idle" /\ made[p] = NoKeys /\ endOfLock[p] = 0
  BY DEF Init
<1>4. \A p \in Procs : Made(p) /\ Current(p)
  BY <1>1, <1>3 DEF Made, Current, NoKeys
<1>5. Single
  BY <1>2, <1>3 DEF Single, Among, HasStored
<1>6. \A n \in Nodes : HasKeys(n) /\ Covered(n) /\ \A p \in Procs : Advised(n, p)
  BY <1>2 DEF HasKeys, Covered, Bound, Advised, Alive
<1>7. QED  BY <1>1, <1>4, <1>5, <1>6 DEF AgreeInv

LEMMA AgreeInvariant == Spec => []AgreeInv
<1>1. AgreeInv /\ [Next]_vars => AgreeInv'
  BY AgreeStep
<1>2. QED  BY <1>1, AgreeInit, PTL DEF Spec

(* A node to which nothing is on its way has the stored keys, whatever message
   was lost, node crashed or command was rejected (generateClusterKeys,
   pubSubMessageHandler, handleNewJwks). *)
THEOREM AgreeSafe == Spec => []SettledAgree
<1>1. ASSUME AgreeInv  PROVE SettledAgree
  <2>1. SUFFICES ASSUME NEW n \in Nodes, Settled(n), ~Excused(n), ~Rejected(n)
                 PROVE  keys[n] = store
    BY DEF SettledAgree
  <2>2. KeysCovered(n)
    BY <1>1, <2>1 DEF AgreeInv, Covered, Bound, Settled, Alive
  <2>3. ~Answered(n) /\ ~Publisher(n) /\ DOMAIN queue[n] = {}
    BY <2>1 DEF Settled, Answered, Publisher
  <2>4. ~Told(n, 0, 0)
    BY <2>1, <2>3 DEF Settled, Told, Announced, News, Pending, Pends, Waits
  <2>5. QED  BY <2>1, <2>2, <2>3, <2>4 DEF KeysCovered, Settled
<1>2. QED  BY <1>1, AgreeInvariant, PTL

------------------------------------------------------------------------------
(* A rotation that starts a key keeps its predecessor, beyond that start. *)
Ordered(k) ==
  /\ k = NoKeys \/ k.cur # 0
  /\ k.start # 0 => k.prev # 0 /\ k.start <= k.exp

(* A call is about to announce its keys, though its lock is over. *)
Late == \E p \in Procs : step[p] = "publishing" /\ now >= endOfLock[p]

StoreLate == \E p \in Procs : step[p] = "publishing" /\ made[p] = store /\ now >= endOfLock[p]

(* The keys that the stored ones replaced, after their start; older ones only
   where a late call is all that may still announce the stored keys. *)
Prior(n, v) ==
  \/ v \in {store, NoKeys}
  \/ v.cur = store.prev /\ v.start <= now
  \/ Late /\ (n \in between \/ ~NoFault)

Priors(n) ==
  Bound(n) =>
    /\ status[n] = "up" \/ HasStored(n) => Prior(n, keys[n])
    /\ \A rd \in reads[n] : Prior(n, rd.val)
    /\ \A i \in DOMAIN queue[n] : queue[n][i].event = "new" => Prior(n, queue[n][i].keys)

-----------------------------------------------------------------------------
LEMMA OrderedKept ==
  ASSUME Typed, Ordered(store), \A p \in Procs : Ordered(made[p]), [Next]_vars
  PROVE  Ordered(store)' /\ \A p \in Procs : Ordered(made[p])'
<1>1. /\ now \in Nat /\ store \in K /\ store.cur \in Nat /\ nextKey \in 1..(MaxKeys + 1) /\ MaxKeys \in Nat
      /\ StartDelay \in Nat \ {0} /\ PrevExpiry \in Nat /\ StartDelay <= PrevExpiry
  BY Constants, KeysAssumption, DelaysAssumption DEF Typed, RedisTyped, CallsTyped, K, KeySets
<1>2. Ordered(store)'
  <2>1. CASE store' = store
    BY <2>1 DEF Ordered
  <2>2. CASE store' # store
    <3>1. PICK p \in Procs : store' = made[p]
      BY <2>2, StoreStep
    <3>2. QED  BY <3>1 DEF Ordered
  <2>3. QED  BY <2>1, <2>2
<1>3. ASSUME NEW p \in Procs  PROVE Ordered(made[p])'
  <2>1. CASE made'[p] = made[p]
    BY <2>1 DEF Ordered
  <2>2. CASE made'[p] = NoKeys
    BY <2>2 DEF Ordered, NoKeys
  <2>3. CASE made'[p] = Rotated(store, nextKey, now) /\ nextKey \in 0..MaxKeys
    <3>1. CASE store = NoKeys
      <4>1. made'[p].start = 0 /\ made'[p].cur = nextKey
        BY <2>3, <3>1 DEF Rotated, FirstKeys, NoKeys
      <4>2. QED  BY <1>1, <4>1 DEF Ordered
    <3>2. CASE store # NoKeys
      <4>1. /\ made'[p].cur = nextKey /\ made'[p].start = now + StartDelay /\ made'[p].prev = store.cur
            /\ made'[p].exp = now + PrevExpiry
        BY <2>3, <3>2 DEF Rotated
      <4>2. store.cur # 0
        BY <3>2 DEF Ordered
      <4>3. nextKey # 0 /\ now + StartDelay <= now + PrevExpiry
        BY <1>1
      <4>4. QED  BY <4>1, <4>2, <4>3 DEF Ordered
    <3>3. QED  BY <3>1, <3>2
  <2>4. QED  BY <2>1, <2>2, <2>3, MadeStep
<1>4. QED  BY <1>2, <1>3

(* Who does not have the stored keys yet hears of them before they start. *)
LEMMA TimersSoon ==
  ASSUME Typed, NEW t \in Nat, now <= t, Soon(t)  PROVE now < store.start
<1>1. /\ now \in Nat /\ store.start \in Nat /\ LockTtl \in Nat /\ StartDelay \in Nat /\ LockTtl < StartDelay
      /\ t + StartDelay <= store.start + LockTtl
  BY Constants, DelaysAssumption DEF Typed, RedisTyped, K, KeySets, Soon
<1>2. QED  BY <1>1

LEMMA ToldSoon ==
  ASSUME AgreeInv, NEW n \in Nodes, store.start # 0,
         Answered(n) \/ \E i : Told(n, i, 0) \/ Told(n, i, 1)
  PROVE  now < store.start \/ (StoreLate /\ (n \in between \/ ~NoFault))
<1>1. /\ Typed /\ (\A p \in Procs : Made(p)) /\ now \in Nat /\ timers[n] \subseteq ATimer
      /\ (\A p \in Procs : endOfLock[p] \in Nat) /\ queue[n] \in Seq(Message)
  BY DEF AgreeInv, CallsInv, Typed, RedisTyped, NodesTyped, CallsTyped
<1>2. \A k \in DOMAIN queue[n] : queue[n][k].end \in Nat
  <2>1. \A k \in DOMAIN queue[n] : queue[n][k] \in Message
    BY <1>1, ElementOfSeq, LenProperties
  <2>2. QED  BY <2>1 DEF Message
<1>3. ASSUME NEW t \in Nat, NEW d \in {0, 1}, OnTime(t, d)  PROVE now < store.start
  <2>1. now <= t /\ Soon(t)
    BY <1>1, <1>3 DEF OnTime
  <2>2. QED  BY <1>1, <2>1, TimersSoon
<1>4. Answered(n) => now < store.start
  BY <1>1, TimersSoon DEF Answered
<1>5. ASSUME NEW i, NEW d \in {0, 1}, Pending(n, i, d)  PROVE now < store.start
  <2>1. PICK p \in Procs : Pends(n, p, i, d)
    BY <1>5 DEF Pending
  <2>2. Waits(n, p, d) => now < store.start
    BY <1>1, <1>3 DEF Waits, ATimer
  <2>3. \A k \in DOMAIN queue[n] : Comes(n, p, k, d) => now < store.start
    BY <1>2, <1>3 DEF Comes
  <2>4. QED  BY <2>1, <2>2, <2>3 DEF Pends
<1>6. ASSUME NEW i, Announced(n, i)  PROVE now < store.start \/ StoreLate
  <2>1. News(n, i) => now < store.start
    BY <1>2, <1>3 DEF News
  <2>2. ASSUME NEW p \in Procs, step[p] = "publishing", made[p] = store, ~(now >= endOfLock[p])
        PROVE  now < store.start
    <3>1. Soon(endOfLock[p])
      BY <1>1, <2>2 DEF Made, Soon
    <3>2. now <= endOfLock[p]
      BY <1>1, <2>2
    <3>3. QED  BY <1>1, <3>1, <3>2, TimersSoon
  <2>3. Publisher(n) => now < store.start \/ StoreLate
    BY <2>2 DEF Publisher, StoreLate
  <2>4. QED  BY <1>6, <2>1, <2>3 DEF Announced
<1>7. ASSUME NEW i, NEW d \in {0, 1}, Told(n, i, d)
      PROVE  now < store.start \/ (StoreLate /\ (n \in between \/ ~NoFault))
  <2>1. CASE NoFault /\ n \notin between
    BY <1>5, <1>7, <2>1 DEF Told
  <2>2. CASE ~(NoFault /\ n \notin between)
    BY <1>5, <1>6, <1>7, <2>2 DEF Told
  <2>3. QED  BY <2>1, <2>2
<1>8. QED  BY <1>4, <1>7

LEMMA LateKept ==
  ASSUME Typed, \A m \in Nodes : NodeLife(m), [Next]_vars, Late, ~overrun'
  PROVE  Late' \/ (NoFault /\ ~NoFault')
<1>1. PICK p \in Procs : step[p] = "publishing" /\ now >= endOfLock[p]
  BY DEF Late
<1>2. now \in Nat /\ endOfLock[p] \in Nat /\ (now' = now \/ now' = now + 1)
  BY ClockStep DEF Typed, RedisTyped, CallsTyped
<1>3. CASE step'[p] = step[p] /\ endOfLock'[p] = endOfLock[p]
  BY <1>1, <1>2, <1>3 DEF Late
<1>4. ASSUME NEW m \in Nodes, Crash(m)  PROVE NoFault /\ ~NoFault'
  BY <1>4 DEF Crash, NoFault, Typed, NodesTyped
<1>5. ~PublishNew(p)
  BY <1>1 DEF PublishNew, Overrun
<1>6. ~(Generate(p) \/ LockRejected(p) \/ CallRejected(p) \/ UnlockRejected(p))
  BY <1>1, <1>5, CallStep
<1>7. NodeOf(p) \in Nodes
  BY Constants
<1>8. QED  BY <1>1, <1>3, <1>4, <1>6, <1>7, CallChange

-----------------------------------------------------------------------------
(* Keys that a node has, or will get, do not fall further behind. *)
LEMMA PriorKept ==
  ASSUME AgreeInv, [Next]_vars, NEW n \in Nodes, Bound(n), Bound(n)', NEW v \in K, Prior(n, v),
         v \in {store, NoKeys} \/ (store.start # 0 /\ (Answered(n) \/ \E i : Told(n, i, 0) \/ Told(n, i, 1)))
  PROVE  Prior(n, v)'
<1>1. /\ Typed /\ (\A m \in Nodes : NodeLife(m)) /\ (\A p \in Procs : MadeFromStore(p)) /\ ~overrun'
      /\ (NoFault' => NoFault) /\ between \subseteq between'
      /\ now \in Nat /\ (now' = now \/ now' = now + 1) /\ v.start \in Nat /\ store.start \in Nat
  BY BoundBefore, HistoryGrows, ClockStep DEF AgreeInv, CallsInv, Typed, RedisTyped, K, KeySets
<1>2. CASE Late /\ (n \in between \/ ~NoFault)
  <2>1. Late' \/ (NoFault /\ ~NoFault')
    BY <1>1, <1>2, LateKept
  <2>2. ~(NoFault /\ ~NoFault')
    BY <1>1, <1>2 DEF Bound, Excused
  <2>3. QED  BY <1>1, <1>2, <2>1, <2>2 DEF Prior
<1>3. CASE store' = store /\ ~(Late /\ (n \in between \/ ~NoFault))
  BY <1>1, <1>3 DEF Prior
<1>4. CASE store' # store /\ ~(Late /\ (n \in between \/ ~NoFault))
  <2>1. store # NoKeys => store'.prev = store.cur /\ (store.start = 0 \/ store.start + 1 <= now)
    BY <1>1, <1>4, ChainStep
  <2>2. CASE v = NoKeys
    BY <2>2 DEF Prior
  <2>3. CASE v = store /\ store # NoKeys
    BY <1>1, <2>1, <2>3 DEF Prior
  <2>4. CASE v \notin {store, NoKeys}
    <3>1. now < store.start
      BY <1>4, <2>4, ToldSoon DEF StoreLate, Late
    <3>2. store # NoKeys
      BY <1>1, <3>1 DEF NoKeys
    <3>3. QED  BY <1>1, <2>1, <3>1, <3>2
  <2>5. QED  BY <2>2, <2>3, <2>4
<1>5. QED  BY <1>2, <1>3, <1>4

(* The keys of a node that is up come from what it had, or was on its way. *)
LEMMA KeysSource ==
  ASSUME AgreeInv, [Next]_vars, NEW n \in Nodes, Bound(n), Bound(n)', status'[n] = "up" \/ HasStored(n)'
  PROVE  \/ keys'[n] = keys[n] /\ (status[n] = "up" \/ HasStored(n))
         \/ keys'[n] = store'
         \/ \E rd \in reads[n] : keys'[n] = rd.val
         \/ \E i \in DOMAIN queue[n] : queue[n][i].event = "new" /\ keys'[n] = queue[n][i].keys
<1>1. /\ Typed /\ (\A m \in Nodes : NodeLife(m)) /\ (\A p \in Procs : Made(p)) /\ Covered(n)
      /\ n \in Procs /\ NodeOf(n) = n /\ NodesTyped
  BY Constants DEF AgreeInv, CallsInv, Typed
<1>2. HasStored(n) => keys[n] = made[n]
  BY <1>1 DEF Covered, OwnCovered
<1>3. HasStored(n)' => keys'[n] = made'[n]
  BY <1>1, OwnKept DEF OwnCovered
<1>4. CASE keys'[n] = keys[n]
  <2>1. SUFFICES ASSUME ~(status[n] = "up" \/ HasStored(n))
                 PROVE  keys'[n] = store' \/ \E rd \in reads[n] : keys'[n] = rd.val
    BY <1>4
  <2>2. CASE HasStored(n)'
    BY <1>1, <1>3, <2>1, <2>2, StoredBefore
  <2>3. CASE status'[n] = "up" /\ ~NodeStep(n)
    BY <1>1, <2>1, <2>3, UpBefore
  <2>4. CASE status'[n] = "up" /\ NodeStep(n)
    <3>1. ReplyToStart(n)
      BY <2>1, <2>4 DEF NodeStep, ReplyToTimer, FireRead, FireFinal, Fire,
         ReceivePending, ReceiveCancel, ReceiveNew, Received
    <3>2. PICK rd \in reads[n] : Keyed(n, rd.val) \/ UNCHANGED status
      BY <3>1 DEF ReplyToStart
    <3>3. QED  BY <1>1, <2>1, <2>4, <3>2 DEF Keyed, NodesTyped
  <2>5. QED  BY <2>2, <2>3, <2>4
<1>5. CASE keys'[n] # keys[n]
  <2>1. ReceiveNew(n) => \E i \in DOMAIN queue[n] : queue[n][i].event = "new" /\ Head(queue[n]) = queue[n][i]
    <3>1. ReceiveNew(n) => Received(n, "new")
      BY DEF ReceiveNew
    <3>2. QED  BY <1>1, <3>1, AtHead
  <2>2. step'[n] \in {"idle", "locking"} => ~HasStored(n)'
    BY DEF HasStored
  <2>3. QED  BY <1>1, <1>2, <1>5, <2>1, <2>2, KeysBefore
<1>6. QED  BY <1>4, <1>5

LEMMA PriorsKept ==
  ASSUME AgreeInv, [Next]_vars, NEW n \in Nodes, Priors(n)
  PROVE  Priors(n)'
<1>1. /\ Typed /\ (\A m \in Nodes : NodeLife(m)) /\ (\A p \in Procs : Made(p) /\ Current(p)) /\ Covered(n) /\ HasKeys(n)
      /\ Single /\ RedisTyped /\ NodesTyped /\ \A e, p, k : Msg(e, p, k).event = e /\ Msg(e, p, k).keys = k
  BY DEF AgreeInv, CallsInv, Typed, Msg
<1>2. SUFFICES ASSUME Bound(n)'
               PROVE  /\ status'[n] = "up" \/ HasStored(n)' => Prior(n, keys[n])'
                      /\ \A rd \in reads'[n] : Prior(n, rd.val)'
                      /\ \A i \in DOMAIN queue'[n] : queue'[n][i].event = "new" => Prior(n, queue[n][i].keys)'
  BY DEF Priors
<1>3. ~overrun /\ ~overrun' /\ (Bound(n) \/ StartNode(n))
  BY <1>1, <1>2, BoundBefore
<1>4. \A v : v = store' => Prior(n, v)'
  BY DEF Prior
<1>5. CASE StartNode(n)
  <2>1. /\ status'[n] = "starting" /\ queue'[n] = <<>> /\ step'[n] = "idle"
        /\ reads'[n] = {[why |-> "init", val |-> store]} /\ store' = store
    BY <1>1, <1>5 DEF StartNode, ReadStore, NodeLife, HasKeys, NodesTyped, redisVars, procVars
  <2>2. QED  BY <2>1 DEF HasStored, Prior
<1>6. CASE Bound(n)
  <2>1. /\ KeysCovered(n) /\ ReadsCovered(n) /\ NewsCovered(n)
        /\ status[n] = "up" \/ HasStored(n) => Prior(n, keys[n])
        /\ \A rd \in reads[n] : Prior(n, rd.val)
        /\ \A i \in DOMAIN queue[n] : queue[n][i].event = "new" => Prior(n, queue[n][i].keys)
    BY <1>1, <1>6 DEF Covered, Priors
  <2>2. store.start = 0 => Among(n, {store, NoKeys})
    BY <1>1, <1>3 DEF Single
  <2>3. \A i \in DOMAIN queue[n] : queue[n][i] \in Message
    BY <1>1, ElementOfSeq, LenProperties DEF RedisTyped
  <2>4. ASSUME status[n] = "up" \/ HasStored(n), NEW v, v = keys[n]  PROVE Prior(n, v)'
    <3>1. v \in K /\ Prior(n, v)
      BY <1>1, <2>1, <2>4 DEF NodesTyped
    <3>2. v \in {store, NoKeys} \/ (store.start # 0 /\ (Answered(n) \/ Told(n, 0, 0)))
      BY <2>1, <2>2, <2>4 DEF KeysCovered, Among
    <3>3. QED  BY <1>2, <1>6, <3>1, <3>2, PriorKept
  <2>5. ASSUME NEW rd \in reads[n], NEW v, v = rd.val  PROVE Prior(n, v)'
    <3>1. v \in K /\ Prior(n, v)
      BY <1>1, <2>1, <2>5 DEF NodesTyped, Read
    <3>2. v \in {store, NoKeys} \/ (store.start # 0 /\ Told(n, 0, 1))
      BY <2>1, <2>2, <2>5 DEF ReadsCovered, Among
    <3>3. QED  BY <1>2, <1>6, <3>1, <3>2, PriorKept
  <2>6. ASSUME NEW i \in DOMAIN queue[n], queue[n][i].event = "new", NEW v, v = queue[n][i].keys  PROVE Prior(n, v)'
    <3>1. v \in K /\ Prior(n, v)
      BY <2>1, <2>3, <2>6 DEF Message
    <3>2. v \in {store, NoKeys} \/ (store.start # 0 /\ Told(n, i, 0))
      BY <2>1, <2>2, <2>6 DEF NewsCovered, Among
    <3>3. QED  BY <1>2, <1>6, <3>1, <3>2, PriorKept
  <2>7. ASSUME status'[n] = "up" \/ HasStored(n)', NEW v, v = keys'[n]  PROVE Prior(n, v)'
    <3>1. \/ keys'[n] = keys[n] /\ (status[n] = "up" \/ HasStored(n))
          \/ keys'[n] = store'
          \/ \E rd \in reads[n] : keys'[n] = rd.val
          \/ \E i \in DOMAIN queue[n] : queue[n][i].event = "new" /\ keys'[n] = queue[n][i].keys
      BY <1>2, <1>6, <2>7, KeysSource
    <3>2. QED  BY <1>4, <2>4, <2>5, <2>6, <2>7, <3>1
  <2>8. ASSUME NEW rd \in reads'[n], NEW v, v = rd.val  PROVE Prior(n, v)'
    <3>1. CASE rd \in reads[n]
      BY <2>5, <2>8, <3>1
    <3>2. CASE rd.val = store
      <4>1. v \in K /\ Prior(n, v)
        BY <1>1, <2>8, <3>2 DEF Prior, RedisTyped
      <4>2. QED  BY <1>2, <1>6, <2>8, <3>2, <4>1, PriorKept
    <3>3. QED  BY <1>1, <2>8, <3>1, <3>2, ReadsBefore
  <2>9. ASSUME NEW i \in DOMAIN queue'[n], queue'[n][i].event = "new", NEW v, v = queue'[n][i].keys  PROVE Prior(n, v)'
    <3>1. CASE \E k \in DOMAIN queue[n] : queue'[n][i] = queue[n][k]
      BY <2>6, <2>9, <3>1
    <3>2. ASSUME NEW p \in Procs, PublishNew(p), step[p] = "publishing", queue'[n][i].keys = made[p]
          PROVE  Prior(n, v)'
      <4>1. lock.by = p /\ store' = store
        BY <1>3, <3>2 DEF PublishNew, Step, Overrun
      <4>2. made[p] = store
        BY <1>1, <1>3, <3>2, <4>1 DEF Current
      <4>3. QED  BY <1>4, <2>9, <3>2, <4>1, <4>2
    <3>3. QED  BY <1>1, <2>9, <3>1, <3>2, NewsBefore
  <2>10. /\ status'[n] = "up" \/ HasStored(n)' => Prior(n, keys[n])'
         /\ \A rd \in reads'[n] : Prior(n, rd.val)'
         /\ \A i \in DOMAIN queue'[n] : queue'[n][i].event = "new" => Prior(n, queue[n][i].keys)'
    BY <2>7, <2>8, <2>9 DEF Prior
  <2>11. QED  BY <2>10
<1>7. QED  BY <1>3, <1>5, <1>6

KnownInv ==
  /\ AgreeInv
  /\ Ordered(store) /\ \A p \in Procs : Ordered(made[p])
  /\ \A n \in Nodes : Priors(n)

LEMMA KnownStep ==
  ASSUME KnownInv, [Next]_vars  PROVE KnownInv'
<1>1. AgreeInv /\ Typed
  BY DEF KnownInv, AgreeInv, CallsInv
<1>2. AgreeInv'
  BY <1>1, AgreeStep
<1>3. Ordered(store)' /\ \A p \in Procs : Ordered(made[p])'
  BY <1>1, OrderedKept DEF KnownInv
<1>4. \A n \in Nodes : Priors(n)'
  BY <1>1, PriorsKept DEF KnownInv
<1>5. QED  BY <1>2, <1>3, <1>4 DEF KnownInv

LEMMA KnownInit ==
  ASSUME Init  PROVE KnownInv
<1>1. AgreeInv
  BY AgreeInit
<1>2. Ordered(store)
  <2>1. PICK f \in Found :
          store = CASE f = "nothing" -> NoKeys
                    [] f = "first"   -> FirstKeys(1)
                    [] f = "rotated" -> [cur |-> 2, start |-> 1, prev |-> 1, exp |-> 2]
    BY DEF Init
  <2>2. f \in {"nothing", "first", "rotated"}
    BY KeysAssumption
  <2>3. QED  BY <2>1, <2>2 DEF Ordered, FirstKeys, NoKeys
<1>3. \A p \in Procs : Ordered(made[p])
  BY DEF Init, Ordered, NoKeys
<1>4. \A n \in Nodes : Priors(n)
  BY DEF Init, Priors, Bound, Alive
<1>5. QED  BY <1>1, <1>2, <1>3, <1>4 DEF KnownInv

LEMMA KnownInvariant == Spec => []KnownInv
<1>1. KnownInv /\ [Next]_vars => KnownInv'
  BY KnownStep
<1>2. QED  BY <1>1, KnownInit, PTL DEF Spec

(* Whatever key a node signs with, every other node that is up knows it: the
   delay before a new key starts is long enough, whatever was lost, crashed or
   rejected (CURR_JWKS_START_DELAY_SECS, getActiveConnectorKeys, getPublicKeys). *)
THEOREM KnownSafe == Spec => []SigningKeyKnown
<1>1. ASSUME KnownInv  PROVE SigningKeyKnown
  <2>1. SUFFICES ASSUME NEW n \in Nodes, NEW m \in Nodes, status[n] = "up", status[m] = "up",
                        ~Excused(n), ~Excused(m), ~Rejected(n), ~Rejected(m),
                        \A p \in Procs : step[p] = "publishing" => now < endOfLock[p]
                 PROVE  Active(keys[n], now) \in Known(keys[m])
    BY DEF SigningKeyKnown
  <2>2. /\ AgreeInv /\ Ordered(store) /\ InTime(store) /\ Single /\ ~overrun
        /\ now \in Nat /\ store \in K /\ store.start \in Nat /\ store.exp \in Nat /\ keys \in [Nodes -> K]
        /\ \A p \in Procs : endOfLock[p] \in Nat
    BY <1>1, <2>1 DEF KnownInv, AgreeInv, CallsInv, Typed, RedisTyped, NodesTyped, CallsTyped, K, KeySets, Excused
  <2>3. ~Late
    BY <2>1, <2>2 DEF Late
  <2>4. ASSUME NEW u \in Nodes, status[u] = "up", ~Excused(u), ~Rejected(u), keys[u] # store
        PROVE  keys[u].cur = store.prev /\ keys[u].start <= now /\ now < store.start
    <3>1. Bound(u)
      BY <2>4 DEF Bound, Alive
    <3>2. keys[u] # NoKeys
      BY <1>1, <2>4 DEF KnownInv, AgreeInv, HasKeys
    <3>3. keys[u].cur = store.prev /\ keys[u].start <= now
      BY <1>1, <2>3, <2>4, <3>1, <3>2 DEF KnownInv, Priors, Prior
    <3>4. store.start # 0
      BY <2>2, <2>4, <3>2 DEF Single, Among
    <3>5. Answered(u) \/ Told(u, 0, 0)
      BY <2>2, <2>4, <3>1 DEF AgreeInv, Covered, KeysCovered
    <3>6. now < store.start
      BY <2>2, <2>3, <3>4, <3>5, ToldSoon DEF StoreLate, Late
    <3>7. QED  BY <3>3, <3>6
  <2>5. now < store.start => store.prev # 0 /\ PrevValid(store, now)
    <3>1. SUFFICES ASSUME now < store.start  PROVE store.prev # 0 /\ PrevValid(store, now)
      OBVIOUS
    <3>2. store.prev # 0 /\ store.start <= store.exp /\ store.exp <= now + PrevExpiry
      BY <2>2, <3>1 DEF Ordered, InTime
    <3>3. PrevExpiry \in Nat /\ MaxPrevExpiry \in Nat /\ PrevExpiry < MaxPrevExpiry
      BY Constants, DelaysAssumption
    <3>4. QED  BY <2>2, <3>1, <3>2, <3>3 DEF PrevValid
  <2>6. keys[n].start \in Nat
    BY <2>2 DEF K, KeySets
  <2>7. CASE keys[n] = store /\ keys[m] = store
    BY <2>2, <2>5, <2>7 DEF Active, Known
  <2>8. CASE keys[n] = store /\ keys[m] # store
    <3>1. Active(store, now) = store.prev /\ keys[m].cur = store.prev
      BY <2>1, <2>2, <2>4, <2>5, <2>8 DEF Active
    <3>2. QED  BY <2>8, <3>1 DEF Known
  <2>9. CASE keys[n] # store
    <3>1. keys[n].cur = store.prev /\ keys[n].start <= now /\ now < store.start
      BY <2>1, <2>4, <2>9
    <3>2. Active(keys[n], now) = store.prev
      BY <2>2, <2>6, <3>1 DEF Active
    <3>3. CASE keys[m] = store
      BY <2>5, <3>1, <3>2, <3>3 DEF Known
    <3>4. CASE keys[m] # store
      <4>1. keys[m].cur = store.prev
        BY <2>1, <2>4, <3>4
      <4>2. QED  BY <3>2, <4>1 DEF Known
    <3>5. QED  BY <3>3, <3>4
  <2>10. QED  BY <2>7, <2>8, <2>9
<1>2. QED  BY <1>1, KnownInvariant, PTL
-----------------------------------------------------------------------------
(* Keys are numbered in the order they are made, and no two calls make the same. *)
Upward == {k \in K : k.prev <= k.cur}

Fresh ==
  /\ store \in Upward /\ store.cur < nextKey
  /\ \A p \in Procs :
       /\ made[p] \in Upward /\ made[p].cur < nextKey
       /\ step[p] \in {"warning", "storing"} => made[p].cur # store.cur
  /\ \A p, q \in Procs : p # q /\ made[p] # NoKeys => made[p].cur # made[q].cur
  /\ \A n \in Nodes : Among(n, Upward)

(* A job that has finished, or waits for the start of its key to finish. *)
FinalTimer(j, t) == t.kind = "final" /\ t.proc = j

Finishing(j) == heard[j].event = "finish" \/ \E n \in Nodes : \E t \in timers[n] : FinalTimer(j, t)

(* A job that stored its keys knows their number, and stores no others. *)
Stored(j) ==
  /\ step[j] = "publishing" => heard[j].key = made[j].cur
  /\ Finishing(j) => step[j] \in {"unlocking", "done"}

(* Whoever uses keys v, or those that n has or will get, uses key x or a newer one. *)
Enough(v, x) == Active(v, now) >= x

Suffices(n, x) ==
  Bound(n) =>
    /\ status[n] = "up" \/ HasStored(n) => Enough(keys[n], x)
    /\ \A rd \in reads[n] : rd.val = NoKeys \/ Enough(rd.val, x)
    /\ \A i \in DOMAIN queue[n] : queue[n][i].event = "new" => Enough(queue[n][i].keys, x)

(* The keys of a job are the stored ones, and it waits for their start; or nobody
   has older ones any more. *)
Awaits(j) ==
  /\ store.cur = heard[j].key
  /\ \A p \in Procs : step[p] = "publishing" => made[p] # store
  /\ heard[j].event = "finish" => store.start <= now
  /\ \A n \in Nodes : \A t \in timers[n] : FinalTimer(j, t) => store.start <= t.at

Reached(x) == Enough(store, x) /\ \A n \in Nodes : Suffices(n, x)

Finishes(j) == Finishing(j) /\ ~overrun => Awaits(j) \/ Reached(heard[j].key)

LEMMA NextKeyStep ==
  ASSUME Typed, [Next]_vars
  PROVE  nextKey \in Nat /\ nextKey' \in Nat /\ nextKey <= nextKey' /\ 0 < nextKey
<1>1. nextKey \in Nat \ {0}
  BY Constants DEF Typed, CallsTyped
<1>2. nextKey' = nextKey \/ nextKey' = nextKey + 1
  <2>1. CASE UNCHANGED vars \/ Tick \/ \E j \in Jobs : BeginJob(j)
    BY <2>1 DEF vars, procVars, Tick, BeginJob
  <2>2. ASSUME NEW p \in Procs, Generate(p)  PROVE nextKey' = nextKey \/ nextKey' = nextKey + 1
    BY <2>2 DEF Generate, GetLock, NoLockForUs, ReadKeys, PublishPending, StoreKeys,
       StoreRefused, PublishCancel, PublishNew, UnlockKeys, UnlockAndThrow
  <2>3. ASSUME NEW p \in Procs, LockRejected(p) \/ CallRejected(p) \/ UnlockRejected(p)  PROVE nextKey' = nextKey
    BY <2>3 DEF LockRejected, CallRejected, UnlockRejected, Rejects
  <2>4. QED  BY <2>1, <2>2, <2>3, NodeFrame DEF Next
<1>3. QED  BY <1>1, <1>2

(* A call that makes keys gives them the next number. *)
LEMMA MadeFresh ==
  ASSUME Typed, Fresh, NEW p \in Procs, [Next]_vars
  PROVE  /\ made'[p] \in Upward /\ made'[p].cur < nextKey'
         /\ made'[p] = made[p] \/ made'[p] = NoKeys \/ (ReadKeys(p) /\ made'[p].cur = nextKey)
<1>1. /\ nextKey \in Nat /\ nextKey' \in Nat /\ nextKey <= nextKey' /\ 0 < nextKey
      /\ now \in Nat /\ store \in K /\ store.cur \in Nat /\ made[p].cur \in Nat
  <2>1. now \in Nat /\ store \in K /\ made[p] \in K /\ MaxKeys \in Nat
    BY Constants DEF Typed, RedisTyped, CallsTyped
  <2>2. QED  BY <2>1, NextKeyStep DEF K, KeySets
<1>2. CASE made'[p] = made[p]
  BY <1>1, <1>2 DEF Fresh
<1>3. CASE made'[p] = NoKeys
  <2>1. NoKeys \in Upward /\ NoKeys.cur = 0
    BY KeyTypes DEF Upward, NoKeys
  <2>2. QED  BY <1>1, <1>3, <2>1
<1>4. CASE ReadKeys(p) /\ MayRotate(store, now) /\ made'[p] = Rotated(store, nextKey, now) /\ nextKey \in 0..MaxKeys
           /\ made'[p] # made[p]
  <2>1. made'[p] \in K
    BY <1>1, <1>4, KeyTypes
  <2>2. made'[p].cur = nextKey /\ made'[p].prev \in {0, store.cur}
    BY <1>4 DEF Rotated, FirstKeys, NoKeys
  <2>3. store.cur < nextKey
    BY DEF Fresh
  <2>4. made'[p].prev <= made'[p].cur
    BY <1>1, <2>2, <2>3
  <2>5. nextKey' = nextKey + 1
    BY <1>4 DEF ReadKeys, CallsTyped, Typed
  <2>6. QED  BY <1>1, <1>4, <2>1, <2>2, <2>4, <2>5 DEF Upward
<1>5. QED  BY <1>2, <1>3, <1>4, MadeStep

LEMMA MadeAlone ==
  ASSUME Typed, NEW p \in Procs, NEW q \in Procs, p # q, ReadKeys(p)
  PROVE  made'[q] = made[q]
<1>1. Generate(p)
  BY DEF Generate
<1>2. QED  BY <1>1, OtherCall

LEMMA FreshKept ==
  ASSUME Typed, Fresh, \A n \in Nodes : NodeLife(n), \A p \in Procs : Made(p),
         \A p \in Procs : Ordered(made[p]), \A p \in Procs : Ordered(made[p])', [Next]_vars
  PROVE  Fresh'
<1>1. /\ nextKey \in Nat /\ nextKey' \in Nat /\ nextKey <= nextKey' /\ 0 < nextKey /\ store.cur \in Nat
      /\ \A p \in Procs : made[p].cur \in Nat
      /\ \A p \in Procs : NodeOf(p) \in Nodes
  BY NextKeyStep, Constants DEF Typed, RedisTyped, CallsTyped, K, KeySets
<1>2. \A p \in Procs : made'[p] \in Upward /\ made'[p].cur < nextKey'
  BY MadeFresh
<1>3. store' \in Upward /\ store'.cur < nextKey'
  <2>1. CASE store' = store
    BY <1>1, <2>1 DEF Fresh
  <2>2. CASE store' # store
    <3>1. PICK p \in Procs : store' = made[p]
      BY <2>2, StoreStep
    <3>2. QED  BY <1>1, <3>1 DEF Fresh
  <2>3. QED  BY <2>1, <2>2
<1>4. ASSUME NEW p \in Procs, step'[p] \in {"warning", "storing"}  PROVE made'[p].cur # store'.cur
  <2>1. CASE store' # store
    <3>1. PICK q \in Procs : step[q] = "storing" /\ store' = made[q] /\ (StoreKeys(q) \/ CallRejected(q))
      BY <2>1, StoreStep
    <3>2. Generate(q) \/ CallRejected(q)
      BY <3>1 DEF Generate
    <3>3. step'[q] \in {"publishing", "failing"}
      BY <3>1, Turns DEF StoreKeys, CallRejected, Step
    <3>4. p # q /\ made'[p] = made[p]
      BY <1>4, <3>2, <3>3, OtherCall
    <3>5. made[q] # NoKeys
      BY <3>1 DEF Made
    <3>6. QED  BY <3>1, <3>4, <3>5 DEF Fresh
  <2>2. CASE store' = store
    <3>1. CASE ReadKeys(p)
      <4>1. made'[p] = Rotated(store, nextKey, now)
        <5>1. step[p] = "reading"
          BY <3>1 DEF ReadKeys, Step
        <5>2. made' = [made EXCEPT ![p] = Rotated(store, nextKey, now)]
          BY <1>4, <3>1, Turns DEF ReadKeys, Step
        <5>3. QED  BY <5>2 DEF Typed, CallsTyped
      <4>2. made'[p].cur = nextKey
        BY <4>1 DEF Rotated, FirstKeys, NoKeys
      <4>3. QED  BY <1>1, <2>2, <4>2 DEF Fresh
    <3>2. CASE ~ReadKeys(p)
      <4>1. step[p] \in {"warning", "storing"} /\ made'[p] = made[p]
        BY <1>1, <1>4, <3>2, CallStep, CallChange
      <4>2. QED  BY <2>2, <4>1 DEF Fresh
    <3>3. QED  BY <3>1, <3>2
  <2>3. QED  BY <2>1, <2>2
<1>5. ASSUME NEW p \in Procs, NEW q \in Procs, p # q, made'[p] # NoKeys  PROVE made'[p].cur # made'[q].cur
  <2>1. /\ made'[p] = made[p] \/ (ReadKeys(p) /\ made'[p].cur = nextKey)
        /\ made'[q] = made[q] \/ made'[q] = NoKeys \/ (ReadKeys(q) /\ made'[q].cur = nextKey)
    BY <1>5, MadeFresh
  <2>2. made[p].cur < nextKey /\ made[q].cur < nextKey
    BY DEF Fresh
  <2>3. CASE ReadKeys(p) /\ made'[p].cur = nextKey
    <3>1. made'[q] = made[q]
      BY <1>5, <2>3, MadeAlone
    <3>2. QED  BY <1>1, <2>2, <2>3, <3>1
  <2>4. CASE ReadKeys(q) /\ made'[q].cur = nextKey
    <3>1. made'[p] = made[p]
      BY <1>5, <2>4, MadeAlone
    <3>2. QED  BY <1>1, <2>2, <2>4, <3>1
  <2>5. CASE made'[p] = made[p] /\ made'[q] = NoKeys
    <3>1. made[p].cur # 0 /\ made'[q].cur = 0
      BY <1>5, <2>5 DEF Ordered, NoKeys
    <3>2. QED  BY <2>5, <3>1
  <2>6. CASE made'[p] = made[p] /\ made'[q] = made[q]
    BY <1>5, <2>6 DEF Fresh
  <2>7. QED  BY <2>1, <2>3, <2>4, <2>5, <2>6
<1>6. ASSUME NEW n \in Nodes  PROVE Among(n, Upward)'
  <2>1. NoKeys \in Upward
    BY KeyTypes DEF Upward, NoKeys
  <2>2. n \in Procs
    BY Constants
  <2>3. Among(n, Upward) /\ store \in Upward /\ \A p \in Procs : made[p] \in Upward
    BY DEF Fresh
  <2>4. PICK V : V = Upward
    OBVIOUS
  <2>5. Among(n, V)'
    BY <1>3, <2>1, <2>2, <2>3, <2>4, AmongKept
  <2>6. V = Upward'
    BY <2>4 DEF Upward, K, KeySets
  <2>7. QED  BY <2>5, <2>6 DEF Among
<1>7. QED  BY <1>2, <1>3, <1>4, <1>5, <1>6 DEF Fresh

-----------------------------------------------------------------------------
(* Who sets a final timer of a job, and who changes what it reported. *)
LEMMA FinalTimers ==
  ASSUME Typed, NEW j \in Jobs, NEW n \in Nodes, [Next]_vars, NEW t \in timers'[n], FinalTimer(j, t)
  PROVE  \/ t \in timers[n]
         \/ PublishNew(j) /\ t.at = (IF made[j].start = 0 THEN now ELSE made[j].start)
<1>1. NodesTyped /\ timers \in [Nodes -> SUBSET ATimer]
  BY DEF Typed, NodesTyped
<1>2. CASE UNCHANGED vars
  BY <1>2 DEF vars, nodeVars
<1>3. ASSUME NEW p \in Procs, PublishNew(p)
      PROVE  t \in timers[n] \/ (PublishNew(j) /\ t.at = (IF made[j].start = 0 THEN now ELSE made[j].start))
  BY <1>1, <1>3 DEF PublishNew, AwaitStart, FinalTimer, Timer
<1>4. ASSUME NEW p \in Procs, Generate(p), ~PublishNew(p)  PROVE t \in timers[n]
  BY <1>4 DEF Generate, GetLock, NoLockForUs, ReadKeys, PublishPending, StoreKeys,
     StoreRefused, PublishCancel, UnlockKeys, UnlockAndThrow, Throw
<1>5. ASSUME NEW p \in Procs, LockRejected(p) \/ CallRejected(p) \/ UnlockRejected(p)  PROVE t \in timers[n]
  BY <1>5 DEF LockRejected, CallRejected, UnlockRejected, Throw, nodeVars
<1>6. ASSUME NEW m \in Nodes, StartNode(m) \/ LoseMessage(m) \/ ReplyToStart(m)  PROVE t \in timers[n]
  BY <1>6 DEF StartNode, LoseMessage, ReplyToStart, nodeVars
<1>7. ASSUME NEW m \in Nodes, ReplyToTimer(m)  PROVE t \in timers[n]
  <2>1. timers' = timers \/ \E k : timers' = [timers EXCEPT ![m] = @ \cup {StartTimer(k)}]
    BY <1>7 DEF ReplyToTimer, AddTimer
  <2>2. \A k : StartTimer(k).kind = "refresh"
    BY DEF StartTimer, Timer
  <2>3. QED  BY <1>1, <2>1, <2>2 DEF FinalTimer
<1>8. ASSUME NEW m \in Nodes, FireRead(m) \/ FireFinal(m)  PROVE t \in timers[n]
  <2>1. PICK u \in timers[m] : timers' = [timers EXCEPT ![m] = @ \ {u}]
    BY <1>8 DEF FireRead, FireFinal, Fire
  <2>2. QED  BY <1>1, <2>1
<1>9. ASSUME NEW m \in Nodes, ReceivePending(m)  PROVE t \in timers[n]
  <2>1. \E e, p : timers' = [timers EXCEPT ![m] = @ \cup {Timer("pending", e, p)}]
    BY <1>9 DEF ReceivePending, AddTimer
  <2>2. QED  BY <1>1, <2>1 DEF FinalTimer, Timer
<1>10. ASSUME NEW m \in Nodes, ReceiveCancel(m)  PROVE t \in timers[n]
  BY <1>1, <1>10 DEF ReceiveCancel, NoPending
<1>11. ASSUME NEW m \in Nodes, ReceiveNew(m)  PROVE t \in timers[n]
  <2>1. \E p, k : timers' = [timers EXCEPT ![m] = NoPending(m, p) \cup {StartTimer(k)}]
    BY <1>11 DEF ReceiveNew
  <2>2. \A k : StartTimer(k).kind = "refresh"
    BY DEF StartTimer, Timer
  <2>3. \A p : NoPending(m, p) \subseteq timers[m]
    BY DEF NoPending
  <2>4. QED  BY <1>1, <2>1, <2>2, <2>3 DEF FinalTimer
<1>12. ASSUME NEW m \in Nodes, Crash(m)  PROVE t \in timers[n]
  BY <1>1, <1>12 DEF Crash
<1>13. CASE Tick \/ \E i \in Jobs : BeginJob(i)
  BY <1>13 DEF Tick, BeginJob, nodeVars
<1>14. QED
  BY <1>2, <1>3, <1>4, <1>5, <1>6, <1>7, <1>8, <1>9, <1>10, <1>11, <1>12, <1>13 DEF Next, NodeStep

LEMMA HeardStep ==
  ASSUME Typed, NEW j \in Jobs, [Next]_vars
  PROVE  /\ heard'[j].key = heard[j].key \/ (StoreKeys(j) /\ heard'[j].key = made[j].cur)
         /\ heard'[j].event = "finish" =>
              \/ heard[j].event = "finish"
              \/ \E n \in Nodes : \E t \in timers[n] : FinalTimer(j, t) /\ t.at <= now
<1>1. JobsTyped /\ NodesTyped /\ heard[j] \in [event : Events, key : 0..MaxKeys] /\ now \in Nat
  BY DEF Typed, JobsTyped, RedisTyped
<1>2. ASSUME NEW p, NEW event, Reports(p, event)
      PROVE  /\ heard'[j].key = heard[j].key
             /\ heard'[j].event = (IF j = p THEN event ELSE heard[j].event)
  BY <1>1, <1>2 DEF Reports
<1>3. ASSUME NEW p \in Procs, StoreKeys(p)
      PROVE  /\ heard'[j].key = heard[j].key \/ (StoreKeys(j) /\ heard'[j].key = made[j].cur)
             /\ heard'[j].event = heard[j].event
  BY <1>1, <1>3 DEF StoreKeys
<1>4. ASSUME NEW p \in Procs, Generate(p), ~StoreKeys(p)
      PROVE  heard'[j].key = heard[j].key /\ (heard'[j].event = "finish" => heard[j].event = "finish")
  BY <1>2, <1>4 DEF Generate, GetLock, NoLockForUs, ReadKeys, PublishPending,
     StoreRefused, PublishCancel, PublishNew, UnlockKeys, UnlockAndThrow, jobVars
<1>5. ASSUME NEW p \in Procs, LockRejected(p) \/ CallRejected(p) \/ UnlockRejected(p)  PROVE heard' = heard
  BY <1>5 DEF LockRejected, CallRejected, UnlockRejected, Rejects
<1>6. ASSUME NEW n \in Nodes, FireFinal(n)
      PROVE  /\ heard'[j].key = heard[j].key
             /\ heard'[j].event = "finish" =>
                  heard[j].event = "finish" \/ \E t \in timers[n] : FinalTimer(j, t) /\ t.at <= now
  <2>1. PICK t \in timers[n] : t.kind = "final" /\ Reports(t.proc, "finish") /\ now >= t.at
    BY <1>6 DEF FireFinal, Fire
  <2>2. t.at \in Nat
    BY <1>1 DEF NodesTyped, ATimer
  <2>3. CASE t.proc = j
    BY <1>1, <1>2, <2>1, <2>2, <2>3 DEF FinalTimer
  <2>4. CASE t.proc # j
    BY <1>2, <2>1, <2>4
  <2>5. QED  BY <2>3, <2>4
<1>7. ASSUME NEW n \in Nodes, StartNode(n) \/ ReplyToStart(n) \/ ReplyToTimer(n) \/ FireRead(n)
             \/ ReceivePending(n) \/ ReceiveCancel(n) \/ ReceiveNew(n) \/ LoseMessage(n) \/ Crash(n)
      PROVE  heard' = heard
  BY <1>7 DEF StartNode, ReplyToStart, ReplyToTimer, Reply, FireRead,
     ReceivePending, ReceiveCancel, ReceiveNew, Received, LoseMessage, Crash, jobVars
<1>8. CASE Tick \/ UNCHANGED vars \/ \E i \in Jobs : BeginJob(i)
  BY <1>8 DEF Tick, BeginJob, vars, jobVars
<1>9. QED  BY <1>3, <1>4, <1>5, <1>6, <1>7, <1>8 DEF Next, NodeStep

LEMMA FinishingStep ==
  ASSUME Typed, NEW j \in Jobs, Stored(j), [Next]_vars
  PROVE  /\ Finishing(j)' => Finishing(j) \/ PublishNew(j)
         /\ Finishing(j) => ~PublishNew(j) /\ ~StoreKeys(j) /\ heard'[j].key = heard[j].key
<1>1. Finishing(j) => ~PublishNew(j) /\ ~StoreKeys(j)
  BY DEF Stored, PublishNew, StoreKeys, Step
<1>2. QED  BY <1>1, FinalTimers, HeardStep DEF Finishing

LEMMA StoredKept ==
  ASSUME Typed, NEW j \in Jobs, Stored(j), [Next]_vars
  PROVE  Stored(j)'
<1>1. j \in Procs /\ NodeOf(j) # j
  BY Constants
<1>2. ASSUME step'[j] = "publishing"  PROVE heard'[j].key = made'[j].cur
  <2>1. CASE StoreKeys(j)
    <3>1. Generate(j) /\ step[j] = "storing"
      BY <2>1 DEF Generate, StoreKeys, Step
    <3>2. heard'[j].key = made[j].cur
      BY <2>1 DEF StoreKeys, Typed, JobsTyped
    <3>3. QED  BY <2>1, <3>2 DEF StoreKeys
  <2>2. CASE ~StoreKeys(j)
    <3>1. step[j] = "publishing" /\ made'[j] = made[j]
      BY <1>1, <1>2, <2>2, CallStep, CallChange
    <3>2. QED  BY <2>2, <3>1, HeardStep DEF Stored
  <2>3. QED  BY <2>1, <2>2
<1>3. ASSUME Finishing(j)'  PROVE step'[j] \in {"unlocking", "done"}
  <2>1. CASE PublishNew(j)
    BY <1>1, <2>1, Turns DEF PublishNew, Step
  <2>2. CASE Finishing(j)
    <3>1. step[j] \in {"unlocking", "done"}
      BY <2>2 DEF Stored
    <3>2. QED  BY <1>1, <3>1, CallStep, CallChange
  <2>3. QED  BY <1>3, <2>1, <2>2, FinishingStep
<1>4. QED  BY <1>2, <1>3 DEF Stored

-----------------------------------------------------------------------------
(* Keys whose previous key is older do not get worse as time passes. *)
LEMMA EnoughKept ==
  ASSUME Typed, NEW v \in Upward, NEW x \in Nat, Enough(v, x), [Next]_vars
  PROVE  Enough(v, x)'
<1>1. /\ now \in Nat /\ (now' = now \/ now' = now + 1)
      /\ v.cur \in Nat /\ v.prev \in Nat /\ v.start \in Nat /\ v.prev <= v.cur
  BY ClockStep DEF Typed, RedisTyped, Upward, K, KeySets
<1>2. now <= now'
  BY <1>1
<1>3. Active(v, now)' = Active(v, now) \/ Active(v, now)' = v.cur
  BY <1>1 DEF Active
<1>4. Active(v, now) \in {v.cur, v.prev}
  BY DEF Active
<1>5. QED  BY <1>1, <1>3, <1>4 DEF Enough

(* When the stored keys have started and nobody is about to announce them, all
   have them. *)
LEMMA AllHaveThem ==
  ASSUME KnownInv, ~overrun, store.start <= now,
         \A p \in Procs : step[p] = "publishing" => made[p] # store
  PROVE  Reached(store.cur)
<1>1. /\ AgreeInv /\ Typed /\ (\A p \in Procs : Made(p)) /\ Single /\ now \in Nat /\ store \in K
      /\ store.start \in Nat /\ store.cur \in Nat /\ ~(now < store.start)
  BY DEF KnownInv, AgreeInv, CallsInv, Typed, RedisTyped, K, KeySets
<1>2. Enough(store, store.cur)
  BY <1>1 DEF Enough, Active
<1>3. ASSUME NEW n \in Nodes, Bound(n)  PROVE Among(n, {store, NoKeys}) \/ (store.start # 0 /\ Covered(n))
  BY <1>1 DEF Single, AgreeInv
<1>4. ASSUME NEW n \in Nodes, store.start # 0
      PROVE  ~Answered(n) /\ \A i : ~Told(n, i, 0) /\ ~Told(n, i, 1)
  BY <1>1, <1>4, ToldSoon DEF StoreLate
<1>5. ASSUME NEW n \in Nodes, Bound(n)
      PROVE  /\ status[n] = "up" \/ HasStored(n) => keys[n] \in {store, NoKeys}
             /\ \A rd \in reads[n] : rd.val \in {store, NoKeys}
             /\ \A i \in DOMAIN queue[n] : queue[n][i].event = "new" => queue[n][i].keys \in {store, NoKeys}
  <2>1. CASE Among(n, {store, NoKeys})
    BY <2>1 DEF Among
  <2>2. CASE store.start # 0 /\ Covered(n)
    BY <1>4, <1>5, <2>2 DEF Covered, KeysCovered, ReadsCovered, NewsCovered
  <2>3. QED  BY <1>3, <1>5, <2>1, <2>2
<1>6. ASSUME NEW n \in Nodes, Bound(n)
      PROVE  /\ status[n] = "up" \/ HasStored(n) => keys[n] # NoKeys
             /\ \A i \in DOMAIN queue[n] : queue[n][i].event = "new" => queue[n][i].keys # NoKeys
  <2>1. HasStored(n) => keys[n] = made[n] /\ made[n] # NoKeys
    BY <1>1, <1>6 DEF AgreeInv, Covered, OwnCovered, HasStored
  <2>2. QED  BY <1>1, <2>1 DEF AgreeInv, HasKeys
<1>7. \A n \in Nodes : Suffices(n, store.cur)
  BY <1>2, <1>5, <1>6 DEF Suffices
<1>8. QED  BY <1>2, <1>7 DEF Reached

LEMMA StoreReached ==
  ASSUME KnownInv, Fresh, NEW x \in Nat, Enough(store, x), [Next]_vars, ~overrun'
  PROVE  Enough(store, x)'
<1>1. /\ Typed /\ (\A p \in Procs : MadeFromStore(p) /\ made[p] \in Upward) /\ store \in Upward
      /\ now \in Nat /\ store.start \in Nat /\ store.cur \in Nat /\ (now' = now \/ now' = now + 1)
  BY ClockStep DEF KnownInv, AgreeInv, CallsInv, Fresh, Typed, RedisTyped, K, KeySets
<1>2. CASE store' = store
  <2>1. PICK v \in Upward : v = store
    BY <1>1
  <2>2. Enough(v, x)'
    BY <1>1, <2>1, EnoughKept
  <2>3. QED  BY <1>2, <2>1, <2>2 DEF Enough
<1>3. CASE store' # store
  <2>1. PICK v \in Upward : v = store'
    BY <1>1, <1>3, StoreStep
  <2>2. v.cur \in Nat /\ v.prev \in Nat /\ v.prev <= v.cur
    BY DEF Upward, K, KeySets
  <2>3. v.prev >= x
    <3>1. CASE store = NoKeys
      <4>1. x = 0
        BY <3>1 DEF Enough, Active, NoKeys
      <4>2. QED  BY <2>2, <4>1
    <3>2. CASE store # NoKeys
      <4>1. v.prev = store.cur /\ (store.start = 0 \/ store.start + 1 <= now)
        BY <1>1, <1>3, <2>1, <3>2, ChainStep
      <4>2. Active(store, now) = store.cur
        BY <1>1, <4>1 DEF Active
      <4>3. QED  BY <4>1, <4>2 DEF Enough
    <3>3. QED  BY <3>1, <3>2
  <2>4. v.cur >= x
    BY <2>2, <2>3
  <2>5. Enough(v, x)'
    BY <2>3, <2>4 DEF Enough, Active
  <2>6. QED  BY <2>1, <2>5 DEF Enough
<1>4. QED  BY <1>2, <1>3

LEMMA SufficesKept ==
  ASSUME KnownInv, KnownInv', Fresh, NEW x \in Nat, Reached(x), [Next]_vars, NEW n \in Nodes, Bound(n)'
  PROVE  Suffices(n, x)'
<1>1. /\ AgreeInv /\ AgreeInv' /\ Typed /\ (\A m \in Nodes : NodeLife(m)) /\ (\A p \in Procs : Made(p) /\ Current(p))
      /\ HasKeys(n) /\ NodesTyped /\ RedisTyped
      /\ Enough(store, x) /\ Suffices(n, x) /\ Among(n, Upward) /\ store \in Upward /\ (\A p \in Procs : made[p] \in Upward)
      /\ \A e, p, k : Msg(e, p, k).event = e /\ Msg(e, p, k).keys = k
  BY DEF KnownInv, AgreeInv, CallsInv, Fresh, Reached, Typed, Msg
<1>2. ~overrun /\ ~overrun' /\ (Bound(n) \/ StartNode(n))
  BY <1>1, BoundBefore
<1>3. \A v : v = store' => Enough(v, x)'
  BY <1>1, <1>2, StoreReached DEF Enough
<1>4. CASE StartNode(n)
  <2>1. /\ status'[n] = "starting" /\ queue'[n] = <<>> /\ step'[n] = "idle"
        /\ reads'[n] = {[why |-> "init", val |-> store]} /\ store' = store
    BY <1>1, <1>4 DEF StartNode, ReadStore, NodeLife, HasKeys, NodesTyped, redisVars, procVars
  <2>2. \A rd \in reads'[n] : Enough(rd.val, x)'
    BY <1>3, <2>1
  <2>3. QED  BY <2>1, <2>2 DEF Suffices, HasStored, Enough
<1>5. CASE Bound(n)
  <2>1. /\ status[n] = "up" \/ HasStored(n) => Enough(keys[n], x)
        /\ \A rd \in reads[n] : rd.val = NoKeys \/ Enough(rd.val, x)
        /\ \A i \in DOMAIN queue[n] : queue[n][i].event = "new" => Enough(queue[n][i].keys, x)
    BY <1>1, <1>5 DEF Suffices
  <2>2. ASSUME status[n] = "up" \/ HasStored(n), NEW v, v = keys[n]  PROVE Enough(v, x)'
    <3>1. v \in Upward /\ Enough(v, x)
      BY <1>1, <2>1, <2>2 DEF Among
    <3>2. QED  BY <1>1, <3>1, EnoughKept
  <2>3. ASSUME NEW rd \in reads[n], NEW v, v = rd.val, v # NoKeys  PROVE Enough(v, x)'
    <3>1. v \in Upward /\ Enough(v, x)
      BY <1>1, <2>1, <2>3 DEF Among
    <3>2. QED  BY <1>1, <3>1, EnoughKept
  <2>4. ASSUME NEW i \in DOMAIN queue[n], queue[n][i].event = "new", NEW v, v = queue[n][i].keys  PROVE Enough(v, x)'
    <3>1. v \in Upward /\ Enough(v, x)
      BY <1>1, <2>1, <2>4 DEF Among
    <3>2. QED  BY <1>1, <3>1, EnoughKept
  <2>5. ASSUME NEW v, v = store  PROVE Enough(v, x)'
    <3>1. v \in Upward /\ Enough(v, x)
      BY <1>1, <2>5
    <3>2. QED  BY <1>1, <3>1, EnoughKept
  <2>6. ASSUME status'[n] = "up" \/ HasStored(n)', NEW v, v = keys'[n]  PROVE Enough(v, x)'
    <3>1. v # NoKeys
      <4>1. HasKeys(n)' /\ OwnCovered(n)'
        BY <1>1 DEF AgreeInv, Covered
      <4>2. QED  BY <2>6, <4>1 DEF HasKeys, OwnCovered, HasStored
    <3>2. \/ keys'[n] = keys[n] /\ (status[n] = "up" \/ HasStored(n))
          \/ keys'[n] = store'
          \/ \E rd \in reads[n] : keys'[n] = rd.val
          \/ \E i \in DOMAIN queue[n] : queue[n][i].event = "new" /\ keys'[n] = queue[n][i].keys
      BY <1>1, <1>5, <2>6, KeysSource
    <3>3. QED  BY <1>3, <2>2, <2>3, <2>4, <2>6, <3>1, <3>2
  <2>7. ASSUME NEW rd \in reads'[n], NEW v, v = rd.val, v # NoKeys  PROVE Enough(v, x)'
    <3>1. rd \in reads[n] \/ rd.val = store
      BY <1>1, <2>7, ReadsBefore
    <3>2. QED  BY <2>3, <2>5, <2>7, <3>1
  <2>8. ASSUME NEW i \in DOMAIN queue'[n], queue'[n][i].event = "new", NEW v, v = queue'[n][i].keys  PROVE Enough(v, x)'
    <3>1. CASE \E k \in DOMAIN queue[n] : queue'[n][i] = queue[n][k]
      BY <2>4, <2>8, <3>1
    <3>2. ASSUME NEW p \in Procs, PublishNew(p), step[p] = "publishing", queue'[n][i].keys = made[p]
          PROVE  Enough(v, x)'
      <4>1. lock.by = p
        BY <1>2, <3>2 DEF PublishNew, Step, Overrun
      <4>2. made[p] = store
        BY <1>1, <1>2, <3>2, <4>1 DEF Current
      <4>3. QED  BY <2>5, <2>8, <3>2, <4>2
    <3>3. QED  BY <1>1, <2>8, <3>1, <3>2, NewsBefore
  <2>9. /\ status'[n] = "up" \/ HasStored(n)' => Enough(keys[n], x)'
        /\ \A rd \in reads'[n] : rd.val = NoKeys \/ Enough(rd.val, x)'
        /\ \A i \in DOMAIN queue'[n] : queue'[n][i].event = "new" => Enough(queue[n][i].keys, x)'
    BY <2>6, <2>7, <2>8 DEF Enough
  <2>10. QED  BY <2>9 DEF Suffices
<1>6. QED  BY <1>2, <1>4, <1>5

LEMMA ReachedKept ==
  ASSUME KnownInv, KnownInv', Fresh, NEW x \in Nat, Reached(x), [Next]_vars, ~overrun'
  PROVE  Reached(x)'
<1>1. Enough(store, x)'
  BY StoreReached DEF Reached
<1>2. ASSUME NEW n \in Nodes  PROVE Suffices(n, x)'
  <2>1. CASE Bound(n)'
    BY <2>1, SufficesKept
  <2>2. CASE ~Bound(n)'
    BY <2>2 DEF Suffices
  <2>3. QED  BY <2>1, <2>2
<1>3. QED  BY <1>1, <1>2 DEF Reached

-----------------------------------------------------------------------------
(* A job that stored its keys in time, and announces them, begins to wait. *)
LEMMA AwaitsBegins ==
  ASSUME KnownInv, Fresh, NEW j \in Jobs, Stored(j), [Next]_vars, ~overrun', PublishNew(j)
  PROVE  Awaits(j)'
<1>1. /\ Typed /\ (\A p \in Procs : Made(p) /\ Current(p)) /\ overrun \in BOOLEAN /\ now \in Nat /\ store \in K
      /\ store.start \in Nat /\ j \in Procs
  BY Constants DEF KnownInv, AgreeInv, CallsInv, Typed, RedisTyped, HistTyped, K, KeySets
<1>2. step[j] = "publishing" /\ lock.by = j /\ ~overrun /\ store' = store /\ heard' = heard /\ now' = now
  BY <1>1 DEF PublishNew, Step, Overrun
<1>3. made[j] = store /\ made[j] # NoKeys /\ heard[j].key = made[j].cur /\ ~Finishing(j)
  BY <1>1, <1>2 DEF Current, Made, Stored
<1>4. ASSUME NEW p \in Procs, step'[p] = "publishing"  PROVE made'[p] # store
  <2>1. Generate(j) /\ step'[j] = "unlocking"
    BY <1>1, Turns DEF Generate, PublishNew, Step
  <2>2. p # j /\ made'[p] = made[p]
    BY <1>1, <1>4, <2>1, OtherCall
  <2>3. made[p].cur # made[j].cur
    BY <1>1, <1>3, <2>2 DEF Fresh
  <2>4. QED  BY <1>3, <2>2, <2>3
<1>5. heard'[j].event # "finish"
  BY <1>2, <1>3 DEF Finishing
<1>6. ASSUME NEW n \in Nodes, NEW t \in timers'[n], FinalTimer(j, t)  PROVE store.start <= t.at
  <2>1. t \notin timers[n]
    BY <1>3, <1>6 DEF Finishing
  <2>2. t.at = (IF store.start = 0 THEN now ELSE store.start)
    BY <1>1, <1>3, <1>6, <2>1, FinalTimers
  <2>3. QED  BY <1>1, <2>2
<1>7. QED  BY <1>2, <1>3, <1>4, <1>5, <1>6 DEF Awaits, FinalTimer

LEMMA AwaitsKept ==
  ASSUME KnownInv, Fresh, NEW j \in Jobs, Stored(j), [Next]_vars, Finishing(j), Awaits(j), store' = store
  PROVE  Awaits(j)'
<1>1. /\ Typed /\ (\A n \in Nodes : NodeLife(n)) /\ now \in Nat /\ store.start \in Nat /\ (now' = now \/ now' = now + 1)
      /\ (\A p \in Procs : NodeOf(p) \in Nodes) /\ \A n \in Nodes : timers[n] \subseteq ATimer
  BY ClockStep, Constants DEF KnownInv, AgreeInv, CallsInv, Typed, RedisTyped, NodesTyped, K, KeySets
<1>2. heard'[j].key = heard[j].key /\ ~PublishNew(j)
  BY <1>1, FinishingStep
<1>3. ASSUME NEW p \in Procs, step'[p] = "publishing"  PROVE made'[p] # store
  <2>1. CASE StoreKeys(p)
    <3>1. step[p] = "storing" /\ made[p] = store
      BY <2>1 DEF StoreKeys, Step
    <3>2. QED  BY <3>1 DEF Fresh
  <2>2. CASE ~StoreKeys(p)
    <3>1. step[p] = "publishing" /\ made'[p] = made[p]
      BY <1>1, <1>3, <2>2, CallStep, CallChange
    <3>2. QED  BY <3>1 DEF Awaits
  <2>3. QED  BY <2>1, <2>2
<1>4. ASSUME heard'[j].event = "finish"  PROVE store.start <= now'
  <2>1. store.start <= now
    <3>1. CASE heard[j].event = "finish"
      BY <3>1 DEF Awaits
    <3>2. ASSUME NEW n \in Nodes, NEW t \in timers[n], FinalTimer(j, t), t.at <= now  PROVE store.start <= now
      <4>1. t.at \in Nat /\ store.start <= t.at
        BY <1>1, <3>2 DEF Awaits, ATimer
      <4>2. QED  BY <1>1, <3>2, <4>1
    <3>3. QED  BY <1>1, <1>4, <3>1, <3>2, HeardStep
  <2>2. QED  BY <1>1, <2>1
<1>5. ASSUME NEW n \in Nodes, NEW t \in timers'[n], FinalTimer(j, t)  PROVE store.start <= t.at
  BY <1>1, <1>2, <1>5, FinalTimers DEF Awaits
<1>6. QED  BY <1>2, <1>3, <1>4, <1>5 DEF Awaits, FinalTimer

LEMMA FinishesKept ==
  ASSUME KnownInv, KnownInv', Fresh, NEW j \in Jobs, Stored(j), Finishes(j), [Next]_vars
  PROVE  Finishes(j)'
<1>1. /\ Typed /\ AgreeInv /\ (\A p \in Procs : MadeFromStore(p)) /\ now \in Nat /\ store \in K /\ store.start \in Nat
      /\ heard[j].key \in Nat
  <2>1. MaxKeys \in Nat
    BY Constants
  <2>2. QED  BY <2>1 DEF KnownInv, AgreeInv, CallsInv, Typed, RedisTyped, JobsTyped, K, KeySets
<1>2. SUFFICES ASSUME Finishing(j)', ~overrun'  PROVE Awaits(j)' \/ Reached(heard[j].key)'
  BY DEF Finishes
<1>3. ~overrun
  BY <1>1, <1>2, OverrunStays
<1>4. CASE PublishNew(j)
  BY <1>2, <1>4, AwaitsBegins
<1>5. CASE ~PublishNew(j)
  <2>1. Finishing(j) /\ heard'[j].key = heard[j].key
    BY <1>1, <1>2, <1>5, FinishingStep
  <2>2. CASE Awaits(j) /\ store' = store
    BY <2>1, <2>2, AwaitsKept
  <2>3. Awaits(j) /\ store' # store => Reached(heard[j].key)
    <3>1. SUFFICES ASSUME Awaits(j), store' # store  PROVE Reached(store.cur)
      BY DEF Awaits
    <3>2. store.start <= now
      <4>1. CASE store = NoKeys
        BY <1>1, <4>1 DEF NoKeys
      <4>2. CASE store # NoKeys
        BY <1>1, <1>2, <3>1, <4>2, ChainStep
      <4>3. QED  BY <4>1, <4>2
    <3>3. QED  BY <1>3, <3>1, <3>2, AllHaveThem DEF Awaits
  <2>4. CASE Reached(heard[j].key)
    <3>1. PICK x \in Nat : x = heard[j].key
      BY <1>1
    <3>2. Reached(x)'
      BY <1>2, <2>4, <3>1, ReachedKept
    <3>3. QED  BY <2>1, <3>1, <3>2 DEF Reached, Enough, Suffices
  <2>5. QED  BY <1>3, <2>1, <2>2, <2>3, <2>4 DEF Finishes
<1>6. QED  BY <1>4, <1>5

FinishInv ==
  /\ KnownInv /\ Fresh
  /\ \A j \in Jobs : Stored(j) /\ Finishes(j)

LEMMA FinishStep ==
  ASSUME FinishInv, [Next]_vars  PROVE FinishInv'
<1>1. KnownInv /\ KnownInv' /\ Typed /\ Fresh
  BY KnownStep DEF FinishInv, KnownInv, AgreeInv, CallsInv
<1>2. Fresh'
  BY <1>1, FreshKept DEF KnownInv, AgreeInv, CallsInv
<1>3. ASSUME NEW j \in Jobs  PROVE Stored(j)' /\ Finishes(j)'
  BY <1>1, StoredKept, FinishesKept DEF FinishInv
<1>4. QED  BY <1>1, <1>2, <1>3 DEF FinishInv

LEMMA FinishInit ==
  ASSUME Init  PROVE FinishInv
<1>1. KnownInv /\ Typed
  BY KnownInit DEF KnownInv, AgreeInv, CallsInv
<1>2. store \in Upward
  <2>1. PICK f \in Found :
          store = CASE f = "nothing" -> NoKeys
                    [] f = "first"   -> FirstKeys(1)
                    [] f = "rotated" -> [cur |-> 2, start |-> 1, prev |-> 1, exp |-> 2]
    BY DEF Init
  <2>2. f \in {"nothing", "first", "rotated"}
    BY KeysAssumption
  <2>3. store.prev <= store.cur
    BY <2>1, <2>2 DEF FirstKeys, NoKeys
  <2>4. QED  BY <1>1, <2>3 DEF Upward, Typed, RedisTyped
<1>3. NoKeys \in Upward /\ NoKeys.cur = 0
  BY KeyTypes DEF Upward, NoKeys
<1>4. store.cur < nextKey /\ 0 < nextKey
  <2>1. nextKey = store.cur + 1
    BY DEF Init
  <2>2. store.cur \in Nat
    BY <1>1 DEF Typed, RedisTyped, K, KeySets
  <2>3. QED  BY <2>1, <2>2
<1>5. /\ \A p \in Procs : made[p] = NoKeys /\ step[p] = "idle"
      /\ \A n \in Nodes : keys[n] = NoKeys /\ reads[n] = {} /\ queue[n] = <<>> /\ timers[n] = {}
      /\ \A j \in Jobs : heard[j].event = "nothing" /\ j \in Procs
  BY Constants DEF Init
<1>6. \A n \in Nodes : Among(n, Upward)
  BY <1>3, <1>5 DEF Among
<1>7. Fresh
  BY <1>2, <1>3, <1>4, <1>5, <1>6 DEF Fresh
<1>8. \A j \in Jobs : ~Finishing(j) /\ step[j] = "idle"
  BY <1>5 DEF Finishing
<1>9. \A j \in Jobs : Stored(j) /\ Finishes(j)
  BY <1>8 DEF Stored, Finishes
<1>10. QED  BY <1>1, <1>7, <1>9 DEF FinishInv

LEMMA FinishInvariant == Spec => []FinishInv
<1>1. FinishInv /\ [Next]_vars => FinishInv'
  BY FinishStep
<1>2. QED  BY <1>1, FinishInit, PTL DEF Spec

(* Who asked for a rotation and hears that it is finished may rely on the new
   key: every node that is up signs with it, or with a newer one, however many
   rotations follow (ClusterJob.finish, the final timer of generateClusterKeys). *)
THEOREM FinishSafe == Spec => []FinishMeansActive
<1>1. ASSUME FinishInv  PROVE FinishMeansActive
  <2>1. SUFFICES ASSUME NEW j \in Jobs, NEW n \in Nodes, heard[j].event = "finish", status[n] = "up",
                        ~Excused(n), ~Rejected(n)
                 PROVE  Active(keys[n], now) >= heard[j].key
    BY DEF FinishMeansActive
  <2>2. KnownInv /\ Bound(n) /\ ~overrun /\ Finishing(j)
    BY <1>1, <2>1 DEF FinishInv, Bound, Alive, Excused, Finishing
  <2>3. Awaits(j) => Reached(heard[j].key)
    BY <2>1, <2>2, AllHaveThem DEF Awaits
  <2>4. Reached(heard[j].key)
    BY <1>1, <2>2, <2>3 DEF FinishInv, Finishes
  <2>5. QED  BY <2>1, <2>2, <2>4 DEF Reached, Suffices, Enough
<1>2. QED  BY <1>1, FinishInvariant, PTL
==============================================================================
