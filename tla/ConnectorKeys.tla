---------------------------- MODULE ConnectorKeys ----------------------------
(***************************************************************************)
(* The keys that the instances of a cluster share (ClusterConnectorKeys):  *)
(* the current key, when it starts, the previous key and when that one     *)
(* expires.  Keys are numbered in the order they are made; 0 is no key,    *)
(* and no time.  `t' is the time of the reader's clock.                    *)
(***************************************************************************)
EXTENDS Naturals

CONSTANTS StartDelay, MaxStartDelay, PrevExpiry, MaxPrevExpiry

NoKeys == [cur |-> 0, start |-> 0, prev |-> 0, exp |-> 0]

FirstKeys(key) == [NoKeys EXCEPT !.cur = key]

KeySets(maxKey) == [cur : 0..maxKey, start : Nat, prev : 0..maxKey, exp : Nat]

(* getActiveConnectorKeys *)
Active(k, t) == IF k.start > t /\ k.prev # 0 THEN k.prev ELSE k.cur

NotStarted(k, t) == k.start # 0 /\ k.start + 1 > t /\ k.start < t + MaxStartDelay

PrevValid(k, t) == k.exp # 0 /\ k.exp + 1 > t /\ k.exp < t + MaxPrevExpiry

(* Not while a key waits for its start or a previous key is still valid,
   when the times are reasonable. *)
MayRotate(k, t) == ~NotStarted(k, t) /\ ~PrevValid(k, t)

(* Mutant of Rotated: the new key starts at once. *)
Rotated_NoDelay(k, key, t) ==
  IF k = NoKeys THEN FirstKeys(key)
  ELSE [cur |-> key, start |-> t, prev |-> k.cur, exp |-> t + PrevExpiry]

(* Only when there are existing keys the new key has a delay. *)
Rotated(k, key, t) ==
  IF k = NoKeys THEN FirstKeys(key)
  ELSE [cur |-> key, start |-> t + StartDelay, prev |-> k.cur, exp |-> t + PrevExpiry]
==============================================================================
