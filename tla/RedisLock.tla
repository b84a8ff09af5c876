------------------------------ MODULE RedisLock ------------------------------
(***************************************************************************)
(* The lock of packages/backend/cluster-redis: a redis key whose value is  *)
(* the client id of the process that set it, with an expiry.  The lock     *)
(* knows the process and not the acquisition; `by' is a history field that *)
(* remembers the acquisition, and no action reads it.                      *)
(***************************************************************************)
EXTENDS Naturals

CONSTANTS None, LockTtl

NoLock == [owner |-> None, by |-> None, exp |-> 0]

Locked(l, t) == l.owner # None /\ t < l.exp

OwnedBy(l, client, t) == Locked(l, t) /\ l.owner = client

(* SET key clientId EX ttl *)
ForceLock(client, by, t) == [owner |-> client, by |-> by, exp |-> t + LockTtl]

(* Mutant of CanLock: SET without NX. *)
CanLock_NoNX(l, t) == TRUE

(* SET key clientId EX ttl NX, when it succeeds *)
CanLock(l, t) == ~Locked(l, t)

(* Mutant of Unlocked: a plain DEL of the lock. *)
Unlocked_AnyOwner(l, client, t) == NoLock

(* del-if-locked.lua *)
Unlocked(l, client, t) == IF OwnedBy(l, client, t) THEN NoLock ELSE l

Locks(clients, holders) ==
  [owner : clients \cup {None}, by : holders \cup {None}, exp : Nat]
==============================================================================
