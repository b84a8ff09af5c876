---------------------------- MODULE CachePromise ----------------------------
(***************************************************************************)
(* What a cache provider promises the callers of get, whatever happens     *)
(* inside: a call is answered at most once, the answer never changes, and  *)
(* it is undefined or a datum the source really served, to a callback run  *)
(* for this key before the answer.  A process may die with its calls.      *)
(***************************************************************************)
EXTENDS Naturals

CONSTANTS Requests, None

VARIABLES phase,   \* "idle", "pending", "answered" or "dead"
          answer,  \* what the call returned
          served   \* the data served so far, by the request that asked

promiseVars == <<phase, answer, served>>

PromiseInit ==
  /\ phase = [r \in Requests |-> "idle"]
  /\ answer = [r \in Requests |-> None]
  /\ served = {}

Pend(r) ==
  /\ phase[r] = "idle"
  /\ phase' = [phase EXCEPT ![r] = "pending"]
  /\ UNCHANGED <<answer, served>>

Source(r) ==
  /\ phase[r] = "pending"
  /\ r \notin served
  /\ served' = served \cup {r}
  /\ UNCHANGED <<phase, answer>>

Answered(r) ==
  /\ phase[r] \in {"idle", "pending"}
  /\ phase' = [phase EXCEPT ![r] = "answered"]
  /\ \E v \in served \cup {None} : answer' = [answer EXCEPT ![r] = v]
  /\ UNCHANGED served

Die(D) ==
  /\ \A r \in D : phase[r] = "pending"
  /\ phase' = [r \in Requests |-> IF r \in D THEN "dead" ELSE phase[r]]
  /\ UNCHANGED <<answer, served>>

PromiseNext ==
  \/ \E r \in Requests : Pend(r) \/ Source(r) \/ Answered(r)
  \/ \E D \in SUBSET Requests : Die(D)

PromiseSpec == PromiseInit /\ [][PromiseNext]_promiseVars
==============================================================================
