------------------------------- MODULE MCRedis -------------------------------
(* Three gets of one key and one of another; a get stands for any number   *)
(* of gets that leave nothing behind.                                      *)
EXTENDS RedisPubSub, TLC
CONSTANTS a1, a2, a3, b1, a, b
TwoKeys == (a1 :> a) @@ (a2 :> a) @@ (a3 :> a) @@ (b1 :> b)
SameKey == Permutations({a1, a2, a3})

(* Three scenarios of the one specification: the connections and their
   credentials, before the first get; and, while the credentials stay as they
   are, all gets through one fault, or all but one through two. *)
NoGets == \A g \in Gets : get[g] = "idle"

NoUpdate == valid = 1 /\ ~call.hangs /\ late = {}

FewGets == \E g \in {a1, a2, a3} : get[g] = "idle"

Scenarios == NoGets \/ (NoUpdate /\ (faults < MaxFaults \/ FewGets))
==============================================================================
