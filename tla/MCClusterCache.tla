---------------------------- MODULE MCClusterCache ----------------------------
(* Gets of one key on two instances: r1 and r2 share one of them. *)
EXTENDS ClusterCacheProvider, TLC

CONSTANTS r1, r2, r3, i1, i2

MCInstances == {i1, i2}

ThreeRequests == {r1, r2, r3}
ThreeHome     == (r1 :> i1) @@ (r2 :> i1) @@ (r3 :> i2)

(* Two scenarios of the one specification: three gets that expire and refetch
   while nothing fails, of which two start in the first moment; and two gets,
   one on each instance, beside an invalidation on the instance of one of them,
   in one moment, with a failure. *)
Late == {r \in Requests : pc[r] # "idle" /\ startedAt[r] > 0}

ThreeGets == invCount = 0 /\ failed = 0 /\ src <= 1 /\ Cardinality(Late) <= 1

TwoGets == "idle" \in {pc[r1], pc[r2]} /\ now = 0 /\ inv[i2] = "idle"

Symmetry == Permutations({r1, r2})

Scenarios == ThreeGets \/ TwoGets

(* Two gets on two instances, for the run about what must happen. *)
TwoRequests == {r1, r3}
TwoHome     == (r1 :> i1) @@ (r3 :> i2)
==============================================================================
