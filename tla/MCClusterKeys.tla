---------------------------- MODULE MCClusterKeys ----------------------------
(* Two nodes.  Every instance that sees the request to rotate runs a job; that
   both jobs are of one node is the harder case for its lock. *)
EXTENDS ClusterKeys, TLC

CONSTANTS n1, n2, j1, j2

MCNodes == {n1, n2}
MCJobs  == {j1, j2}
MCAt    == [j \in MCJobs |-> n1]

(* A crash ends the calls of its node, those to come too. *)
Dead(n) == status[n] = "dead"

Begun == {j \in Jobs : step[j] # "idle" /\ ~Dead(At[j])}

(* The scenarios of the one specification that are explored: nodes that start
   and find no keys, before a request to rotate; one rotation, with any fault;
   two rotations, while both nodes are up and until one crashes; a rotation
   beside the call of a start. *)
NoStartCalls == \A n \in Nodes : step[n] = "idle" \/ Dead(n)

Starting == Begun = {} /\ rejected = {} /\ now <= 4

OneRotation == Cardinality(Begun) <= 1 /\ NoStartCalls

TwoRotations == NoStartCalls /\ NoFault /\ now <= 4 /\ \A n \in Nodes : status[n] = "up"

Both == Cardinality(Begun) <= 1 /\ NoFault /\ now <= 2

Scenarios == Starting \/ OneRotation \/ TwoRotations \/ Both
==============================================================================
