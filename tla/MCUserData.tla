------------------------------ MODULE MCUserData ------------------------------
EXTENDS UserData, FiniteSets, TLC

(* The requests of the model are interchangeable. *)
Perms == Permutations(Requests)

(* Two scenarios of the one specification: two requests, with anything that may
   happen; and three, of a session that lasts and while nothing fails, which do
   not ask for the access token to be verified. *)
Sent == {r \in Requests : req[r].pc # "idle"}

TwoRequests == Cardinality(Sent) <= 2

ThreeRequests == session = "live" /\ faults = 0 /\ now <= 3 /\ \A r \in Requests : ~req[r].verify

Scenarios == TwoRequests \/ ThreeRequests
==============================================================================
