--------------------------- MODULE MCCacheProvider ---------------------------
(* Three gets of one key on one instance. *)
EXTENDS CacheProvider, TLC

CONSTANTS r1, r2, r3, i1

MCRequests  == {r1, r2, r3}
MCInstances == {i1}
MCHome      == [r \in MCRequests |-> i1]
==============================================================================
