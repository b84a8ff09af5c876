----------------------------- MODULE MCLoginFlow -----------------------------
(* The flows, and the pages, are interchangeable. *)
EXTENDS LoginFlow, TLC
Perms == Permutations(Nonces) \cup Permutations(Pages)
=============================================================================
