---------------------------- MODULE MCReactOverlay ----------------------------
(* Strict mode's two mounts, with and without a deferred start; two moves  *)
(* of the user and of other tabs.                                          *)
EXTENDS ReactOverlay
=============================================================================
