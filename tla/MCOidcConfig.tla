----------------------------- MODULE MCOidcConfig -----------------------------
(* The constants of OidcConfig are numbers and come from the cfg. *)
EXTENDS OidcConfig, TLC
==============================================================================
