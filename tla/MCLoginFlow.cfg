CONSTANTS
  Nonces = {n1, n2}
  Pages = {p1, p2}
  Foreign = foreign
  Home = home
  None = none
  Cluster = TRUE
  OtherOrigins = TRUE
  KeycloakPages = TRUE
  MaxKey = 2
  MaxFaults = 1
SPECIFICATION Spec
SYMMETRY Perms
INVARIANTS
  RefusedForReason
  LandsWhereItAsked
PROPERTIES
  LogoutStripsTokens
CHECK_DEADLOCK FALSE
