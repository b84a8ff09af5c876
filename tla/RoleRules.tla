------------------------------ MODULE RoleRules ------------------------------
(***************************************************************************)
(* The roles that a required requires, in any of the styles that the          *)
(* connector accepts, and the roles that an access token gives.            *)
(*                                                                         *)
(* A requirement is a value [t, of]: a "role", an "array" of values (a     *)
(* sequence), or an "object" (a function from its keys).  Which style it   *)
(* has, RoleHelper finds from its shape.                                   *)
(***************************************************************************)
EXTENDS Naturals, Sequences, FiniteSets

CONSTANTS
  Roles,           \* roles of Keycloak
  Clients,         \* clients of Keycloak
  Client,          \* defaultResourceAccessKey: the connector's own client
  Requirements,    \* the values that routes require
  Base,            \* a role's letters, without case and accents
  CaseSensitive,   \* caseSensitiveRoleCheck
  MaxRoles         \* bound: the roles of a user

Realm == "realm_access"
Resource == "resource_access"
Locations == {Realm, Resource}

ASSUME ClientsAssumption == Client \in Clients /\ Clients \cap Locations = {}
ASSUME BaseAssumption == DOMAIN Base = Roles
ASSUME ArraysAssumption == \A v \in Requirements : v.t = "array" => DOMAIN v.of \subseteq Nat

Grant == (Clients \cup {Realm}) \X Roles

VARIABLES
  required,  \* roles of the route's configuration, or "public", "unset"
  login,     \* the request has an access token
  granted,   \* the roles of its user, by client or realm
  decision   \* of isUserAuthorized

rolesVars == <<required, login, granted, decision>>

Unprotected == [t : {"public", "unset"}, of : {<<>>}]

RolesStart(r) ==
  /\ required = r
  /\ login = FALSE /\ granted = {} /\ decision = "none"

RolesInit == \E r \in Requirements \cup Unprotected : RolesStart(r)

-----------------------------------------------------------------------------
IsArray(v) == v.t = "array"
Elements(v) == {v.of[i] : i \in DOMAIN v.of}

IsRoleRules(v) ==
  IsArray(v) /\ \A e \in Elements(v) :
    e.t = "role" \/ (IsArray(e) /\ \A x \in Elements(e) : x.t = "role")

(* determineRoleConfigStyle; "invalid" where it throws. *)
ObjectStyle(v) ==
  CASE DOMAIN v.of = {}                                           -> "invalid"
    [] DOMAIN v.of # {} /\ DOMAIN v.of \subseteq Locations        -> "RoleLocation"
    [] DOMAIN v.of # {} /\ DOMAIN v.of \cap Locations = {}        -> "ClientRole"
    [] OTHER                                                      -> "invalid"

ChildStyle(v) ==
  CASE IsRoleRules(v)  -> "RoleRules"
    [] v.t = "object"  -> ObjectStyle(v)
    [] OTHER           -> "invalid"

Style(v) ==
  IF IsArray(v) /\ ~IsRoleRules(v)
  THEN IF \A e \in Elements(v) : ChildStyle(e) # "invalid" THEN "CombinedRoleRulesArray" ELSE "invalid"
  ELSE ChildStyle(v)

-----------------------------------------------------------------------------
Same(r, s) == IF CaseSensitive THEN r = s ELSE Base[r] = Base[s]

HasRole(role, place, user) == \E g \in user : g[1] = place /\ Same(g[2], role)

(* userHasRoleRule: one rule with all of its roles. *)
HasRoleRule(rules, place, user) ==
  \E rule \in Elements(rules) :
    \A role \in (IF rule.t = "role" THEN {rule} ELSE Elements(rule)) : HasRole(role.of, place, user)

HasClientRoles(v, user) == \A client \in DOMAIN v.of : HasRoleRule(v.of[client], client, user)

(* userHasRolesRecurse below the top level; a location in a location, of   *)
(* which the types know nothing, is left out.                              *)
HasResourceAccess(v, user) ==
  CASE Style(v) = "RoleRules"  -> IF HasRoleRule(v, Client, user) THEN "yes" ELSE "no"
    [] Style(v) = "ClientRole" -> IF HasClientRoles(v, user) THEN "yes" ELSE "no"
    [] OTHER                   -> "error"

(* Mutant of HasLocations: one location is enough. *)
HasLocations_One(v, user) ==
  IF \/ Realm \in DOMAIN v.of /\ HasRoleRule(v.of[Realm], Realm, user)
     \/ Resource \in DOMAIN v.of /\ HasResourceAccess(v.of[Resource], user) = "yes"
  THEN "yes" ELSE "no"

HasLocations(v, user) ==
  LET resource == IF Resource \in DOMAIN v.of THEN HasResourceAccess(v.of[Resource], user) ELSE "yes"
  IN  IF resource = "yes" /\ Realm \in DOMAIN v.of /\ ~HasRoleRule(v.of[Realm], Realm, user)
      THEN "no" ELSE resource

HasChild(v, user) == IF Style(v) = "RoleLocation" THEN HasLocations(v, user) ELSE HasResourceAccess(v, user)

(* userHasRoles: the alternatives of an array are tried in their order. *)
HasRoles(v, user) ==
  IF Style(v) # "CombinedRoleRulesArray" THEN HasChild(v, user)
  ELSE LET decided == {i \in DOMAIN v.of : HasChild(v.of[i], user) # "no"}
       IN  IF decided = {} THEN "no"
           ELSE HasChild(v.of[CHOOSE i \in decided : \A j \in decided : i <= j], user)

Open == required.t = "public" \/ (IsArray(required) /\ required.of = <<>>)

Verdict ==
  CASE Open                               -> "yes"
    [] ~Open /\ required.t = "unset"          -> "error"
    [] ~Open /\ required.t # "unset" /\ login -> HasRoles(required, granted)
    [] OTHER                              -> "no"

IsUserAuthorized ==
  /\ decision = "none" /\ decision' = Verdict
  /\ UNCHANGED <<required, login, granted>>

(* Keycloak: the user logs in, is given a role, and asks again. *)
Login ==
  /\ ~login /\ login' = TRUE /\ decision' = "none"
  /\ UNCHANGED <<required, granted>>

Give(g) ==
  /\ login /\ g \notin granted /\ Cardinality(granted) < MaxRoles
  /\ granted' = granted \cup {g} /\ decision' = "none"
  /\ UNCHANGED <<required, login>>

RolesNext == IsUserAuthorized \/ Login \/ \E g \in Grant : Give(g)

RolesSpec == RolesInit /\ [][RolesNext]_rolesVars

-----------------------------------------------------------------------------
(***************************************************************************)
(* What a requirement means: sets of <<place, role>>, one of which a user  *)
(* needs in full.  Clients and locations are joined by AND, rules and the  *)
(* elements of an array by OR.                                             *)
(***************************************************************************)
RuleRoles(rule) == IF rule.t = "role" THEN {rule.of} ELSE {r.of : r \in Elements(rule)}
RulesMean(rules, place) == {{place} \X RuleRoles(rule) : rule \in Elements(rules)}

Both(S, T) == UNION {{x \cup y : y \in T} : x \in S}

ClientsMean(v) ==
  {UNION {pick[c] : c \in DOMAIN v.of} :
     pick \in {f \in [DOMAIN v.of -> UNION {RulesMean(v.of[c], c) : c \in DOMAIN v.of}] :
                 \A c \in DOMAIN v.of : f[c] \in RulesMean(v.of[c], c)}}

(* What has no style that it may have there means nothing. *)
ResourceMeans(v) ==
  CASE Style(v) = "RoleRules"  -> RulesMean(v, Client)
    [] Style(v) = "ClientRole" -> ClientsMean(v)
    [] OTHER                   -> {}

LocationMeans(v) ==
  Both(IF Realm \in DOMAIN v.of THEN RulesMean(v.of[Realm], Realm) ELSE {{}},
       IF Resource \in DOMAIN v.of THEN ResourceMeans(v.of[Resource]) ELSE {{}})

ChildMeans(v) == IF ChildStyle(v) = "RoleLocation" THEN LocationMeans(v) ELSE ResourceMeans(v)

Means(v) == IF IsRoleRules(v) \/ ~IsArray(v) THEN ChildMeans(v)
            ELSE UNION {ChildMeans(e) : e \in Elements(v)}

Holds(demand, user) == \A d \in demand : HasRole(d[2], d[1], user)

-----------------------------------------------------------------------------
(* Every variable has its type; rules by themselves are never an error. *)
RolesTypeOK ==
  /\ required \in Requirements \/ required.t \in {"public", "unset"}
  /\ login \in BOOLEAN /\ granted \subseteq Grant
  /\ decision \in {"none", "yes", "no", "error"}
  /\ decision = "error" => Style(required) # "RoleRules"

(* A user passes who has the roles of one of the combinations that the     *)
(* requirement stands for (the README's "Specifying Role Requirements").   *)
PassesByMeaning ==
  decision = "yes" /\ ~Open => login /\ \E demand \in Means(required) : Holds(demand, granted)

(* And a user is refused who has those of none. *)
RefusedByMeaning ==
  decision = "no" => ~login \/ \A demand \in Means(required) : ~Holds(demand, granted)

(* A decision is what the requirement means, for either answer. *)
DecidedByMeaning == PassesByMeaning /\ RefusedByMeaning

(* More roles never take access away, and never turn it into an error. *)
MoreIsEnough == [][HasRoles(required, granted) = "yes" => HasRoles(required', granted') = "yes"]_rolesVars

(* A non-empty requirement asks for some role: "Check for an empty role    *)
(* requirement".                                                           *)
NobodyWithoutRoles ==
  decision = "yes" /\ ~Open => granted # {}
=============================================================================
