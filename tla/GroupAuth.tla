------------------------------ MODULE GroupAuth ------------------------------
(***************************************************************************)
(* The group auth plugin: whether a user's Keycloak groups let a request   *)
(* of a route pass.  The route lists alternatives; the app and the         *)
(* organization that they ask about come from the configuration and from   *)
(* the URL.  A group is a record: its kind and what its path names.        *)
(* The search of InheritanceTree, for the permissions of apps, is over     *)
(* before a group is looked at.                                            *)
(***************************************************************************)
EXTENDS InheritanceTree, FiniteSets

CONSTANTS
  Groups,            \* the groups of Keycloak
  Routes,            \* [alternatives, url]: groupAuths, and the URL's params
  App,               \* app of the configuration
  OrgTree, OrgWild,  \* for organizations: what a permission stands for, and
                     \* the permissions with the entry "*"
  MaxGroups          \* bound: the groups of a user

Unset == "none"
AppAdmin == "app-admin"
OrgAdmin == "org-admin"
AnyPermission == "*"

(* requireAdmin of an alternative: true, false or one of the options. *)
RequireAdmin == {"no", "yes", "SYSTEM_ADMIN", "ALL_APP_ADMIN_ONLY", "ALL_ORG_ADMIN_ONLY",
                 "APP_ADMINS_ONLY", "ORG_ADMINS_ONLY"}

(* A permission of the organizations' tree stands for itself too, as the   *)
(* search leaves it.  Nothing is named as a param without a value.         *)
ASSUME GroupsAssumption ==
  /\ App # "undefined" /\ \A g \in Groups : g.org # "undefined"
  /\ \A g \in Groups : DOMAIN g = {"kind", "app", "org", "permission"}
  /\ \A r \in Routes : \A i \in DOMAIN r.alternatives : r.alternatives[i].requireAdmin \in RequireAdmin
  /\ \A p \in DOMAIN OrgTree : p \in OrgTree[p]

VARIABLES
  groups,   \* the user's groups, as the user info gives them
  route,    \* the route of the request and its URL
  verdict,  \* of isAuthorized
  data      \* kccUserGroupAuthData

requestVars == <<groups, route, verdict, data>>
groupVars == <<treeVars, requestVars>>

(* appInheritanceTree, as inheritanceTreePermissions has left it. *)
AppTree == treePermissions
AppWild == config.wild

Nobody == [appId |-> Unset, orgId |-> Unset]

GroupStart(t, r) ==
  /\ TreeStart(t)
  /\ groups = {} /\ route = r
  /\ verdict = "none" /\ data = Nobody

GroupInit == \E t \in Trees, r \in Routes : GroupStart(t, r)

-----------------------------------------------------------------------------
(* getUserGroups: what a set G of groups says of the user. *)
Has(G, kind) == \E g \in G : g.kind = kind
IsSystemAdmin(G) == Has(G, "system admin")
IsAllAppAdmin(G) == Has(G, "all app admin")
IsAllOrgAdmin(G) == Has(G, "all org admin")

(* The permissions of an app: app-wide ones have no organization. *)
AppPermissions(G, kind, app, org) ==
  {g.permission : g \in {x \in G : x.kind = kind /\ x.app = app /\ x.org = org}}
OrgPermissions(G, org) ==
  {g.permission : g \in {x \in G : x.kind = "organizations" /\ x.org = org}}
AppOrgs(G, app) ==
  {g.org : g \in {x \in G : x.kind = "applications" /\ x.app = app}} \ {Unset}

(* A standalone app with an organization: the handler of the group throws. *)
Invalid(G) == \E g \in G : g.kind = "standalone" /\ g.org # Unset

(* decorateUserStatus: an admin of any app, of either kind. *)
IsAppAdmin(G) ==
  IsAllAppAdmin(G) \/ \E g \in G : /\ g.kind \in {"applications", "standalone"}
                                   /\ g.org = Unset /\ g.permission = AppAdmin
IsOrgAdmin(G) ==
  IsAllOrgAdmin(G) \/ \E g \in G : g.kind = "organizations" /\ g.permission = OrgAdmin

-----------------------------------------------------------------------------
(* Mutant of HasPermission: an entry of the tree is not followed. *)
HasPermission_Flat(permissions, required, tree, wild) ==
  /\ permissions # {}
  /\ required = AnyPermission \/ \E p \in permissions : p \in wild \/ required = p

HasPermission(permissions, required, tree, wild) ==
  /\ permissions # {}
  /\ \/ required = AnyPermission
     \/ \E p \in permissions : p \in wild \/ required \in (IF p \in DOMAIN tree THEN tree[p] ELSE {p})

(* The constraints: the URL's param stands before the configured app, one  *)
(* without a value too.                                                    *)
AppConstraint(alt, url) ==
  CASE url.app = "absent"    -> IF alt.noImplicitApp THEN Unset ELSE App
    [] url.app = "undefined" -> Unset
    [] OTHER                 -> url.app
OrgConstraint(url) == IF url.org \in {"absent", "undefined"} THEN Unset ELSE url.org

HasOrgAccess(G, org) == IsAllOrgAdmin(G) \/ OrgPermissions(G, org) # {}

AppKind(alt) == IF alt.appIsStandalone THEN "standalone" ELSE "applications"

(* hasAppPermission: what it may report of a user it lets pass; nothing    *)
(* when it does not.  Which organization is found first, the order of the  *)
(* groups decides.                                                         *)
AppGrants(alt, app, org, G) ==
  LET appWide == AppPermissions(G, AppKind(alt), app, Unset)
      asked   == {[appId |-> app, orgId |-> org]}
  IN  IF IsAllAppAdmin(G) \/ AppAdmin \in appWide THEN asked
      ELSE IF alt.requireAdmin \in {"yes", "APP_ADMINS_ONLY"} THEN {}
      ELSE IF HasPermission(appWide, alt.permission, AppTree, AppWild) THEN asked
      ELSE IF alt.appIsStandalone THEN {}
      ELSE {[appId |-> app, orgId |-> o] :
              o \in {x \in AppOrgs(G, app) :
                       /\ org \in {Unset, x} /\ HasOrgAccess(G, x)
                       /\ HasPermission(AppPermissions(G, "applications", app, x),
                                        alt.permission, AppTree, AppWild)}}

(* The branch for a constrained organization. *)
OrgGrants(alt, org, G) ==
  LET permissions == OrgPermissions(G, org) IN
  IF \/ IsAllOrgAdmin(G) \/ OrgAdmin \in permissions
     \/ /\ alt.requireAdmin \notin {"yes", "ORG_ADMINS_ONLY"}
        /\ HasPermission(permissions, alt.permission, OrgTree, OrgWild)
  THEN {[appId |-> Unset, orgId |-> org]} ELSE {}

When(condition, report) == IF condition THEN {report} ELSE {}

(* isAuthorizedGroup *)
Grants(alt, url, G) ==
  LET app  == AppConstraint(alt, url)
      org  == OrgConstraint(url)
      asks == alt.requireAdmin
  IN  CASE IsSystemAdmin(G) -> {[appId |-> app, orgId |-> org]}
        [] asks = "SYSTEM_ADMIN" /\ ~IsSystemAdmin(G) -> {}
        [] OTHER ->
             IF app = Unset /\ org = Unset /\ asks \in {"yes", "no"} THEN {}
             ELSE IF app # Unset /\ asks # "ORG_ADMINS_ONLY" THEN AppGrants(alt, app, org, G)
             ELSE IF asks = "ALL_APP_ADMIN_ONLY"
                  THEN When(IsAllAppAdmin(G), [appId |-> app, orgId |-> org])
             ELSE IF asks = "APP_ADMINS_ONLY" THEN When(IsAppAdmin(G), [appId |-> Unset, orgId |-> org])
             ELSE IF org # Unset THEN OrgGrants(alt, org, G)
             ELSE IF asks = "ALL_ORG_ADMIN_ONLY" THEN When(IsAllOrgAdmin(G), Nobody)
             ELSE When(asks = "ORG_ADMINS_ONLY" /\ IsOrgAdmin(G), Nobody)

(* isAuthorized: the first alternative that lets the request pass. *)
Passing == {i \in DOMAIN route.alternatives : Grants(route.alternatives[i], route.url, groups) # {}}

IsAuthorized ==
  /\ verdict = "none"
  /\ \/ Invalid(groups) /\ verdict' = "error" /\ data' = Nobody
     \/ /\ ~Invalid(groups) /\ Passing = {}
        /\ verdict' = "refused" /\ data' = Nobody
     \/ /\ ~Invalid(groups)
        /\ \E i \in Passing : /\ \A j \in Passing : i <= j
                              /\ data' \in Grants(route.alternatives[i], route.url, groups)
        /\ verdict' = "authorized"
  /\ UNCHANGED <<groups, route>>

(* Keycloak puts the user into a group; the request is made again. *)
Join(g) ==
  /\ g \notin groups /\ Cardinality(groups) < MaxGroups
  /\ groups' = groups \cup {g}
  /\ verdict' = "none" /\ data' = Nobody
  /\ UNCHANGED route

(* The plugin's constructor searches the tree, or a request does whose     *)
(* route has one of its own, before it looks at a group.                   *)
Request == phase = "done" /\ (IsAuthorized \/ \E g \in Groups : Join(g)) /\ UNCHANGED treeVars

GroupNext == Request \/ (TreeNext /\ UNCHANGED requestVars)

GroupSpec == GroupInit /\ [][GroupNext]_groupVars

-----------------------------------------------------------------------------
(***************************************************************************)
(* The report of an alternative, matchingGroups: which groups it asks for. *)
(* It is what the plugin logs and what its tests compare.                  *)
(***************************************************************************)

(* A permission that lets a user pass where one is required. *)
Allows(p, required, tree, wild) ==
  \/ required \in {AnyPermission, p} \/ p \in wild
  \/ p \in DOMAIN tree /\ required \in tree[p]

Reports(alt, url) ==
  ~ \/ alt.requireAdmin = "SYSTEM_ADMIN"
    \/ /\ AppConstraint(alt, url) = Unset /\ OrgConstraint(url) = Unset
       /\ alt.requireAdmin \in {"yes", "no"}

InAppBranch(alt, url) == AppConstraint(alt, url) # Unset /\ alt.requireAdmin # "ORG_ADMINS_ONLY"

(* appRequirements with no organization, and those with one. *)
AppWide(alt, url) ==
  {g \in Groups :
     \/ g.kind = "all app admin" /\ (InAppBranch(alt, url) \/ alt.requireAdmin \in {"ALL_APP_ADMIN_ONLY", "APP_ADMINS_ONLY"})
     \/ /\ InAppBranch(alt, url) /\ g.kind = AppKind(alt) /\ g.org = Unset
        /\ g.app = AppConstraint(alt, url)
        /\ \/ g.permission = AppAdmin
           \/ /\ alt.requireAdmin \notin {"yes", "APP_ADMINS_ONLY"}
              /\ Allows(g.permission, alt.permission, AppTree, AppWild)
     \/ /\ ~InAppBranch(alt, url) /\ alt.requireAdmin = "APP_ADMINS_ONLY"
        /\ g.kind = AppKind(alt) /\ g.org = Unset /\ g.permission = AppAdmin}

AppInOrg(alt, url) ==
  {g \in Groups :
     /\ InAppBranch(alt, url) /\ ~alt.appIsStandalone
     /\ alt.requireAdmin \notin {"yes", "APP_ADMINS_ONLY"}
     /\ g.kind = "applications" /\ g.app = AppConstraint(alt, url)
     /\ g.org # Unset /\ OrgConstraint(url) \in {Unset, g.org}
     /\ Allows(g.permission, alt.permission, AppTree, AppWild)}

(* orgRequirements outside hasAppPermission. *)
OrgOnly(alt, url) ==
  {g \in Groups :
     /\ ~InAppBranch(alt, url)
     /\ alt.requireAdmin \notin {"ALL_APP_ADMIN_ONLY", "APP_ADMINS_ONLY"}
     /\ \/ g.kind = "all org admin"
        \/ /\ g.kind = "organizations" /\ OrgConstraint(url) \in {Unset, g.org}
           /\ \/ g.permission = OrgAdmin /\ (OrgConstraint(url) # Unset \/ alt.requireAdmin = "ORG_ADMINS_ONLY")
              \/ /\ OrgConstraint(url) # Unset
                 /\ alt.requireAdmin \notin {"yes", "ORG_ADMINS_ONLY"}
                 /\ Allows(g.permission, alt.permission, OrgTree, OrgWild)}

(* A set of groups that has what the report asks for: one group, or one of *)
(* an app's organization with one of that organization itself.             *)
Satisfies(alt, url, G) ==
  /\ Reports(alt, url)
  /\ \/ G \cap (AppWide(alt, url) \cup OrgOnly(alt, url)) # {}
     \/ \E g \in G \cap AppInOrg(alt, url) :
          \E h \in G : h.kind = "all org admin" \/ (h.kind = "organizations" /\ h.org = g.org)

-----------------------------------------------------------------------------
(* Every variable has its type. *)
GroupTypeOK ==
  /\ groups \subseteq Groups /\ route \in Routes
  /\ verdict \in {"none", "authorized", "refused", "error"}
  /\ data.appId # "undefined" /\ data.orgId # "undefined"

(* A request passes only for a user who has the groups that one of the     *)
(* alternatives reports, or is the system admin; "any app admin" of a      *)
(* route without an app is left to AnyAdminOfItsKind.                      *)
OnlyReported ==
  verdict = "authorized" => \E i \in DOMAIN route.alternatives :
    LET alt == route.alternatives[i] IN
    \/ IsSystemAdmin(groups) \/ Satisfies(alt, route.url, groups)
    \/ alt.requireAdmin = "APP_ADMINS_ONLY" /\ AppConstraint(alt, route.url) = Unset

(* A user who has the groups that an alternative reports is not refused    *)
(* (the tests of the plugin compare and then try every pair of them).      *)
ReportedSuffice ==
  verdict = "refused" => \A i \in DOMAIN route.alternatives :
    ~Satisfies(route.alternatives[i], route.url, groups)

(* A report and the decision agree: neither more nor fewer users pass.     *)
ReportIsExact == OnlyReported /\ ReportedSuffice

(* What is reported to the route is what was checked: the organization and *)
(* the app of the URL when it names one, and an organization that was      *)
(* found by itself is one that the user belongs to.                        *)
DataIsValidated ==
  verdict = "authorized" =>
    /\ OrgConstraint(route.url) # Unset => data.orgId \in {Unset, OrgConstraint(route.url)}
    /\ data.appId # Unset => \E i \in DOMAIN route.alternatives :
                              data.appId = AppConstraint(route.alternatives[i], route.url)
    /\ data.orgId \notin {Unset, OrgConstraint(route.url)} => HasOrgAccess(groups, data.orgId)

(* One more group never takes a user's access away, unless it is a         *)
(* standalone app's group with an organization.                            *)
Monotone ==
  Passing # {} => \A g \in Groups : ~Invalid({g}) =>
    \E i \in DOMAIN route.alternatives :
      Grants(route.alternatives[i], route.url, groups \cup {g}) # {}

(* A route that requires an admin lets only admins and holders of a        *)
(* wildcard permission pass: "Check if we require an admin" of             *)
(* hasAppPermission.                                                       *)
AdminRequired ==
  verdict = "authorized" /\ (\A i \in DOMAIN route.alternatives : route.alternatives[i].requireAdmin # "no")
    => \/ IsSystemAdmin(groups) \/ IsAppAdmin(groups) \/ IsOrgAdmin(groups)
       \/ \E g \in groups : g.permission \in AppWild \cup OrgWild

(* Without noImplicitApp the app constraint has a value: "Check if we are  *)
(* not ignoring the app constraint, but we do not have a value".           *)
AppIsConstrained ==
  verdict = "authorized" => \A i \in DOMAIN route.alternatives :
    LET alt == route.alternatives[i] IN
    ~alt.noImplicitApp /\ alt.requireAdmin = "no"
      => \E g \in groups : g.kind \in {"system admin", "all app admin", "applications", "standalone"}

(* A standalone route for app admins asks for an admin of a standalone     *)
(* app: "No app param - Any standalone admin can access" of the tests.     *)
AnyAdminOfItsKind ==
  verdict = "authorized" => \E i \in DOMAIN route.alternatives :
    LET alt == route.alternatives[i] IN
    alt.requireAdmin = "APP_ADMINS_ONLY" /\ alt.appIsStandalone
      => IsSystemAdmin(groups) \/ Satisfies(alt, route.url, groups)
=============================================================================
