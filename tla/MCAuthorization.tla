-------------------------- MODULE MCAuthorization --------------------------
(***************************************************************************)
(* Who may pass: the manager of the auth plugins, the role rules of the    *)
(* connector's own handler, and the group plugin with its tree.  They      *)
(* share no state, so in each behaviour one of them moves, or the search   *)
(* of the group plugin alone, and the others rest where they start.        *)
(***************************************************************************)
EXTENDS AuthPlugins, RoleRules, GroupAuth, TLC

(* A plugin of each kind. *)
CONSTANTS some, plain, noBase, all
OneOfEach == (some :> "undefined") @@ (plain :> "none") @@ (noBase :> "disable base") @@ (all :> "all")

-----------------------------------------------------------------------------
(* Two roles, one of them in two spellings; the connector's client and     *)
(* another; each style, with empty and with wrong values, and arrays of    *)
(* two of them.                                                            *)
Spelling == [a |-> "a", A |-> "a", b |-> "b"]

R(role) == [t |-> "role", of |-> role]
Arr(seq) == [t |-> "array", of |-> seq]
Obj(f) == [t |-> "object", of |-> f]

SomeRules ==
  {Arr(<<>>), Arr(<<R("a")>>), Arr(<<R("a"), R("b")>>), Arr(<<Arr(<<R("A"), R("b")>>)>>),
   Arr(<<R("b"), Arr(<<R("a"), R("A")>>)>>), Arr(<<Arr(<<>>), R("b")>>)}

FewRules == {Arr(<<R("a")>>), Arr(<<Arr(<<R("A"), R("b")>>)>>)}

ClientRoles ==
  {Obj("other" :> x) : x \in SomeRules} \cup {Obj("own" :> x @@ "other" :> y) : x, y \in FewRules}

Places ==
  {Obj(Realm :> x) : x \in SomeRules} \cup {Obj(Resource :> x) : x \in SomeRules}
  \cup {Obj(Realm :> x @@ Resource :> y) : x \in FewRules, y \in FewRules \cup ClientRoles}

Wrong ==
  {Obj(<<>>), R("a"), Arr(<<R("a"), Obj("other" :> Arr(<<R("b")>>))>>),
   Obj(Realm :> Arr(<<R("a")>>) @@ "other" :> Arr(<<R("b")>>)),
   Obj(Resource :> Arr(<<Obj("other" :> Arr(<<R("b")>>))>>)),
   Arr(<<Arr(<<Arr(<<R("a")>>)>>)>>)}

Pairs ==
  {Arr(<<x, y>>) : x \in FewRules \cup {Obj("other" :> z) : z \in FewRules} \cup Wrong,
                   y \in FewRules \cup {Obj(Realm :> z) : z \in FewRules} \cup Wrong}

SomeRequirements == SomeRules \cup ClientRoles \cup Places \cup Wrong \cup Pairs

-----------------------------------------------------------------------------
(* All trees of three permissions: no key, a wildcard, or children. *)
Lists == {<<>>, <<Star>>} \cup {<<p>> : p \in Permissions}
         \cup {s \in Permissions \X Permissions : s[1] # s[2]}
AllTrees ==
  UNION {{[wild |-> w, nodes |-> n] : n \in [k -> Lists]} :
           <<w, k>> \in {x \in (SUBSET Permissions) \X (SUBSET Permissions) : x[1] \cap x[2] = {}}}

(* A supervisor stands for a user, and an admin for everyone. *)
Tree == [wild |-> {"admin"}, nodes |-> [supervisor |-> <<"user">>]]
NoTree == [p \in {} |-> {}]

-----------------------------------------------------------------------------
(* The app of the configuration and another one, two organizations. *)
Grp(kind, app, org, permission) == [kind |-> kind, app |-> app, org |-> org, permission |-> permission]

SomeGroups ==
  {Grp(k, Unset, Unset, Unset) : k \in {"system admin", "all app admin", "all org admin"}}
  \cup {Grp("applications", "home", Unset, p) : p \in {"app-admin", "user", "admin"}}
  \cup {Grp("applications", "other", Unset, p) : p \in {"app-admin", "user"}}
  \cup {Grp("applications", "home", "o1", p) : p \in {"user", "supervisor"}}
  \cup {Grp("applications", "home", "o2", "user")}
  \cup {Grp("organizations", "none", "o1", p) : p \in {"user", "org-admin", "guest"}}
  \cup {Grp("organizations", "none", "o2", p) : p \in {"org-admin", "admin"}}
  \cup {Grp("standalone", "home", Unset, p) : p \in {"app-admin", "user"}}
  \cup {Grp("standalone", "home", "o1", "user")}

Alternatives ==
  [permission : {"user", "admin", "*"}, requireAdmin : RequireAdmin,
   appIsStandalone : BOOLEAN, noImplicitApp : BOOLEAN]

Urls == [app : {"absent", "undefined", "home", "other"}, org : {"absent", "o1"}]

Fallback == [permission |-> "user", requireAdmin |-> "ORG_ADMINS_ONLY",
             appIsStandalone |-> FALSE, noImplicitApp |-> TRUE]

(* Each alternative alone, and some of them with a second one. *)
SomeRoutes ==
  [alternatives : {<<a>> : a \in Alternatives}, url : Urls]
  \cup [alternatives : {<<a, Fallback>> : a \in {x \in Alternatives : x.permission = "user" /\ x.requireAdmin = "no"}},
        url : Urls]

-----------------------------------------------------------------------------
VARIABLE part  \* what moves: "plugins", "roles", "search" or "groups"

allVars == <<pluginsVars, rolesVars, groupVars, part>>

Public == [t |-> "public", of |-> <<>>]
OneRoute == [alternatives |-> <<Fallback>>, url |-> [app |-> "home", org |-> "o1"]]

Init ==
  /\ PluginsInit
  /\ \/ part = "plugins" /\ RolesStart(Public) /\ GroupStart(Tree, OneRoute)
     \/ /\ part = "roles" /\ GroupStart(Tree, OneRoute)
        /\ \E r \in Requirements \cup Unprotected : RolesStart(r)
     \/ /\ part = "search" /\ RolesStart(Public)
        /\ \E t \in Trees : GroupStart(t, OneRoute)
     \/ /\ part = "groups" /\ RolesStart(Public)
        /\ \E r \in Routes : GroupStart(Tree, r)

Next ==
  /\ UNCHANGED part
  /\ \/ part = "plugins" /\ PluginsNext /\ UNCHANGED <<rolesVars, groupVars>>
     \/ part = "roles" /\ RolesNext /\ UNCHANGED <<pluginsVars, groupVars>>
     \/ part = "search" /\ TreeNext /\ UNCHANGED <<pluginsVars, rolesVars, requestVars>>
     \/ part = "groups" /\ GroupNext /\ UNCHANGED <<pluginsVars, rolesVars>>

Spec == Init /\ [][Next]_allVars
=============================================================================
