----------------------------- MODULE AuthPlugins -----------------------------
(***************************************************************************)
(* The auth plugin manager: plugins that register, one after another or    *)
(* while requests are decided, and the decision of a request, which asks   *)
(* each plugin in turn and then the connector's own handler, unless a      *)
(* plugin stands for it.  A decision loops over the live list of plugins   *)
(* and awaits each answer.                                                 *)
(***************************************************************************)
EXTENDS Naturals, Sequences

CONSTANTS Plugins, Requests,
          Override  \* what a plugin overrides

Overrides == {"undefined", "none", "disable base", "all"}

ASSUME PluginsAssumption == Override \in [Plugins -> Overrides]

VARIABLES
  plugins,      \* the plugins in the order of their registration
  maxOverride,  \* maxOverrideConfig
  registration, \* how registerAuthPlugin went for each plugin
  request,      \* where the decision of each request is
  said,         \* isAuthorizedResponses
  seen,         \* history: how many plugins there were at its start
  base          \* history: requests that asked the connector's handler

pluginsVars == <<plugins, maxOverride, registration, request, said, seen, base>>
Decisions == <<request, said, seen, base>>

PluginsInit ==
  /\ plugins = <<>> /\ maxOverride = "none"
  /\ registration = [p \in Plugins |-> "no"]
  /\ request = [r \in Requests |-> "new"] /\ said = [r \in Requests |-> <<>>]
  /\ seen = [r \in Requests |-> 0] /\ base = {}

IsRegistered(p) == \E i \in DOMAIN plugins : plugins[i] = p

-----------------------------------------------------------------------------
(* registerAuthPlugin, up to its await: three checks, then the override. *)
MayRegister(p) ==
  /\ ~IsRegistered(p)
  /\ maxOverride # "all"
  /\ Override[p] = "all" => plugins = <<>>

NewMaxOverride(p) ==
  CASE Override[p] = "undefined"                              -> maxOverride
    [] Override[p] # "undefined" /\ maxOverride = "none"      -> Override[p]
    [] OTHER -> IF Override[p] = "all" THEN "all" ELSE maxOverride

RegisterAuthPlugin(p) ==
  /\ MayRegister(p)
  /\ maxOverride' = NewMaxOverride(p)
  /\ plugins' = Append(plugins, p)
  /\ registration' = [registration EXCEPT ![p] = "under way"]
  /\ UNCHANGED Decisions

RegisterThrows(p) ==
  /\ ~MayRegister(p) /\ registration[p] \in {"no", "failed"}
  /\ registration' = [registration EXCEPT ![p] = IF IsRegistered(p) THEN "already" ELSE "refused"]
  /\ UNCHANGED <<plugins, maxOverride, Decisions>>

(* The plugin's onRegister: the plugin stays in the list when it throws. *)
OnRegister(p) ==
  /\ registration[p] = "under way"
  /\ \E to \in {"registered", "failed"} : registration' = [registration EXCEPT ![p] = to]
  /\ UNCHANGED <<plugins, maxOverride, Decisions>>

(***************************************************************************)
(* isUserAuthorized, with responses as the answers so far.                 *)
(***************************************************************************)
Proceed(responses) ==
  IF Len(responses) < Len(plugins) THEN "plugin"
  ELSE IF maxOverride = "none" THEN "base" ELSE "decided"

(* Mutant of Start: the plugins are left out. *)
Start_NoPlugins(r) ==
  /\ request[r] = "new"
  /\ seen' = [seen EXCEPT ![r] = Len(plugins)]
  /\ request' = [request EXCEPT ![r] = IF maxOverride = "none" THEN "base" ELSE "decided"]
  /\ UNCHANGED <<plugins, maxOverride, registration, said, base>>

Start(r) ==
  /\ request[r] = "new"
  /\ seen' = [seen EXCEPT ![r] = Len(plugins)]
  /\ request' = [request EXCEPT ![r] = Proceed(<<>>)]
  /\ UNCHANGED <<plugins, maxOverride, registration, said, base>>

PluginAnswers(r) ==
  /\ request[r] = "plugin"
  /\ \E answer \in BOOLEAN :
       LET responses == Append(said[r], answer) IN
       /\ said' = [said EXCEPT ![r] = responses]
       /\ request' = [request EXCEPT ![r] = Proceed(responses)]
  /\ UNCHANGED <<plugins, maxOverride, registration, seen, base>>

BaseAnswers(r) ==
  /\ request[r] = "base"
  /\ \E answer \in BOOLEAN : said' = [said EXCEPT ![r] = Append(@, answer)]
  /\ request' = [request EXCEPT ![r] = "decided"]
  /\ base' = base \cup {r}
  /\ UNCHANGED <<plugins, maxOverride, registration, seen>>

Throws(r) ==
  /\ request[r] \in {"plugin", "base"}
  /\ request' = [request EXCEPT ![r] = "error"]
  /\ UNCHANGED <<plugins, maxOverride, registration, said, seen, base>>

PluginsNext == \/ \E p \in Plugins : RegisterAuthPlugin(p) \/ RegisterThrows(p) \/ OnRegister(p)
        \/ \E r \in Requests : Start(r) \/ PluginAnswers(r) \/ BaseAnswers(r) \/ Throws(r)

PluginsSpec == PluginsInit /\ [][PluginsNext]_pluginsVars

(* The answer of isUserAuthorized. *)
Authorized(r) == request[r] = "decided" /\ \A i \in DOMAIN said[r] : said[r][i]

-----------------------------------------------------------------------------
(* Every variable has its type. *)
PluginsTypeOK ==
  /\ plugins \in Seq(Plugins)
  /\ maxOverride \in {"none", "disable base", "all"}
  /\ registration \in [Plugins -> {"no", "under way", "registered", "failed", "already", "refused"}]
  /\ request \in [Requests -> {"new", "plugin", "base", "decided", "error"}]
  /\ said \in [Requests -> Seq(BOOLEAN)]
  /\ seen \in [Requests -> Nat]
  /\ base \subseteq Requests

(* The override in force is the strongest of the plugins', in whatever     *)
(* order they registered: the base handler runs unless a plugin disables   *)
(* it, and a plugin that overrides all is alone (registerAuthPlugin).      *)
OverrideIsStrongest ==
  /\ maxOverride = "none" <=> \A i \in DOMAIN plugins : Override[plugins[i]] \in {"undefined", "none"}
  /\ (\E i \in DOMAIN plugins : Override[plugins[i]] = "all") => Len(plugins) = 1

(* A request is authorized only when every plugin that was registered at   *)
(* its start has agreed, and the base handler too unless a plugin stands   *)
(* for it, even when plugins register meanwhile (isUserAuthorized).        *)
AllAgreed ==
  \A r \in Requests : Authorized(r) =>
    /\ \A i \in 1..seen[r] : i \in DOMAIN said[r] /\ said[r][i]
    /\ \/ r \in base /\ Len(said[r]) > seen[r]
       \/ \E i \in DOMAIN plugins : Override[plugins[i]] \in {"disable base", "all"}

(* A plugin is refused as registered only when it did register: "Check if  *)
(* this plugin is already registered" of registerAuthPlugin.               *)
AlreadyMeansRegistered ==
  [][\A p \in Plugins : registration'[p] = "already" => registration[p] # "failed"]_pluginsVars
=============================================================================
