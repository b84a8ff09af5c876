# keycloak-connector in TLA+

keycloak-connector puts a Keycloak login in front of node servers (express or
fastify). Many server processes (*instances*) may run side by side; they share
signing keys and results of Keycloak requests through a redis cluster. A client
library runs in the browser's tabs, with React bindings on top. This directory
models the parts in which the order of things or the combination of rules matters,
checks the models with TLC, and proves the properties of eight of them with TLAPS.

Paths below are relative to `src/packages`; `server` is `backend/server/src`.

## 1. The system

| component | state | operations | interacts with |
|---|---|---|---|
| local cache provider (`server/cache/cache-provider.ts`) | LRU of results; LRU of instance locks, each with a promise | `get`, `invalidateCache` | the callback that asks Keycloak |
| clustered cache provider (`server/cache/cluster-cache-provider.ts`) | that, and the pending refreshes | `handleCacheMiss`, `invalidateCache`, handlers of updates and invalidations | redis: lock, store, channels |
| redis cluster provider (`backend/cluster-redis/src`) | two connections, listeners, credentials | `lock`, `unlock`, `store`, `get`, `publish`, `subscribe`, `connectOrThrow`, credential timer | redis |
| publish and subscribe (`server/cluster/abstract-cluster-provider.ts`) | map of listeners | `publish`, `subscribe`, `unsubscribe` | redis |
| cluster key provider (`server/crypto/cluster-key-provider.ts`) | current and previous key with their times; timers; pending announcements | `generateKeys`, `generateClusterKeys`, `pubSubMessageHandler`, `handleNewJwks` | redis; the connector's callbacks |
| cluster jobs (`server/cluster/cluster-job.ts`) | two timestamps | `start`, `heartbeat`, `finish`, `fatalError` | publish |
| OIDC configuration (`server/keycloak-connector.ts`) | `oidcConfig`, the running and the pending update | `init`, `updateOpenIdConfig`, `updateOidcServer` | key provider, Keycloak, caches |
| standalone key provider | one key | `getActiveKeys` | |
| cache adapters (`server/cache-adapters`) | | token refresh, user info | a cache, Keycloak |
| login and routes (`server/keycloak-connector.ts`) | cookies in the browser, signed login state | login, callback, logout, back-channel logout, user status | key provider, caches, Keycloak |
| user data, token validation (`server/keycloak-connector.ts`) | the browser's tokens | `getUserData`, `validateJwtOrThrow` | token cache, user info cache |
| authorization (`server/helpers/role-helper.ts`) | | `isUserAuthorized`, `userHasRoles` | the route's configuration |
| auth plugin manager | list of plugins, the override in force | `registerAuthPlugin`, `isUserAuthorized` | plugins |
| group auth plugin (`backend/group-auth-plugin/src`) | inheritance trees | `isAuthorized`, the tree's search | the user info |
| frontend client (`frontend/client/src`) | flags, iframes, timers, local storage | `authCheck`, silent login, login, logout, `destroy` | user status route, iframes, other tabs |
| react bindings (`frontend/react/src`) | the context behind the dialogs | `reducer`, mounts, the lengthy-login timer | events of the client |
| server adapters, cookies, static pages, docs | | translation and layout | |

What is hard here, and makes each component correct:

* **Caches.** A refresh token may be used once, so the source must be asked once
  for a key however many gets come, on one instance and in the cluster; everyone who
  waits must get the answer or give up in time; a callback may hang, a lock may run
  out under its holder, the holder may die, a broadcast may be lost or come late; an
  invalidation must not be undone by what was under way.
* **Keys.** A node must never sign with a key another node does not know. Rotations
  run under a redis lock that names a process and may run out; announcements may be
  lost; replies and messages come on two connections and overtake each other; a
  command may be rejected after redis did it.
* **Redis.** Credentials change while a provider of them hangs; a connection goes
  away with or without an error; subscriptions of several gets cross.
* **OIDC configuration.** It embeds the signing key. Updates share each other, timers
  fire before the object they call exists, and an update that began before a key
  change must not count as one after it.
* **User data.** Requests of one browser refresh the same token side by side; the new
  tokens exist once, in one response's cookies; responses overtake each other.
* **Login.** Several tabs share the cookie jar, and flows are signed with keys that rotate.
* **Frontend.** One flag keeps a second check out; aborts, iframes, timers, messages and
  storage events of other tabs each may or may not reset it.
* **Authorization.** Rules nest in styles that are found from their shape; plugins
  register while requests are decided; permissions inherit through trees with cycles.

Every hazard is listed at its line in `PROJECT.json`, with the properties aimed at it.

## 2. Modules

| module | models | built from |
|---|---|---|
| `CachePromise` | abstract: what a cache promises a caller of `get` | |
| `CacheProvider` | `cache-provider.ts` | refines `CachePromise` |
| `ClusterCacheProvider` | `cluster-cache-provider.ts` over the redis provider | extends `CacheProvider`, instantiates `RedisLock`, refines `CachePromise` |
| `RedisLock` | the lock: `SET NX EX`, forced `SET EX`, the two lua scripts | |
| `RedisConnection` | the two connections and the credentials of `redis-cluster-provider.ts` | |
| `RedisPubSub` | listeners and subscriptions, `abstract-cluster-provider.ts` with `redis-cluster-provider.ts` | extends `RedisConnection` |
| `ConnectorKeys` | the record of shared keys and the rules about its times | |
| `ClusterKeys` | `cluster-key-provider.ts` and the reports of `cluster-job.ts` | instantiates `RedisLock`, `ConnectorKeys` |
| `OidcConfig` | `init`, `updateOpenIdConfig`, `registerCallbacks`, the timers, the key of the token cache | instantiates `ConnectorKeys` |
| `UserData` | `getUserData` and the two cache adapters | |
| `LoginFlow` | login, callback, silent login, logout and their cookies | |
| `AuthPlugins` | `auth-plugin-manager.ts` | |
| `RoleRules` | `role-helper.ts` | |
| `InheritanceTree` | the search over the configured permissions | |
| `GroupAuth` | `group-auth-plugin.ts` | extends `InheritanceTree`, whose result it reads |
| `FrontendClient` | `keycloak-connector-client.ts` and its storage | |
| `ReactOverlay` | `reducer.ts`, `KeycloakConnectorProvider.tsx`, the dialogs' buttons | |
| `Caches_proofs` | theorems about both cache providers | extends `ClusterCacheProvider` |
| `Access_proofs` | theorems about login flows, plugins, roles, the search and group verdicts | extends `LoginFlow` and the four modules of rules |
| `ClusterKeys_proofs`, `OidcConfig_proofs`, `UserData_proofs`, `RedisPubSub_proofs`, `FrontendClient_proofs`, `ReactOverlay_proofs` | theorems | each extends the module it is about |
| `MC*` | constants and scenarios for TLC | extend what they check; `MCAuthorization` extends four modules of rules |

**State and actions.** An action is what the code runs between two awaits (or between two
events of the browser), with everything that runs in it.

*Caches.* `CacheProvider` has one request per call of `get`. `pc` is where
the call stands between two awaits: `"waiting"` is `waitForResult`, `"calling"` is the
wrapped callback. `lockId`, `resolved` and `cached` are the instance lock, the resolved
promises and the result LRU. `GetHit`, `GetJoin` and `GetMiss` are the three ways through
the first part of `get`, `FinishMiss` is everything after `handleCacheMiss`, with both
outcomes of `stillHadLock`. `ClusterCacheProvider` replaces the callback phase by the
phases of `handleCacheMiss`, one for each await, with the last reply and the rest of `get`
in one step. `listeners` and `wrapped` keep the behaviour of the map of listeners, which is
keyed by the handler: when two gets of an instance listen together the listener of one of
them stays for good.

*Redis.* `RedisConnection` keeps two clients: `conn` is what ioredis does, `connected` and
`resolved` what `setIsConnected` knows of it, `had` is `subscriberHadToReconnect`. `call` is
`updatingCredentials`, `late` the answers of calls that were given up, and `chain` the place
of `init` and then of `queueCredentialsUpdate`. Credentials are their generation, of which
the server takes only `valid`. `RedisPubSub` keeps the two maps of listeners, the commands
and replies that go over the subscriber's connection of `RedisConnection`, and what ioredis
subscribes to again after an outage. Gets of one key may be active together: the lock of the
instance lasts 10 s and a miss up to 120 s.

*Keys.* `ClusterKeys` has one process for each call of `generateClusterKeys`: a *job* (a
request that came on the channel) or the start of a node. `step` is its position; `queue`
holds messages, `reads` the replies of `getKeysFromCluster` that are assigned to
`clusterConnectorKeys`, which messages may overtake; `timers` the pending, start and final
timers. `heard` is the last report of a job. With the fault `"reject"` a command of a call is
rejected, whether redis did it or not (`LockRejected`, `CallRejected`, `UnlockRejected`), and
`UnlockAndThrow` is the call's `finally`. `OidcConfig` follows one instance: `update` and
`pending` are `updateOidcConfig` and `updateOidcConfigPending` with the requests that await
them, `config` is the key in `oidcConfig`, `caches` the key in the configuration that `init`
gave the token cache, `mark` is `initPendingOidcServerUpdate`, `job` what follows the start
timer of keys made here.

*Users.* `UserData` numbers the token sets as Keycloak issues them. `jar` is the set in the
browser, `req[r]` a request with its place in `getUserData`, its `loop`, the tokens it found and
the cookies its response will set; `tcache`/`tlock` and `info`/`ilock` are the two caches
with the three ways of `CacheProvider` for one key. `Deliver` is the response at the browser,
in any order. `LoginFlow` keeps each flow from its post (`Post`) over Keycloak to the callback
and the response, with `jar` the cookies named by the flow's nonce. A response is computed in
one step and arrives, or is lost, in another. Between `NewKey` and `KeyStarts` a flow is signed
with the previous key (`SigningKey`), which is not among those that verify (`PublicKeys`): a
callback looks only at the newest one, since what is published of the previous is no JWK.

*Authorization.* `AuthPlugins` keeps `plugins` and `maxOverride` and decides requests one answer
at a time over the live list. `RoleRules` has a requirement as a tree of values whose style is
found from its shape, as `determineRoleConfigStyle` does, and grants a user roles one by
one. `InheritanceTree` has the recursion as a stack of frames, `visited` for each run and
`treePermissions` for all. `GroupAuth` is one decision over groups that a user joins one by
one, with the constraints from the configuration and the URL.

*Browser.* `FrontendClient` has a record for each tab whose fields are the client's; a check and
its iframe share a slot. A handler runs to its end and what an abort releases goes on before
the next; `StoreUserStatus` is `storeUserStatus`, and `Stores` what the other tabs hear of it.
`ReactOverlay` has the reducer as a function of the context and the event, a client for each
mount (strict mode mounts twice), and the events the client dispatches in the same step;
`deferred` is the application's `deferredStart`, chosen at the start. A destroyed client keeps
its listeners and its timer: it hears the other tabs, its timer's checks run to their end
(`ExpirationFires`), and it stores in the window of the live client, which is not told (`Store`).

**History variables** (`tainted`, `fence`, `robbed`, `invSrc`, `lost`, `between`, `raced`,
`overrun`, `asked`, `updated`, `by` of the lock, `refused`, `rejected`, `dropped`, `lonely`,
`missed`, `everUp`, `highest`, `closed`, `ghost`, `seen`, `base`, and the fields marked so) are read by
properties only and by no guard, but for the bound on faults and repeated calls.

## 3. Runs

| run | question | bounds |
|---|---|---|
| `cache_provider` | local single flight, order of stores, invalidation, the promise, return | 3 gets, 1 instance, clock 0..3, wait 1, callback 2, ttl 1, 2 versions of the source |
| `cluster_cache` | who runs the callback beside whom, who ends a lock, what is missed, what may come back | either 2 gets on one instance and 1 on another, clock 0..1, at most one of them begun late, no fault and no invalidation; or a get on each instance, 1 invalidation, 1 lost message or rejected command, within one moment |
| `cluster_cache_faults` | the promise and the return under faults | 2 instances, 2 gets, clock 0..2, 1 rejected command or lost message, crashes |
| `cluster_keys` | settled nodes agree, keys chain, nobody signs with an unknown key, reports | 2 nodes, clock 2..5, 3 keys, 2 attempts; starts, or one rotation, with any fault; two rotations while both nodes are up, until one crashes; or one rotation beside a start |
| `oidc_config` | updates share, timers fire early, discoveries fail | clock 2..9, 3 keys, 1 failure |
| `user_data` | tokens reach the browser, sessions last, logouts end them | 2 requests with 1 fault, or 3 without; clock 0..4; tokens live 2 and 4 |
| `login_flow` | one tab's flow beside another's | 2 flows, 2 pages, 2 keys, 1 fault |
| `frontend` | the flag that keeps checks out, what tabs show | either 1 tab with 2 checks, 1 fault, 2 moves; or 2 tabs with 1 check each and 1 move |
| `react_overlay` | the dialogs against the client | 2 mounts, 2 token sets, 2 moves |
| `redis` | outages and credentials, listening gets | 3 generations of credentials, 2 faults, 2 gets of one key and 1 of another; or 1 fault, 3 gets of one key and 1 of another |
| `authorization` | who passes, and on what grounds | 4 plugins; requirements of every style over 3 roles; all trees of 3 permissions; groups of every kind, at most 2 a user |
| `oidc_news` | a comment of the code against what it does (section 6) | as `oidc_config` |

**Scenarios.** Where the product of all bounds is too large, the run's `CONSTRAINT`
(`Scenarios` of the `MC` module) explores several parts of one specification: each
keeps one of the bounds at 0 or 1 while the others are at their full size. A state outside
of all is checked, and not gone on from. `Init` and `Next` are those of the module.
`MCAuthorization` puts modules side by side that share no state: `part` says which of them
moves in a behaviour.

**Why the bounds are enough.**
*Caches:* gets of other keys touch no state of the key. Three gets are a holder that
overruns, the one that takes over, and a waiter of either; two instances are a
sender and a receiver. The order of the limits is what the code's values give: the wait
(10 s) ends before the lock (60 s), and that before the callback's timer (120 s). A limit
of 0 means that it may end at any moment within the unit in which it began or
later. The last instant of the clock stands for all later ones for the callback's
timer. *Keys:* a unit is a minute, the life of the lock; the start delay (2) and the
expiry of the previous key (3) keep their order to it and to each other. A call may last
any number of units; messages, replies and due timers take less than one, which is what
the start delay is for. A timer of 20 days is one beyond the clock. Two nodes are the one
that rotates and one that learns of it. *OIDC:* the refresh falls between two rotations,
and the clock holds two rotations and what follows them. *User data:* the holdover
(1) is shorter than the life of an access token (2), which is shorter than that of a refresh
token (4); two requests are the one that refreshes and one that shares or misses its result,
and a third is needed for a response that overtakes two. *Login:* a flow and another that
may disturb it; two keys are the one that signed and its successor, before and after
its start. *Frontend:* a second check is what the flag keeps out; a second tab is the only one
that another one can hear. *Redis:* three generations let an answer be older than the valid
one by more than one; three gets of one key are one whose subscription fails, one that
subscribes after it, and one that waits while either ends; a get of another key replaces their
wrapper.
*Authorization:* three permissions hold every cycle and diamond through an entry; two groups
are a group and one that adds to it or spoils it.

**Deadlock** is not checked: with bounded clocks, requests and moves each system comes to
rest, and a decision ends.

**Fairness.** `CacheProvider`: weak fairness of the clock and of due timers, since node's
event loop runs them; none of the callback, which may hang. `ClusterCacheProvider`: the
same, and each get's own next command, since redis answers or rejects; none of the
delivery of messages, of invalidations or faults. `OidcConfig`: the clock and its timers,
the answer of Keycloak to a discovery (its timeout is 15 s), the end of the start-up and
the introspection; no fairness of failures or key changes. `RedisConnection`: ioredis tries
again without end, the credential provider's answer when it does not hang, and the timers
that give it up or ask again; no fairness of outages, rotations or gets. The other
specifications state safety only and no fairness.

**What the properties say.**
*Caches.* `OneFlight`, `SingleFlight`: of two callbacks that run at once one is excused by a
reason the protocol knows: it outlived its wait limit or lock, it gave up on the lock, or its
lock was taken away. `LeaseHeld`, `LeaseBrokenOnlyBy`: while the time the code computes
for its lock lasts, redis holds it, and the complete list of what else can end it; the
unlock of another get of the same process, whose own lock was over, is on that list.
`NoRefetchWhileStored`, `NoLostBroadcast`: the order subscribe, look, lock. `StoresInOrder`:
what `stillHadLock` protects. `StaleOnlyFromOverlap`, `StaleOnlyFromOverlappingMiss`: an
invalidation is undone only by a miss that it overlapped, which the code does not prevent.
`KeepsPromise`: both providers implement `CachePromise`. `EveryGetReturns`,
`EveryClusterGetReturns`: whatever hangs, is lost or crashes, the timers free everyone.

*Keys.* `RotationsChain`: no rotation is lost unless a call outlived its lock.
`SettledAgree`: once nothing is on its way to a node, it has the stored keys, since the
pending and the new announcement cover for each other; the exceptions are listed and each can
happen: a reply that overtook newer keys, a call that outlived its lock, a node that
started between the two announcements and lost the second, and a node whose own command was
rejected. `SigningKeyKnown`: the start delay does its work. `FinishMeansActive`,
`StartedJobsReport`: what the reports of a job are worth. `FreshAnswers`, `NewKeyIsTested`,
`MakerSwitches`: an update that answers is not older than its request, Keycloak is asked with
the new key, and the patch for early timers works.

*Users.* `TokensReachBrowser`: rotated tokens are lost only with a response, or by the second
loop of the request that refreshed. `LoggedInStaysIn`: while the session lives nobody is
answered as logged out, but for listed reasons. `LoggedOutMeansOut`: after the
back-channel logout only a fetch that was under way keeps a user in. `JarGoesBackOnlyWhenShared`:
the browser gets older tokens only from a response that shared a refresh.
`RefusedForReason`, `LandsWhereItAsked`, `LogoutStripsTokens`: two tabs do not disturb each
other's flows (a rotation does: a login whose state was signed with an earlier key than the
published one is refused, and such a logout lands on the default page), and a logout leaves no
tokens behind (other origins are allowed in the run, so that the cookies come back with any
request; without them section 6 has the counterexample).

*Browser.* `FlagMeansWork`: `isAuthChecking` is set only while something is under way that will
reset it, or after the one way that leaves it set: the iframe of a silent login said that it is
alive, which stops its timer, and the server failed and posts nothing. `TabsConverge`: tabs without work or news show the same.
`OldStatusOnlyAfterClear`: the stored status is the newest that was ever stored, unless a logout
cleared the storage since (`cleared`): then answers that were under way restore older ones. `StatusFollowsClient`,
`HiddenMeansLoggedIn`: what the dialogs say of the user, and from whom they are hidden. The first
excuses a status that a destroyed client's own check reported, of which the mounted one knows
nothing until it hears a status itself.

*Redis.* `NoOutageUnannounced`: when both clients are connected, an outage of the subscriber that
brought an error has been announced. `Recovers`: after the last change and fault both come back.
`WaiterHears`: a get that waits is subscribed as soon as its connection is, whatever gets of this
and other keys come and go; or a subscription that it rested on failed: its own, that of the gets
whose listeners it joined, or that of one which took its listener when it ended.

*Authorization.* `AllAgreed`: a decision rests on every plugin that was registered when it began.
`DecidedByMeaning`: `userHasRoles` answers what the requirement stands for, stated separately as
sets of roles one of which is needed. `ResultIsInherited`: the search of a done tree gives each
permission the least set closed under the tree. `ReportIsExact`: a group alternative passes
exactly when the user has a group that the report names, for all options.

Each property of a passing run has a mutant of the code in its module (`<Definition>_<Bug>`)
that breaks it.

**More that holds.** Each module has a type invariant (`TypeOK`, `ClusterTypeOK`, `KeysTypeOK`,
`OidcTypeOK`, `UserDataTypeOK`, `LoginTypeOK`, `ClientTypeOK`, `OverlayTypeOK`,
`ConnectionTypeOK`, `PubSubTypeOK`, `PluginsTypeOK`, `RolesTypeOK`, `TreeTypeOK`, `GroupTypeOK`),
and the modules state `JoinersAgree`, `LockKeptToTheEnd`, `OverrideIsStrongest`, `NoReentry`,
`WildcardsKept`, `DataIsValidated`, `Monotone`, `MoreIsEnough`, `CheckIsShown`. They hold when
they are added to the cfg of the run of their module. The
type invariants are theorems.

## 4. Proved

All theorems are for any value of the constants that the `ASSUME`s of the module allow.

*`Caches_proofs`, one instance*: any gets and instances, any waits. `SingleFlightPerInstance`,
`WaitersAgree`, `InvalidationHolds`, `StoreOrder`, `LockIsKept`, and `Implements`: every step is
a step of `CachePromise` or a stutter. The properties are not inductive. `CallInv` adds to them: no get starts in the
future (`Clock`); who called is in its callback or done (`Callers`); a lock names a get of
its own instance that is not idle (`Holders`); **`Owns`**, the heart: a get that is in its
callback and within its wait limit holds the lock of its instance, so any later flight
began after that limit; waiters joined a get of their instance (`Joiners`); promises are
resolved by gets that returned (`Resolved`); entries and results hold data that was served
(`Stored`, `Results`); and a get that was served before the last invalidation and is still
under way is among the overlapped ones (`Overlap`). One lemma for each action.

*`Caches_proofs`, the cluster*: any gets and instances, any limits, with crashes, rejected
commands and lost messages. `LeaseIsHeld`, `ClusterSingleFlight` and `LeaseIsBrokenOnlyBy` rest on
**`Leases`**: a get that computed an end for its lock, has not reached it and was not robbed is the
one the lock names, and redis keeps the lock at least as long. That is inductive only with
`Asked` (the end is counted from before the command), `Holders` (who is in which phase with the
lock), `GaveUp` (who calls back without the lock waited to its last retry) and `Named` (a lock names
the process of its get). `ClusterImplements` shows the refinement of `CachePromise` under all
these faults; to that it adds `LocalData` and `SharedData`: whatever is in a cache, in the store,
in a message or in a listener's hands is nothing, or was served by the source.
`StoredIsNotRefetched` rests on `Looked`: who is past its look at the store found it empty, or
entered before the datum came. `BroadcastIsNotLost` rests on `Told`: while no command failed, who
waits with its deferred registered is among the listeners of its instance, and a datum that was
broadcast by a holder whose lock lasts is on its way to all who wait and have not heard.
`StaleOnlyFromOverlaps` rests on **`FreshInv`**, which says of each place where a datum can be which
removals it is fresh for, or overlapped: what may still be stored or sent, for all of them
(`FlightsFresh`, `StoreFresh`); what an instance has, for those it heard of (`LocalFresh`); and a
message, for those that arrive before it (`QueuesFresh`). With these, `ClusterTyping`.

*`RedisPubSub_proofs`*: any generations, faults and gets. `OutageIsAnnounced` from `Remembered`:
the subscriber's outage is in `subscriberHadToReconnect` until both clients are connected again;
it needs `ConnectionTyping` (the clients' flags agree with the connections) and `NotBegun`.
`WaitersAreHeard` from `PubInv`, whose heart is what gets of one key do to each other. A get that
ends removes the last wrapper, which may be another's. That leaves
nobody unheard unless a subscription failed: where a get still subscribes, or waits without its
own listener, the last wrapper is not the only listener (`NotAlone`, `Listens`). While a listener
counts, its channel is subscribed to at the server, will be again after an outage, and no command
that is under way ends that (`Subscribed`); a subscription that is under way comes after every such
command (`InOrder`), and its answer stays true until it is read (`Confirmed`). `OneCommand`,
`Awaited` and `LastWrapped` tie the commands to the gets that wait for them. With it, `PubSubTyping`.

*`OidcConfig_proofs`*: any keys, requests and failures. `AnswersAreFresh` from **`InTime`**: the
running update has a key no older than any that its requests saw, or that an answered request
saw. What makes it hold is that the active key never goes back (`KeysGoForward`, from
`KeysOK`: the previous key is the one before), so that a request that begins the next update sees
at least what the earlier ones saw. `TimersOK` gives each request one timer, and the timer of a key
a time at which the key is active, which is `NewKeysAreTested`. `OidcTyping` needs `JobsOK`: a job
whose request is to come, or waits for its answer, is not introspecting yet, so that its tries
are counted once.

*`Access_proofs`, plugins*: any plugins with any overrides, any requests. `DecisionSafe`
(`AllAgreed`) from `InStep`: the list only grows, and when the loop over it ends there are at
least as many answers as there were plugins at its start;
`OverrideSafe` from `OverrideIsOfPlugins`: there is no override only when no plugin has one, and
a plugin that overrides all is alone.

*Roles*: any roles, clients and requirements of any nesting. `DecisionIsMeaning`:
what `userHasRoles` answers, step by step in the style it finds, is what the requirement stands
for. The proof goes through the styles (`RulesHold`, `ClientsHold`, `LocationsHold`, `ChildHolds`,
`RolesHold`), with the least index at which an array decides by the well-foundedness of the
naturals (`LeastIndex`); that arrays have naturals as indices is `ArraysAssumption`.
`MoreIsNeverLess`: more roles take nothing away.

*The search*: any tree, with cycles, and any order of its keys. `ResultIsExact`
from `Sound` and `Complete`. `Complete` rests on **`Accounted`**: what was visited is in the entry
of a call on the stack, or of the call that has just returned and is merged next; on `Explored`:
a child of a visited permission is visited, or a call has it left; and on `RunsDone`: the entry
of a run that is over has all that its permission inherits. `Reentry`: a permission is never on
the stack twice.
`WildcardsSafe`: the results hide no wildcard of a valid tree.

*Group verdicts*: any groups, routes and trees. `ReportSafe` (`ReportIsExact`): the branches of
`isAuthorizedGroup` are compared with the report that the same alternative makes, first that
of an app (`AppReport`), then all (`ReportOfAlternative`); that every permission of a finished search
has itself among its results comes from the search's invariant. `DataSafe` (`DataIsValidated`) and
`GroupTyping` from what any alternative may report (`GrantIsValidated`), `AccessGrows` (`Monotone`)
from `GrantsGrow`: each condition asks that a group is there, never that one is not.

*`ReactOverlay_proofs`*: any number of mounts and moves, with destroyed clients that go on
listening and checking. `StatusIsShown`, `HiddenFromWhom` and `CheckIsSeen` are inductive together
with `OneClient`: at most one client is live and the context names it, and a client that was never
mounted knows nothing.

*`UserData_proofs`*: any requests, token sets and faults. `TokensSafe` rests on **`OwnedAlone`**:
a request that alone obtained a token set has the newest, which is neither in the browser nor
with any other request, so that nobody can trade it for another. `Numbered` bounds the sets that
Keycloak issues by the clock and the faults. `JarSafe` from the same. `LoggedInSafe` rests on `NothingFails`: while no fault
happened one request at a time is in a refresh (`OneFlight`), a set that was rotated away stays
cached as long as it may be presented (`RotatedIsCached`), and a request that finds no user has
one of the listed reasons already. `LogoutOut` has the hypothesis `FetchInfo`: with the option
off, no user info is asked for and a token that is valid until its end keeps its user in, as
the code intends. It rests on `LogoutMarks`: after the logout, an info that
says "logged in" is marked as fetched across it wherever it is kept.

*`Access_proofs`, login flows*: any tabs, pages, keys and faults. `RefusalSafe` and `LandingSafe` from `FlowInv`,
which follows one flow from its post to its response: the cookies named by its nonce hold what its
post set, until its own response, its own expiry or a listed fault removes them. `LogoutSafe` adds
`NoneLeft`: when the logout callback leaves the cookies alone, there were no tokens, and only
another response brings some, which marks the flow as overtaken. Its hypothesis
`OtherOrigins \/ ~KeycloakPages` says that the cookies come with the callback; without it
section 6 has the counterexample.

*`ClusterKeys_proofs`*: any nodes and jobs, any faults, and any delays in the order of the code's
(`DelaysAssumption`, `cluster-key-provider.ts:45-48`: a lock is shorter than the start delay, which is
not longer than the expiry of the previous key, and that is shorter than what counts as reasonable).

- `ChainHolds` (`RotationsChain`) rests on **`MadeFromStore`**: a call that has made keys and whose
  lock this still is made them from the keys that are stored, after their start and expiry. Others
  can store meanwhile only after they lost the lock, which is recorded as an overrun; that `MayRotate`
  says what it should needs the bounds of `InTime` on every time that is stored.
- `StartedSafe` (`StartedJobsReport`) rests on `Reported`, on `Marked` (a call that fails or cancels
  was rejected or refused) and on `NodeLife` (a dead node is never started again, since a start
  asks for its keys once at a time).
- `AgreeSafe` (`SettledAgree`) from **`AgreeInv`**, with `Covered` for each node that lives and was
  spared the faults: wherever it has keys that are not the stored ones (in use, made by itself, in
  the reply of a read or in an announcement), what brings the stored ones comes after it: the
  reply of a read, an announcement behind it, or the pending announcement and the timer of a call
  that may still store (`Told`). Both announcements are followed, since one fault may lose either.
- `KnownSafe` (`SigningKeyKnown`) adds `Priors`: keys that are not the stored ones are those that
  the stored ones replaced, which are active by then; older ones only while a call is late
  (`Late`). So the key that another node signs with is its active, previous or next key.
- `FinishSafe` (`FinishMeansActive`) from **`FinishInv`**: the numbers of the keys increase with each
  rotation (`Fresh`), and a job that waits to finish has the stored keys and a timer not before their
  start (`Awaits`), or everybody has keys that are at least as new already (`Reached`).

*`FrontendClient_proofs`*: any tabs and checks, any answers, failures and moves. **`ClientInv`** says
of each tab that its flag is set only while something is under way or after a failed page of the server (`Flag`) and that it shows the
stored status or has news to come (`Shows`), and is inductive with the types (`Typed`), which cover
the answers and messages that bring the statuses. The client's methods are functions of a tab, so each has a lemma of its own (`AbortFacts`,
`UpdatedFacts`, `AuthCheckGood`, `MicrotasksGood`), and the steps follow from two: `BecomesKeeps` for a
handler that stores nothing, and `StoresKeeps` for one that may, with what the other tabs hear.
`FlagSafe`, `TabsSafe` and `NewestIsStored` are its parts.

Outside of the prover's reach, and model-checked only: all liveness (and `ENABLED`):
`EveryGetReturns`, `EveryClusterGetReturns`, `MakerSwitches` and `Recovers`.

## 5. Assumed and left out

*Assumed of what is not in this repository.* Keycloak takes a refresh token once and tells of a
session's end by a back-channel logout. Browsers keep `SameSite=strict` cookies from requests
that another site caused, and a cookie whose name begins with `__SECURE-` from being replaced by
one that is not secure. ioredis executes the commands of a connection in order, subscribes again
after an outage, and either resends what was not answered or fails it; a connection that the
server closes brings no `ERROR`; `AUTH` is refused on a connection with subscriptions. `PUBLISH`
never rejects by itself. A rejected read in a timer or in the start of a node ends the process
(an unhandled rejection), as a crash does. Instances of a
cluster see the same keys in `LoginFlow`; what they know of them is in `ClusterKeys`.

*Left out of the modelled components.* Caches: the capacity of the LRUs (10000); the lifetime a
JWT gives to an entry, its edge at 0 included. Keys: `request-active-key`; the listener of
reconnections and `triggerKeySync`, which build a function and never call it; handlers of
consecutive messages that overlap; timers that fire a millisecond early; the real time of the
attempts of a starting node (22.5 s against a lock of 60 s). OIDC: the giving up of the first
discovery after 15 attempts. User data: which claims make a JWT valid; read only servers. Roles:
a location within a location. Group plugin: the regular expressions, by what they match; exposed
routes; the query of admin groups. Frontend: events for the application, the alert endpoint, the
tests of a message's origin and token. React: layout; `fastInitialAuthCheck` is off there and on
in `FrontendClient`; a storage event arrives at once (late ones are in `FrontendClient`).

*Not modelled.* Adapters for express and fastify, static pages, types, docs and examples: they
translate or show, and keep no state. See `PROJECT.json` for each component.

*Met on the way,* and part of the models: a plugin is asked before its `onRegister` has ended; the
timer of a destroyed client still starts checks; `setupExpirationListener` keeps the time of a status that
was cleared; an array of two role rules is read as one rule; nothing dispatches `LOGOUT_SUCCESS`;
`DESTROY` shows the dialog again.

## 6. Where code and comments disagree

`oidc_news` is a run: `handleNewJwks` (`cluster-key-provider.ts:537`) waits for a number of
milliseconds that is a time in seconds, so an instance that was told of new keys switches after
20 days, or when another update happens to come; the comment (`:523`) says "Update the active key
when the new key becomes active".

The others are definitions that TLC refutes when they are added to the cfg of the run, as
`INVARIANT` or, where marked *, as `PROPERTY`:

| definition | run | the code, and what it says of itself |
|---|---|---|
| `PreviousKeyPublished` | `cluster_keys` | `cluster-key-provider.ts:93` publishes the whole previous key object, not its public JWK; `:88` "Add the previous key" |
| `AllAreAdvised` | `cluster_keys` | `:242`: the node whose store was done but rejected never looks again and keeps its old keys; `:232` "in case the future publish is missed" |
| `RefreshKeyIsPublic` | `oidc_config` | `token-cache.ts:56`: the caches keep the configuration of the start and sign with its key after every rotation; `docs/why.md:13` "Automatic asymmetric key rotation on the fly" |
| `RefreshIsPeriodic` | `oidc_config` | `keycloak-connector.ts:107` is a timeout; `:105` "periodically" |
| `RecordedInResponse`* | `user_data` | `keycloak-connector.ts:1228`: the second loop starts with a new response and loses the cookies of a refresh; `:1399` "Record the token pair in the response cookies" |
| `LogoutStripsTokens`* with `OtherOrigins = FALSE` | `login_flow` | `:926` removes the cookies that came, and strict ones do not come from a page of Keycloak's; `:925` "Strip auth cookies" |
| `LogoutCookieGone` | `login_flow` | `:942` removes the flow's cookie without `Secure`, so the browser keeps it; `:941` "Strip auth flow cookies" |
| `SilentFlowsPost` | `login_flow` | `:711`: a silent login that fails throws and posts nothing; `:710` "return data via silent login response" |
| `SignedToVerify`* | `login_flow` | `cluster-key-provider.ts:106`: until a new key starts, states are signed with the previous one, which `:93` publishes as it is stored and no state verifies with; `:88` "Add the previous key" |
| `FlagIsReset` | `frontend` | `keycloak-connector.ts:716`: a silent login that fails at the server posts nothing, and `CHILD_ALIVE` has stopped the timer (`keycloak-connector-client.ts:176`): no later check starts until an abort; `:710` "return data via silent login response" |
| `AbortedChecksEnd`* | `frontend` | `keycloak-connector-client.ts:421` answers an aborted fetch with false, and the check goes on to a silent login; `:446` "Cancel any background requests" |
| `TimerEndsItsOwn`* | `frontend` | `:226`: each page of the iframe starts a timer and only the last is cleared; one that is left ends the next login; `:227` "Check for a successful listener" |
| `EveryOutageAnnounced` | `redis` | `redis-cluster-provider.ts:355`: only an error sets the flag; `:405` "if the subscriber had to reconnect at some point" |
| `ConnectMeansConnected` | `redis` | `:399` resolves the deferred for a failed connection too; `:378` "Wait for both connections to occur" |
| `BothReAuthenticated`* | `redis` | `:230`: `AUTH` fails on a subscribed connection; `:226` "Re-authenticating clients" |
| `NoListenerLeft` | `redis` | `abstract-cluster-provider.ts:120`: overlapping gets of two keys leave a listener each time; `redis-cluster-provider.ts:477` "Remove listener from store" |
| `LastUnsubscribes`* | `redis` | `abstract-cluster-provider.ts:128`: a get that ends finds only the last wrapper of the function they share, removes the listener of another and unsubscribes from its channel; `redis-cluster-provider.ts:480` "Unsubscribe if no more listeners" |
| `AlreadyMeansRegistered`* | `authorization` | `auth-plugin-manager.ts:66` lists a plugin before its `onRegister`, which may throw; `:38` "already registered" |
| `AdminRequired` | `authorization` | `group-auth-plugin.ts:416`: two of the admin options are not looked at with a constraint; `:415` "Check if we require an admin" |
| `AppIsConstrained` | `authorization` | `:325` lays an absent param over the app of the configuration after the check at `:313` |
| `AnyAdminOfItsKind` | `authorization` | `:522`: an admin of a regular app passes a standalone route; `tests/unit/group-auth.test.ts:508` "Any standalone admin can access" |
| `NobodyWithoutRoles` | `authorization` | `role-helper.ts:109`: roles `[[]]` let everyone pass; `tests/unit/helpers/role-helper.test.ts:23` 'Empty roles' expects a refusal |
| `CheckingMeansCheck` | `react_overlay` | `keycloak-connector-client.ts:450`: the dialog of a check whose answer has the known hash stays open; `Login.tsx:21` "Checking Credentials" |
| `StatusIsClients` | `react_overlay` | `keycloak-connector-client.ts:507`: the timer of a destroyed client checks and reports; `:392` returns "if isDestroyed" |
| `NewCheckIsNotLengthy`* | `react_overlay` | `reducer.ts:26` leaves the lengthy flag to the next check; `KeycloakConnectorProvider.tsx:103` |

## 7. Plan

1. *Modelled and checked:* everything of section 2; *proved:* section 4.
2. *Proofs:* all invariants and action properties of the passing runs are theorems; what is left to
   prove comes with new models.
3. *Models next:* several keys in the caches with the lifetime of a JWT; two servers with one
   browser in `UserData`, over the clustered cache; the exposed routes of the group plugin.
