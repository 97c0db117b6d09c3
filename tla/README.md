# A TLA+ model of the SSO operator

The SSO operator watches `SSO` custom resources. For each one it registers an
OIDC client in dex, deploys an oauth2_proxy in front of an upstream service,
exposes the proxy with an ingress, and records in the resource's status that
it is initialised. This directory holds TLA+ modules that model that program,
TLC configurations that check them on small instances, and proofs checked by
TLAPS. `PROJECT.json` lists the components, the runs, the source lines each
definition stands for, the hazards and the findings.

## The system

| part | state | operations | correct if |
|---|---|---|---|
| event handler (`pkg/operator/operator.go`) | the Handle call in progress: event object, client, redirect | `Handle`, `deleteClient` | every client it creates is published or deleted; an initialised SSO is configured |
| dex client (`pkg/dex/client.go`) | OIDC clients in dex | create, update, delete | a client in use stays registered |
| proxy (`pkg/proxy/proxy.go`) | secret, deployment, service, pods | `Deploy`, `Update` | pod, deployment and secret end with the client the status names |
| exposure (`pkg/proxy/expose.go`) | one config map per namespace, jobs, ingresses | `Expose`, `Cleanup` | the ingress of an SSO comes and goes with it |
| names (`buildName`) | none | `buildName` | at most 63 characters, no two SSOs alike |
| startup (`main.go`, `NewHandler`, `config.go`, `crds.go`) | resource definition, operator secret, cookie key | `Run`, `NewHandler` | all operators and all proxies use the stored key; each comes up |
| role binding (`rbac.go`) | the cluster role binding, service accounts | find or append a subject | no subject is lost or doubled, every namespace is bound |
| waits (`pkg/kubernetes/wait.go`) | the timer | poll, or follow a watch | success is earned, no wait is given up without need |
| app name (`getAppName`) | none | read the labels of the upstream | the objects of an SSO agree on it |
| lookups (`sso.go`, `ingress.go`) | none | read | as part of `Handle` |

They interact through the API server and dex only. The operator SDK calls
`Handle` from one worker per process, with the object taken from the
informer's cache; it queues every cached SSO again every 5 seconds, which is
how failed initialisations are retried, and retries a failed deletion event a
few times. Kubernetes controllers run pods and jobs and collect objects whose
owner is gone. Two operator processes overlap during a rolling upgrade; there
is no leader election.

What makes this hard to test: `Handle` is a sequence of up to twenty remote
calls, each of which can be refused, or take effect and lose its reply; the
process can die between any two; the user edits and deletes the SSO meanwhile;
the object Handle works on is stale by then; and leftovers of one attempt are
the starting point of the next.

## Modules

| module | models |
|---|---|
| `Cluster` | constants, variables, object types, and what a remote call can do: answer, be refused, lose its reply |
| `DexClient` | `CreateClient`, `UpdateClient`, `DeleteClient`; dex draws ids |
| `Proxy` | `Deploy` and `Update`, one action per call; the deployment controller |
| `Expose` | `Expose` and `Cleanup`, one action per call; the exposecontroller job |
| `SSOOperator` | composes the three with `Handle`, the SDK, the user and the garbage collector; specification and properties |
| `SSOOperatorProofs` | theorems about `SSOOperator`: types, held clients, the status |
| `TracedProofs` | the theorems that no client is leaked, and how many a fault can cost |
| `SSOLifecycle` | abstract specification: what users and dex see of SSOs and clients |
| `SSORefinement`, `SSORefinementProofs` | the mapping from `SSOOperator` to `SSOLifecycle`, and the proof that it is an implementation |
| `ConfiguredProofs` | the theorems that an initialised SSO is configured and can be reached, and that nothing of a proxy is without an owner |
| `RoleBinding`, `RoleBindingProofs` | `EnsureClusterRoleBinding` and `CreateServiceAccount`, one action per call, for several operators and namespaces |
| `Waits`, `WaitsProofs` | every helper of `wait.go`, poll by poll |
| `BuildName`, `BuildNameProofs` | `buildName` on lengths, at its real widths |
| `Startup`, `StartupProofs` | `Run` from `Validate` to `sdk.Run`, `NewHandler`, the operator secret, the resource definition |
| `MCSSOOperator`, `MCBuildName`, `MCStartup`, `MCRoleBinding`, `MCWaits` | values of the constants for TLC |

**Control.** `pc[o]` is the call that operator `o` makes next; each action of
`Handle(o)` is one remote call together with the local code up to the next
one. Every error path of the source is a disjunct: after `CreateClient` all of
them go to `UndoClient` (`deleteClient`), before it and in the cleanup to
`"err"`. `Kind(o)` tells the two users of the job code apart. `client`,
`redirect` and `obj` are the local variables of the call; `fresh` records that
the handler's own `Create` of the secret succeeded, in which case the later
`Update` carries a resource version and can conflict, while after an
`AlreadyExists` it carries none and cannot.

**Data.** A configuration is the client and the redirect it holds; a redirect
is the SSO whose host it is, or the placeholder `FakeURL`. `SECRET_VERSION`,
a hash of the configuration, is the configuration itself. An SSO has an
identity (`uid`), a resource version (`rv`) and its status; a deleted one
keeps its last contents with `live = FALSE`, which is what the deletion event
carries. A pod is the configuration it read when it started and the version
in its template; a deployment has one pod, replaced as a whole. dex gives out
ids: an id that nobody has named for some time is reused, which is
indistinguishable from a fresh one and keeps the instances finite.

**The app name.** `Upstream[s]` is the set of forms that the upstream service
of `s` takes over time: name, labels, whether it has ports, and its name
without the release prefix. `AppNames` follows the loop of `getAppName`, which
visits the labels in a random order and stops at the app label. Each call
computes the name anew (`app[o]`); deployment and service keep the one they
were created with. An upstream without ports makes `Ports[0]` panic (`Panic`),
which restarts the whole process.

**Jobs.** `job` holds the jobs, `stray` the pods of jobs that were deleted
without a propagation policy while they ran. A pod, stray or not, mounts the
config map as it is at that moment and then acts, in one step.

**Simplifications.** Reading the upstream service, rendering the configuration
and the check of the issuer URL are part of the `CreateSecret` step, and their
failure is its refusal. A wait is one step: it succeeds when its condition
holds, times out when the condition can no longer come true, or times out as a
fault. A conflict of the deployment update between its list and its update is
the refusal of that step. `EnsureClusterRoleBinding` is one step that may
fail; `RoleBinding` has its calls. `Waits` shows that a wait which succeeds does
so at a moment at which its condition holds, which is why one step is enough.

In `BuildName` a string is its length and whether the character before the cut
is a dash; `common` is how far the two names agree. In `Startup` a failed step
leads back to the first one: the process exits and Kubernetes restarts it.
`proxies` collects the keys with which running operators have configured
proxies. In `RoleBinding` the binding is a sequence of subjects with a version;
an operator updates the copy it has `listed`. One binding refers to the role,
as the chart installs it; that there is none is a refusal of `List`. In `Startup`
the resource definition may be there from the chart or not. In `Waits`
a closure of the source is an operator from the reply of the API server and the
object to `"done"`, `"again"` or `"fail"`; a failed call has one of seven kinds,
the four that `IsRetryableAPIError` names and three it does not, of which two
pass (a server that is unavailable, a refused connection); time is the number of polls left, so
that polling intervals are left out, and `ready` says that all the container
statuses of a pod are.

## Runs

Faults are bounded by `MaxFaults`; `FailingCalls` and `LostReplies` say which
calls they may hit. `MaxRV` and `MaxUid` bound the writes of the user, not
those of the operator.

| run | instance | shows |
|---|---|---|
| `single` | 1 operator, 1 SSO, deletable, exposed; 1 fault out of all that Handle recovers from | no client is lost, an initialised SSO is configured and can be reached, stray pods of deleted jobs included |
| `overlap` | 2 operators, 1 SSO that may be deleted before it is initialised, with an upstream that loses its ports at times; symmetric operators | no operator deletes a client another holds, a published client id is final, and every step is one of `SSOLifecycle` |
| `live` | 1 operator, 1 SSO, edited; a crash, a refusal or a lost reply of any call but the list and the status update | it costs one client at most, the SSO is initialised and its pod serves the final configuration |
| `two_ssos` | 1 operator, 2 SSOs of two apps; 1 refusal | the shared config map never gives an SSO a wrong host, both are initialised |
| `delete` | 1 operator, 1 SSO with `skipExposeService`, deleted, its ingress made by the user; a crash or a lost reply of `CreateClient` | every object of a proxy has an owner and is collected after the deletion, also one the operator never hears of; an SSO of which it has a copy is cleaned up, client, ingress and proxy, unless a fault follows the deletion |
| `build_name` | the four suffixes in use, names around every boundary | the names fit and are distinct |
| `startup` | 2 operators, no secret or one without a key, certificates that come later; 3 faults anywhere | both come up, and all proxies get one key unless a start deleted it |
| `role_binding` | 2 operators, 3 namespaces, another writer, an account that is deleted; 2 faults anywhere | no subject is lost or doubled, success means bound, every namespace is bound in the end |
| `waits` | each of the 7 helpers (`WaitForService` for either answer), its object in any state and changing; 4 polls, 3 errors of any of 7 kinds, 2 undelivered events | success is earned, no wait ends early but in vain or by an error outside the four kinds that are retried, a lasting condition is seen despite errors |

Bounds. One fault per behaviour reaches every error path of Handle with a
retry behind it. Two operators are enough for every conflict between a pair of
handlers, which is what the theorems then show for any number. `MaxRV = 3` lets
the user create and delete one SSO around the operator's own write; it is 2 in
`overlap`, where an SSO is then not deleted once it is initialised, so that two
operators never clean up there: the theorems cover that. Four polls leave room
for three errors and a look at the object, and two undelivered events for one
that is out of date.

`ClientIds` has as many ids as can be named at once in `live` and `two_ssos`, so
`CreateClient` is never blocked there. With fewer, a call may wait while all ids
are named. `delete` has two, which a client that a fault has leaked and the one
of the status use up: a call of a stale copy that then asks for a third is held
up by the bound, and `KnownDeletedIsCleanedUp` leaves this case out
(`OutOfIds`). With three ids and a crash nothing is held up and the property
holds as well, but its 620,000 states take several minutes. `overlap` has two,
one for each operator. `single`, `cleanup_stuck` and `delete_early` have two,
which what earlier attempts left behind may name; no call waits forever, as the
ids are free once the leftovers are collected. Deadlock is checked where the
resync keeps the system going (`live`, `two_ssos`, `startup`, `role_binding`);
elsewhere the system stops when the last SSO is deleted and handled, or the
function has returned (`build_name`, `waits`).

Fairness. A Handle call in progress goes on: its calls have deadlines and its
polls time out (weak fairness of `Handle(o) \/ Return(o)`). The informer
delivers what it missed (weak fairness of `Observe`). The SDK's queue is first
in, first out and every cached key is queued again at each resync, so a key
that is ready again and again is taken (strong fairness of `Begin`, because
another key may be in hand). Deployment, job and garbage collection
controllers act in the end (weak fairness). In `Startup` Kubernetes restarts a
process that exited and the certificates are issued in the end (weak fairness of
`Start` and `IssueCerts`); in `RoleBinding` the resync brings back each SSO of
each namespace (strong fairness of `Begin`); in `Waits` the timer goes on (weak
fairness of `Wait`). Nothing is assumed of users, and no fault has to happen. The subscript
of each condition is what every step of its action changes, which TLC evaluates
faster than `vars`.

## Where the code does not do what it says

Each of these is a run whose counterexample TLC finds; `PROJECT.json` quotes
the line that says otherwise.

| run | what happens |
|---|---|
| `cleanup_stuck` | `Cleanup` fails if the config map exists (inverted check). After one timeout of the cleanup job no retry gets past it: the client stays in dex. |
| `delete_early` | An SSO is deleted before it is initialised. Its deletion event runs the initialisation and exposes the proxy; the ingress has no owner and stays. |
| `recreated` | An SSO is deleted and created again. The old objects are accepted, then garbage collected, and the status says initialised. |

The passing runs leave out these situations, by the calls that may fail, the
number of operators or what the user may do, and the following ones, which TLC
shows with other values of the same constants:

- an error of the status list is taken for "not initialised"
  (`operator.go:81`): the SSO is set up again over the working one
  (`InitializedIsConfigured` with `FailingCalls = {"IsSSOInitialized"}`);
- the status update succeeds, its reply is lost, and `deleteClient` removes the
  client it names (`InitializedIsConfigured` and `RefinesLifecycle` with
  `LostReplies = {"UpdateStatus"}`);
- an app label that is empty next to a release label gives an app name that
  differs from call to call, and the service may select no pod
  (`InitializedIsReachable` with `EmptyApp`);
- of two SSOs with one app name the later one takes over the ingress
  (`InitializedIsReachable` of two exposed SSOs, `RefinesLifecycle` of two with
  `skipExposeService`, with `OneApp`);
- a wait for a service or a job ends, and with it the attempt, at an error that
  would have passed but is not one of the four kinds that are retried: a refused
  connection, an EOF, a 503 (`GivesUpOnlyInVain` with the last error taken out
  of `Decisive`). Run `live` refuses these waits: the next attempt succeeds;
- an upstream without ports costs one client per restart (`ClientsTraced` and
  `OneClientPerFault` with `PortsComeAndGo`);
- an operator that is down when an SSO is deleted leaves its ingress and its
  client (`DeletedIsCleanedUp` with a crash);
- a service account that was deleted is still named by the binding and is not
  created again (`EnsuredIsBound` without its `Deletable`);
- a client whose `deleteClient` fails, or whose `CreateClient` reply is lost,
  stays in dex and nothing names it (`ClientsTraced`; `OneClientPerFault` says
  that no more than that can happen);
- of two operators that initialise one SSO, the first to write the status and
  the last to write the secret may differ (`InitializedIsConfigured` with two
  operators and no fault): the secret is replaced without a resource version;
- an exposed SSO can fail to be cleaned up without any fault: a stale copy
  starts an initialisation after the deletion, its config map stays, and the
  retries of the cleanup can run out before the garbage collector removes it
  (`DeletedIsCleanedUp` without `SkipExpose`);
- `buildName` does not cut a name or a suffix of exactly 31 characters, so a
  suffix of 31 or more could give a name that is too long (`Fits`); no suffix
  in use is that long;
- a start that cannot read the operator secret deletes it, and operators that
  already run, and proxies already configured, keep the old key (`KeysAgree` and
  `ProxiesAgree` without `reset`).

## Proofs

All proofs hold for every value of the constants that satisfies the ASSUMEs of
`Cluster`, `BuildName`, `Startup`, `RoleBinding` and `Waits`: identifiers and
objects differ from the markers `None` and `FakeURL`, bounds are natural numbers.
A condition that is not an ASSUME is a hypothesis of the theorem it is needed
for, with a name (`Benign`, `Accountable`, `Lone`, ...).

`SSOOperatorProofs`:

- `TypeCorrect`: `Spec => []TypeOK`. `TypeOK` alone is not inductive: an
  action indexes the SSOs with `key[o]`, which may be `None`, and copies
  `client[o]` into a configuration, which needs an id. `TypeInv` adds that a
  busy operator has a key and that a handler past `CreateClient` has a client.
- `HeldClientsAreRegistered`: `Spec => []HeldClientRegistered`. The invariant
  `PrivateInv` says that the client of a call in flight is registered and that
  no status, no cached status, no event and no other call names it; then no
  `DeleteClient` of anyone else can hit it. Ids come from dex, so
  `CreateClient` establishes it; only the call's own status update ends it.
- `StatusIsStable`: `Spec => StatusStable`, if `IsSSOInitialized` does not
  fail. `VersionInv` says that copies are never newer than the resource and
  that a handler which decided to initialise while the resource is now
  initialised has a copy of another version. So its status update conflicts:
  optimistic locking is what protects a status, and the early return on
  `IsSSOInitialized` is what makes it enough. Without the assumption the
  argument breaks at the list error that is taken for "not initialised".

`SSORefinementProofs`: `OperatorImplementsLifecycle`, `Spec => RefinesLifecycle`.
`SSOLifecycle` has the SSOs that exist, the client each status names and the
redirect of each client; secrets, jobs and ingresses are invisible, so all
steps but the writes of SSO resources and the calls to dex map to stuttering.
Beyond the invariants above the proof needs `FateInv` (two statuses never name
one client, and whoever is about to delete a client deletes one that no existing
SSO names), `NamesInv` (the service and the ingress of an SSO carry one of its
app names) and `RedirectInv` (past `UpdateClient` dex redirects the client to
the SSO's own host). It holds for any number of operators, for crashes, panics,
refused calls and lost replies, under `Benign`: the status list does not fail,
the reply of the status update is not lost, and no two SSOs share an app name.
Each of the three is needed; the list above has the counterexamples of the last
two, and a failing list lets a second initialisation publish over the first.

`PublishedClientIsRedirected` uses the implementation in the other direction:
`OwnRedirect`, that dex has the published client of every existing SSO with that
SSO's host, takes six short steps in `SSOLifecycle`, and the operators inherit
it. It is the half of `InitializedIsConfigured` that any number of operators
keep; the secret and the deployment are the other half.

`TracedProofs`: `EveryClientIsTraced`, `Spec => []ClientsTraced` under
`Accountable`, for any number of operators. `ClientsTraced` is nearly inductive:
beyond `TypeInv` and `VersionInv` it takes `CreatedInv` (an SSO that exists or
was initialised was created), so that a new SSO does not reset a status that
names a client. `Accountable` excludes what leaks a client: a crash or a panic
while a call holds one, a lost reply of `CreateClient`, a `deleteClient` that is
refused, a failing status list (a second initialisation publishes over the
first) and re-creation (it resets the status that names the old client). All
other refusals and lost replies are allowed.

`FaultsCostOneClient`, `Spec => []OneClientPerFault`, is what remains without
`Accountable`: for any number of operators and SSOs and any fault, the failing
status list and a refused `deleteClient` included, there are never more
untraced clients than faults. Its hypothesis `Countable` says that upstreams
keep their ports, as a panic is not a fault, and that no SSO is created again,
as that resets a status. The bound itself is not inductive: after a failing list
the fault is counted, and the client is lost only later, when the second
initialisation publishes over the first. So `CostInv` counts a client already
when its only trace is a contested status, one that a Handle call past the
list would still be allowed to overwrite. The proof is that no step endangers a
client without a fault and none endangers two: a call past the list has a copy
of the present version only if the list failed or the status is not initialised
(`BehindInv`, the part of `VersionInv` that survives a failing list), and the
status update of one of several such calls takes the version away from the
others. `CostInv` was checked by TLC first, on two operators with two faults (2.3
million states) and on one with deletions (3.7 million). Run `live` shows the
bound for one operator; two that overlap, with any fault, have 520,000 states.

`ConfiguredProofs` proves what `status.initialized` promises, for SSOs that are
not created again (`recreated` shows why), and whom a proxy belongs to:

- `InitializedCanBeReached`: `Spec => []InitializedIsReachable`, for any number
  of operators, and every crash, panic, refusal and lost reply, those of the
  status list and the status update included, if each SSO has one app name
  (`OneAppEach`) and no two share one (`AppsApart`). The argument is monotone:
  a handler past `CreateDeployment`, `CreateService` or `FindIngressHosts` knows
  that there is such an object (`ProgressInv`), and no one takes it away while
  the SSO lives, because only deleted SSOs are cleaned up (`DeadInv`) and the
  garbage collector finds its owner alive (`OwnerInv`, which is where
  re-creation would break it). `NamesInv` and `LabelInv` say that service,
  deployment and ingress carry the app name.
- `InitializedMeansConfigured`: `Spec => []InitializedIsConfigured`, for one
  operator (`Lone`), any number of SSOs and all faults that `Benign` allows.
  Here the objects are replaced, so their contents matter: `LoneInv` says that
  the SSO a handler is initialising is not yet initialised, that its redirect is
  the SSO's host, and that once it has written the secret and the deployment
  they hold the client and the redirect it is going to publish. With a second
  operator `LoneInv` fails at the secret, which is replaced without a resource
  version; the list above has that counterexample.

- `ProxiesAreOwned`: `Spec => []ProxyIsOwned`, without a hypothesis, re-creation
  included. It is the safety half of `DeletedIsCollected`: nothing of a proxy is
  left without an owner, so that the garbage collector can take what remains
  when the owner is gone. `BornInv` says that a copy is of an incarnation that
  the SSO has or had and that no Handle call works on an empty one, although
  the informer forgets its copies at a restart and observes a deletion after
  the fact. TLC checked it with one re-creation and a crash (4.9 million
  states).

The other inductive invariants of `ConfiguredProofs` were checked by TLC before
they were proved, on one operator and one SSO whose upstream loses its ports,
with a crash and one fault (14 million states).

`RoleBindingProofs`: `BindingTypeCorrect`, `OneAccountIsBound`, `EnsureBinds` and
`NoSubjectIsLost`, for any number of operators, namespaces and other writers and
any fault. `LockInv` says that a copy of the current version is the binding
itself and that an operator past `List` has seen no account of its namespace in
its copy, so an update that is not refused appends one subject to what is there.

`BuildNameProofs`: `NamesFit` and `NamesApart`, for names of every length and
suffixes of at most 30 characters; the lemma `ShortSuffixParts` says what the
switch keeps in that case.

`StartupProofs`: `OperatorsShareTheKey`, for any number of operators and any
fault, as long as no start has found the secret unreadable (the history
variable `reset`). `StoredInv` says that until then nobody deletes the secret
and that whoever runs has its key; a second `Create` is refused, and its
operator reads the key after the restart. `ProxiesShareTheKey` carries this over
to every proxy that was ever configured. `LoneOperatorKeepsTheKey` drops the
restriction for a single operator. `TypeInvariant` is type correctness.

`WaitsProofs`: `WaitsTypeCorrect`, `SuccessMeansTheGoal` and
`NoWaitIsGivenUpEarly`, for any number of polls, errors, undelivered
events, generations and pods. The invariant adds `Going` (a wait that goes on
has polls left) and `Heard` (an event that a watch has yet to deliver and that
shows the goal was so at some time of the wait). `DoneIsEarned` takes the
closures one by one; `CountAddsUp` unfolds the sum over the subsets of an
endpoints object, which has at most two here. `FailureIsFinal` takes them one
by one for the other verdict: if a closure fails without an error that ends its
wait, the cluster can only delete the object and create it anew.

Every invariant and action property of the passing runs is stated by a theorem.
Only model-checked are the liveness properties (`EventuallyInitialized`,
`EventuallyServed`, `DeletedIsCollected`, `KnownDeletedIsCleanedUp`,
`EventuallyRunning`, `EventuallyBound`, `SteadyIsSeen`): temporal reasoning under
fairness is outside these provers. The sum over endpoints is proved for the
objects of the model only, as a sum of any length needs an induction over it.

## Not modelled

- The text of the oauth2_proxy configuration (`pkg/proxy/config.go`) and of the
  exposecontroller's: templates without behaviour, abstracted to what they are
  rendered from.
- Construction of clients (`client.go`), command line flags and the health
  probe: no state; a failure is the refusal of the call that needs the client.
- The generated clientset, informers, listers and deep copies under
  `pkg/client` and `zz_generated.deepcopy.go`; the operator uses the SDK's
  informer, and the deep copy of `Handle` is the assignment of a record.
- Fields of the SSO's spec other than `skipExposeService`: they are copied into
  configurations and never compared. An edit after the initialisation is
  therefore a new version and nothing else, which is also all the code makes
  of it.
- Helm charts and examples, but for the role binding, the service account and
  the resource definition that the chart installs: the initial states of
  `RoleBinding` and `Startup`.

## Plan

What remains open:

1. The liveness properties hold on small instances only. `ProxyIsOwned` is the
   safety core of one of them; the others would need a prover for fairness.
2. A run of `delete` with edits between the status update and the deletion
   (`MaxRV = 4`): 3.1 million states, too many for the liveness check of a run
   unless the garbage collector takes fewer steps.
3. A bound on what a panic costs: an upstream without ports is a condition of
   the cluster and not a fault, so `OneClientPerFault` would have to count
   panics too.
