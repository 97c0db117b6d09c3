------------------------------ MODULE Cluster ------------------------------
(***************************************************************************)
(* The state the SSO operator works on, shared by the modules that model   *)
(* its packages: the Kubernetes objects of one namespace, the OIDC clients *)
(* registered in dex, the informer of the operator SDK, and the local      *)
(* variables of the Handle call each operator process is executing.        *)
(*                                                                         *)
(* Every remote call is one step.  A call may be refused (an error and no  *)
(* effect), or take effect and have its reply lost (an effect and an       *)
(* error); FailingCalls and LostReplies say which calls may, and MaxFaults *)
(* how often in a behaviour.                                               *)
(***************************************************************************)
EXTENDS Naturals

CONSTANTS
  Operators,     \* operator processes; two overlap during a rolling upgrade
  SSOs,          \* names of SSO custom resources in the namespace
  ClientIds,     \* ids dex may give to a client
  Upstream,      \* the forms each SSO's upstream service takes over time
  SkipExpose,    \* the SSOs with spec.skipExposeService
  Editable,      \* bound: the SSOs the user may edit
  Deletable,     \* bound: the SSOs the user may delete
  FakeURL,       \* the placeholder redirect of pkg/proxy
  None,          \* an absent object, id or name
  FailingCalls,  \* the calls that may be refused
  LostReplies,   \* the calls whose reply may be lost
  MayCrash,      \* whether an operator process may die and be restarted
  MaxFaults,     \* bound: refusals, lost replies and crashes in a behaviour
  Retries,       \* how often the SDK retries a failed deletion event
  MaxRV,         \* bound: the user writes an SSO only below this version
  MaxUid         \* bound: how often the user creates an SSO of one name

ASSUME ConstantsAssumption ==
  /\ DOMAIN Upstream = SSOs
  /\ SkipExpose \subseteq SSOs /\ Editable \subseteq SSOs
  /\ Deletable \subseteq SSOs
  /\ ClientIds \subseteq Nat
  /\ None \notin ClientIds /\ None \notin SSOs /\ None \notin Operators
  /\ FakeURL \notin SSOs /\ None # FakeURL
  /\ MayCrash \in BOOLEAN
  /\ MaxFaults \in Nat /\ Retries \in Nat /\ MaxRV \in Nat
  /\ MaxUid \in Nat

VARIABLES
  sso,         \* SSO resources in the API server
  secret,      \* oauth2_proxy configuration secrets, per SSO
  deployment,  \* proxy deployments, per SSO
  service,     \* proxy services, per SSO
  pod,         \* the ready proxy pod, per SSO
  configMap,   \* the namespace's one "expose-configmap"
  job,         \* exposecontroller jobs, per SSO and kind
  stray,       \* the kinds of deleted jobs whose pod still runs, per SSO
  ingress,     \* per app name, the SSO whose service it routes to
  dex,         \* the redirect of each OIDC client registered in dex
  cache,       \* the informer's copy of each SSO, per operator
  tries,       \* attempts left for a deletion event, per operator and SSO
  pc,          \* the call each operator makes next
  key,         \* the SSO its Handle call is about
  obj,         \* event.Object of that Handle call
  client,      \* client.Id in that Handle call
  redirect,    \* client.RedirectUris[0] in that Handle call
  fresh,       \* its Create(secret) succeeded, so Update carries a version
  app,         \* appName in that Handle call
  faults       \* faults so far

sdkVars     == <<cache, tries>>
eventVars   == <<key, obj>>
localVars   == <<client, redirect, fresh, app>>
handlerVars == <<pc, key, obj, client, redirect, fresh, app>>
proxyVars   == <<secret, deployment, service, pod>>
exposeVars  == <<configMap, job, stray, ingress>>
vars == <<sso, proxyVars, exposeVars, dex, sdkVars, handlerVars, faults>>

----------------------------------------------------------------------------
(* The app name *)

\* An upstream service is a record: its name, its labels as a function on the
\* labels it has, trimmed (the name without the first "<release>-") and ports
\* (whether it has any).
Label(u, l) == IF l \in DOMAIN u.labels THEN u.labels[l] ELSE ""

\* Mutant: the first of the two labels that is visited decides.
AppNamesAnyLabel(u) ==
  {IF l = "app" THEN u.labels[l] ELSE u.trimmed :
     l \in DOMAIN u.labels \cap {"app", "release"}}

\* The labels are visited in the random order of a Go map, up to the app label:
\* the release label may or may not have been seen by then.  An app label
\* that is empty counts as none.
AppNames(u) ==
  LET release  == Label(u, "release")
      releases == IF "app" \in DOMAIN u.labels THEN {"", release}
                                               ELSE {release}
  IN  IF Label(u, "app") # "" THEN {Label(u, "app")}
      ELSE {IF r # "" THEN u.trimmed ELSE u.name : r \in releases}

\* The names a call may compute for an SSO.
getAppName(s) == UNION {AppNames(u) : u \in Upstream[s]}

----------------------------------------------------------------------------
(* Objects *)

Apps      == UNION {getAppName(s) : s \in SSOs}
Redirects == SSOs \cup {FakeURL}
MaybeId   == ClientIds \cup {None}
JobKinds  == {"expose", "cleanup"}

\* An SSO resource.  A deleted one keeps its last contents with live FALSE;
\* rv is the resource version, which every write of the resource increases.
SSOObject == [live : BOOLEAN, uid : Nat, rv : Nat,
              initialized : BOOLEAN, clientID : MaybeId]
NoSSO     == [live |-> FALSE, uid |-> 0, rv |-> 0,
              initialized |-> FALSE, clientID |-> None]

\* What the rendered oauth2_proxy configuration tells apart.
Config     == [client : ClientIds, redirect : Redirects]
Secret     == [config : Config, owner : Nat]
Deployment == [version : Config, app : Apps, owner : Nat]
Service    == [app : Apps, owner : Nat]
Pod        == [version : Config, config : Config]
ConfigMap  == [service : SSOs, owner : Nat]
Job        == [state : {"running", "complete", "failed"}, owner : Nat]

\* An absent object differs from every object.
ASSUME AbsentAssumption ==
  None \notin Secret /\ None \notin Deployment /\ None \notin Service

\* Owner 0 is "no owner reference".
NoOwner == 0
OwnerGone(s, uid) == uid # NoOwner /\ ~(sso[s].live /\ sso[s].uid = uid)

Registered(c) == c \in ClientIds /\ dex[c] # None

----------------------------------------------------------------------------
(* Remote calls *)

Goto(o, label) == pc' = [pc EXCEPT ![o] = label]

\* The call at hand answers and the handler goes on at label.
Reply(o, label) == Goto(o, label) /\ UNCHANGED faults

Fault == faults < MaxFaults /\ faults' = faults + 1

\* The call is refused: an error without an effect.
Refused(o, call, label) ==
  call \in FailingCalls /\ Fault /\ Goto(o, label)

\* The call took effect; its reply arrives, or is lost and read as an error.
Answered(o, call, label, onError) ==
  \/ Reply(o, label)
  \/ call \in LostReplies /\ Fault /\ Goto(o, onError)
=============================================================================
