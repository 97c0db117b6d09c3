------------------------ MODULE SSORefinementProofs ------------------------
(***************************************************************************)
(* SSOOperator implements SSOLifecycle, for any number of operators, SSOs, *)
(* client ids, faults and retries.                                         *)
(***************************************************************************)
EXTENDS SSOOperatorProofs, SSORefinement

\* A copy of a deleted SSO names no client that an existing SSO names.
Retired(x) ==
  ~x.live /\ x.clientID # None =>
    \A s \in SSOs : sso[s].live => sso[s].clientID # x.clientID

\* Which client ids the statuses name: two SSOs never the same, an SSO that is
\* not initialised none, and none that a Handle call is about to delete.
FateInv ==
  /\ \A s, t \in SSOs :
       s # t /\ sso[s].clientID = sso[t].clientID => sso[s].clientID = None
  /\ \A s \in SSOs :
       sso[s].live /\ ~sso[s].initialized => sso[s].clientID = None
  /\ \A o \in Operators :
       pc[o] = "UndoClient" =>
         /\ client[o] \in ClientIds
         /\ \A s \in SSOs : sso[s].clientID # client[o]
  /\ \A o \in Operators : pc[o] = "DeleteClient" => ~obj[o].live
  /\ \A o \in Operators : Retired(obj[o])
  /\ \A o \in Operators, s \in SSOs : Retired(cache[o][s])

\* The service of an SSO and the ingress that routes to it carry an app name
\* of that SSO.
NamesInv ==
  /\ \A s \in SSOs : service[s] # None => service[s].app \in getAppName(s)
  /\ \A a \in Apps : ingress[a] # None => a \in getAppName(ingress[a])

\* A Handle call has its own SSO's host before it updates the client, and so
\* has the client from then on.
Redirected == {"UpdateSecret", "UpdateDeployment", "WaitForRollout",
               "UpdateStatus"}
RedirectInv ==
  \A o \in Operators :
    /\ pc[o] = "UpdateClient" => redirect[o] = key[o]
    /\ pc[o] \in Redirected => dex[client[o]] = key[o]

\* The conditions under which the operator implements the specification: the
\* status list does not fail, the reply of the status update is not lost, and
\* no two SSOs ever share an app name.
Benign ==
  /\ "IsSSOInitialized" \notin FailingCalls
  /\ "UpdateStatus" \notin LostReplies
  /\ \A s, t \in SSOs : s # t => getAppName(s) \cap getAppName(t) = {}

----------------------------------------------------------------------------
(* Which client ids the statuses name *)

LEMMA InitFate == Init => FateInv
BY DEF Init, FateInv, Retired, NoSSO

LEMMA FateKept ==
  ASSUME FateInv, UNCHANGED <<sso, cache, obj, pc, client>>
  PROVE  FateInv'
BY DEF FateInv, Retired

LEMMA UserFate ==
  ASSUME TypeInv, FateInv, NEW s \in SSOs, User(s)
  PROVE  FateInv'
<1>1. /\ sso \in [SSOs -> SSOObject] /\ sso[s] \in SSOObject
      /\ None \notin ClientIds
  BY ConstantsAssumption DEF TypeInv, TypeOK
<1>2. UNCHANGED <<cache, obj, pc, client>>
  BY DEF User, CreateSSO, EditSSO, DeleteSSO, CreateIngress, sdkVars,
     handlerVars
<1>3. CASE CreateIngress(s)
  BY <1>2, <1>3, FateKept DEF CreateIngress
<1>4. CASE CreateSSO(s)
  <2>1. /\ \A t \in SSOs \ {s} : sso'[t] = sso[t]
        /\ sso'[s].clientID = None
    BY <1>1, <1>4 DEF CreateSSO
  <2> QED
    BY <1>1, <1>2, <2>1 DEF FateInv, Retired
<1>5. CASE EditSSO(s) \/ DeleteSSO(s)
  <2>1. /\ \A t \in SSOs \ {s} : sso'[t] = sso[t]
        /\ sso'[s].clientID = sso[s].clientID
        /\ sso'[s].initialized = sso[s].initialized
        /\ sso'[s].live => sso[s].live
    BY <1>1, <1>5 DEF EditSSO, DeleteSSO, SSOObject
  <2> QED
    BY <1>2, <2>1 DEF FateInv, Retired
<1> QED
  BY <1>3, <1>4, <1>5 DEF User

\* A step of Handle that writes no status.
LEMMA MoveFate ==
  ASSUME TypeInv, PrivateInv, FateInv, NEW o \in Operators, Move(o),
         sso' = sso
  PROVE  FateInv'
<1>1. PICK l \in Labels :
        /\ pc' = [pc EXCEPT ![o] = l]
        /\ l \in InitOnly => Kind(o) = "expose"
        /\ l = "UndoClient" => pc[o] \in InFlight
        /\ l = "DeleteClient" => Kind(o) = "cleanup"
  BY DEF Move, Goto
<1>2. pc \in [Operators -> Labels] /\ UNCHANGED <<cache, obj, client>>
  BY DEF Move, TypeInv, TypeOK
<1>3. pc'[o] = "UndoClient" =>
        /\ client[o] \in ClientIds
        /\ \A s \in SSOs : sso[s].clientID # client[o]
  BY <1>1, <1>2
  DEF InitOnly, HoldsClient, PrivateInv, Private, Registered
<1>4. pc'[o] = "DeleteClient" => ~obj[o].live
  BY <1>1, <1>2 DEF Kind
<1>5. \A p \in Operators \ {o} : pc'[p] = pc[p]
  BY <1>1, <1>2
<1>6. \A p \in Operators :
        /\ pc'[p] = "UndoClient" =>
             /\ client[p] \in ClientIds
             /\ \A s \in SSOs : sso[s].clientID # client[p]
        /\ pc'[p] = "DeleteClient" => ~obj[p].live
  BY <1>3, <1>4, <1>5 DEF FateInv
<1> QED
  BY <1>2, <1>6 DEF FateInv, Retired

LEMMA CreateClientFate ==
  ASSUME TypeInv, FateInv, NEW o \in Operators, CreateClient(o)
  PROVE  FateInv'
<1>1. /\ pc \in [Operators -> Labels] /\ client \in [Operators -> MaybeId]
      /\ UNCHANGED <<sso, cache, obj>>
  BY DEF CreateClient, TypeInv, TypeOK, sdkVars, eventVars
<1>2. /\ pc'[o] \in {"CreateSecret", "err"}
      /\ \A p \in Operators \ {o} : pc'[p] = pc[p] /\ client'[p] = client[p]
  BY <1>1 DEF CreateClient, Reply, Refused, Goto
<1> QED
  BY <1>1, <1>2 DEF FateInv, Retired

LEMMA UpdateStatusFate ==
  ASSUME Benign, TypeInv, PrivateInv, FateInv, NEW o \in Operators,
         UpdateStatus(o)
  PROVE  FateInv'
<1>1. /\ Move(o) /\ key[o] \in SSOs /\ HoldsClient(o)
      /\ sso \in [SSOs -> SSOObject] /\ pc \in [Operators -> Labels]
  BY LateMoves, Known
  DEF UpdateStatus, TypeInv, TypeOK, PathOK, HoldsClient, InitOnly, InFlight
<1>2. CASE sso' = sso
  BY <1>1, <1>2, MoveFate
<1>3. CASE sso' # sso
  <2>1. /\ \A t \in SSOs \ {key[o]} : sso'[t] = sso[t]
        /\ sso'[key[o]].clientID = client[o]
        /\ sso'[key[o]].initialized = TRUE
    BY <1>1, <1>3 DEF UpdateStatus
  <2>2. /\ pc'[o] = "ok"
        /\ \A p \in Operators \ {o} : pc'[p] = pc[p]
    BY <1>1, <1>3 DEF UpdateStatus, Answered, Reply, Goto, Benign
  <2>3. UNCHANGED <<cache, obj, client>> /\ Private(o)
    BY <1>1 DEF Move, PrivateInv
  <2> QED
    BY <2>1, <2>2, <2>3 DEF FateInv, Retired, Private
<1> QED
  BY <1>2, <1>3

LEMMA HandleFate ==
  ASSUME Benign, TypeInv, PrivateInv, FateInv, NEW o \in Operators, Handle(o)
  PROVE  FateInv'
<1>1. CASE ~CreateClient(o) /\ ~UpdateStatus(o)
  <2>1. Move(o)
    BY <1>1, HandleMoves
  <2>2. sso' = sso
    BY <1>1, DeployMoves, UpdateMoves, ExposeMoves, CleanupMoves, StartMoves
    DEF Handle, FindIngressHosts, UpdateClient, UndoClient, RetireClient,
        Delete
  <2> QED
    BY <2>1, <2>2, MoveFate
<1> QED
  BY <1>1, CreateClientFate, UpdateStatusFate

LEMMA SDKFate ==
  ASSUME TypeInv, FateInv, NEW o \in Operators,
         \/ Return(o) \/ Restart(o)
         \/ \E s \in SSOs : Observe(o, s) \/ Begin(o, s)
  PROVE  FateInv'
<1>1. /\ cache \in [Operators -> [SSOs -> SSOObject]]
      /\ pc \in [Operators -> Labels] /\ obj \in [Operators -> SSOObject]
      /\ client \in [Operators -> MaybeId]
      /\ sso' = sso
  BY DEF TypeInv, TypeOK, Return, Restart, Observe, Begin
<1>2. \A x : Retired(x) => Retired(x)'
  BY <1>1 DEF Retired
<1>3. Retired(NoSSO)
  BY DEF Retired, NoSSO
<1>4. \A s \in SSOs : Retired(sso[s])
  BY DEF FateInv, Retired
<1>5. \A p \in Operators, s \in SSOs : Retired(cache'[p][s])
  <2>1. ASSUME NEW p \in Operators, NEW s \in SSOs
        PROVE  cache'[p][s] \in {cache[p][s], sso[s], NoSSO}
    BY <1>1, <2>1 DEF Return, Restart, Observe, Begin, sdkVars
  <2> QED
    BY <2>1, <1>3, <1>4 DEF FateInv
<1>6. \A p \in Operators : Retired(obj'[p])
  <2>1. ASSUME NEW p \in Operators
        PROVE  \/ obj'[p] \in {obj[p], NoSSO}
               \/ \E s \in SSOs : obj'[p] = cache[p][s]
    BY <1>1, <2>1 DEF Return, Restart, Observe, Begin, handlerVars
  <2> QED
    BY <2>1, <1>3 DEF FateInv
<1>7. \A p \in Operators :
        \/ pc'[p] = pc[p] /\ client'[p] = client[p] /\ obj'[p] = obj[p]
        \/ pc'[p] \in {"idle", "EnsureClusterRoleBinding"}
  BY <1>1 DEF Return, Restart, Observe, Begin, Goto, handlerVars, localVars
<1> QED
  BY <1>1, <1>2, <1>5, <1>6, <1>7 DEF FateInv, Retired

LEMMA FateStep ==
  ASSUME Benign, TypeInv, PrivateInv, FateInv, [Next]_vars
  PROVE  FateInv'
<1>1. CASE UNCHANGED vars
  BY <1>1, FateKept DEF vars, sdkVars, handlerVars
<1>2. ASSUME NEW s \in SSOs, Controllers(s) PROVE FateInv'
  BY <1>2, ControllersKeep, OtherSteps, FateKept DEF handlerVars
<1> QED
  BY <1>1, <1>2, UserFate, HandleFate, SDKFate DEF Next, Crash, Panic

----------------------------------------------------------------------------
(* Whose host an ingress has *)

LEMMA InitNames == Init => NamesInv
BY DEF Init, NamesInv

LEMMA NamesKept ==
  ASSUME NamesInv, UNCHANGED <<service, ingress>>
  PROVE  NamesInv'
BY DEF NamesInv, getAppName

LEMMA CreateServiceNames ==
  ASSUME TypeInv, NamesInv, NEW o \in Operators, CreateService(o)
  PROVE  NamesInv'
<1>1. app[o] \in getAppName(key[o]) /\ service \in [SSOs -> Service \cup {None}]
  BY Known DEF CreateService, InitOnly, InFlight, TypeInv, TypeOK
<1>2. \A s \in SSOs : \/ service'[s] = service[s]
                      \/ s = key[o] /\ service'[s].app = app[o]
  BY <1>1 DEF CreateService
<1> QED
  BY <1>1, <1>2 DEF NamesInv, CreateService, exposeVars

LEMMA HandleNames ==
  ASSUME TypeInv, NamesInv, NEW o \in Operators, Handle(o)
  PROVE  NamesInv'
<1>1. CASE ~CreateService(o) /\ (Deploy(o) \/ Update(o))
  <2>1. UNCHANGED <<service, ingress>>
    BY <1>1 DEF Deploy, Update, CreateSecret, CreateDeployment,
       WaitForService, WaitForPodsWithLabelRunning, UpdateSecret,
       UpdateDeployment, proxyVars, exposeVars
  <2> QED
    BY <2>1, NamesKept
<1>2. CASE ExposeSSO(o) \/ CleanupSSO(o)
  <2>1. UNCHANGED <<service, ingress>>
    BY <1>2 DEF ExposeSSO, CleanupSSO, RunsJob, CreateConfigMap,
       CleanupConfigMap, CreateJob, DeleteStaleJob, WaitForJobComplete,
       DeleteJob, DeleteConfigMap, proxyVars, exposeVars
  <2> QED
    BY <2>1, NamesKept
<1>3. CASE ~(Deploy(o) \/ Update(o) \/ ExposeSSO(o) \/ CleanupSSO(o))
  <2>1. UNCHANGED <<service, ingress>>
    BY <1>3 DEF Handle, EnsureClusterRoleBinding, IsSSOInitialized,
       CreateClient, FindIngressHosts, UpdateClient, UpdateStatus,
       UndoClient, RetireClient, Delete, proxyVars, exposeVars
  <2> QED
    BY <2>1, NamesKept
<1> QED
  BY <1>1, <1>2, <1>3, CreateServiceNames

LEMMA OtherNames ==
  ASSUME TypeInv, NamesInv, NEW s \in SSOs, User(s) \/ Controllers(s)
  PROVE  NamesInv'
<1>1. /\ ingress \in [Apps -> SSOs \cup {None}]
      /\ service \in [SSOs -> Service \cup {None}]
      /\ None \notin SSOs
  BY ConstantsAssumption DEF TypeInv, TypeOK
<1>2. CASE CreateIngress(s)
  <2>1. PICK a \in getAppName(s) : ingress' = [ingress EXCEPT ![a] = s]
    BY <1>2 DEF CreateIngress
  <2> QED
    BY <1>1, <1>2, <2>1 DEF NamesInv, CreateIngress, proxyVars
<1>3. CASE ExposeJobRuns(s)
  <2>1. configMap.service \in SSOs
    BY <1>3 DEF ExposeJobRuns, PodRuns, TypeInv, TypeOK, ConfigMap
  <2>2. \/ ingress' = ingress
        \/ /\ service[configMap.service] # None
           /\ ingress' = [ingress EXCEPT ![service[configMap.service].app] =
                           configMap.service]
    BY <1>3 DEF ExposeJobRuns
  <2> QED
    BY <1>1, <1>3, <2>1, <2>2 DEF NamesInv, ExposeJobRuns, proxyVars
<1>4. CASE CleanupJobRuns(s)
  BY <1>1, <1>4 DEF NamesInv, CleanupJobRuns, proxyVars
<1>5. CASE Collect(s)
  BY <1>1, <1>5 DEF NamesInv, Collect
<1>6. CASE \/ CreateSSO(s) \/ EditSSO(s) \/ DeleteSSO(s)
           \/ StartPod(s) \/ StopPod(s) \/ \E k \in JobKinds : JobFails(s, k)
  BY <1>6, NamesKept DEF CreateSSO, EditSSO, DeleteSSO, StartPod, StopPod,
     JobFails, proxyVars, exposeVars
<1> QED
  BY <1>2, <1>3, <1>4, <1>5, <1>6 DEF User, Controllers

LEMMA NamesStep ==
  ASSUME TypeInv, NamesInv, [Next]_vars
  PROVE  NamesInv'
<1>1. ASSUME NEW o \in Operators,
             \/ Return(o) \/ Restart(o)
             \/ \E s \in SSOs : Observe(o, s) \/ Begin(o, s)
      PROVE  NamesInv'
  BY <1>1, NamesKept DEF Return, Restart, Observe, Begin, proxyVars,
     exposeVars
<1>2. CASE UNCHANGED vars
  BY <1>2, NamesKept DEF vars, proxyVars, exposeVars
<1> QED
  BY <1>1, <1>2, HandleNames, OtherNames DEF Next, Crash, Panic

----------------------------------------------------------------------------
(* Which redirect a client has *)

LEMMA InitRedirect == Init => RedirectInv
BY DEF Init, RedirectInv, Redirected

\* A Handle call that has redirected its client holds it.
LEMMA RedirectedHolds ==
  ASSUME TypeInv, PrivateInv, NEW o \in Operators,
         pc[o] \in Redirected \cup {"UpdateClient"}
  PROVE  Private(o) /\ client[o] \in ClientIds /\ key[o] \in SSOs
<1>1. HoldsClient(o)
  BY DEF TypeInv, PathOK, HoldsClient, Redirected, InFlight, InitOnly
<1>2. pc[o] # "idle"
  BY DEF Redirected
<1> QED
  BY <1>1, <1>2 DEF TypeInv, PathOK, PrivateInv

\* A step of one call leaves the redirect of a client that another call has
\* redirected alone.
LEMMA RedirectElsewhere ==
  ASSUME TypeInv, PrivateInv, RedirectInv,
         NEW o \in Operators, Handle(o), NEW p \in Operators, p # o
  PROVE  /\ pc'[p] = "UpdateClient" => redirect'[p] = key'[p]
         /\ pc'[p] \in Redirected => dex'[client'[p]] = key'[p]
<1>1. /\ pc \in [Operators -> Labels] /\ client \in [Operators -> MaybeId]
      /\ redirect \in [Operators -> Redirects]
      /\ dex \in [ClientIds -> Redirects \cup {None}]
  BY DEF TypeInv, TypeOK
<1>2. /\ pc'[p] = pc[p] /\ key'[p] = key[p] /\ client'[p] = client[p]
  BY <1>1, HandleMoves DEF Move, CreateClient, Reply, Refused, Goto, eventVars
<1>3. redirect'[p] = redirect[p]
  <2>1. CASE FindIngressHosts(o)
    BY <1>1, <2>1 DEF FindIngressHosts
  <2>2. CASE Deploy(o) \/ Update(o)
    BY <2>2 DEF Deploy, Update, CreateSecret, CreateDeployment,
       CreateService, WaitForService, WaitForPodsWithLabelRunning,
       UpdateSecret, UpdateDeployment, localVars
  <2>3. CASE ExposeSSO(o) \/ CleanupSSO(o)
    BY <2>3 DEF ExposeSSO, CleanupSSO, RunsJob, CreateConfigMap,
       CleanupConfigMap, CreateJob, DeleteStaleJob, WaitForJobComplete,
       DeleteJob, DeleteConfigMap, localVars
  <2> QED
    BY <2>1, <2>2, <2>3 DEF Handle, EnsureClusterRoleBinding,
       IsSSOInitialized, CreateClient, UpdateClient, UpdateStatus,
       UndoClient, RetireClient, Delete, localVars
<1>4. ASSUME pc[p] \in Redirected PROVE dex'[client[p]] = dex[client[p]]
  <2>1. Private(p)
    BY <1>4, RedirectedHolds
  <2>2. CASE CreateClient(o)
    BY <1>1, <2>1, <2>2
    DEF CreateClient, NewId, Unused, Private, Registered
  <2>3. CASE UpdateClient(o)
    BY <1>1, <2>1, <2>3 DEF UpdateClient, Private, Registered
  <2>4. CASE UndoClient(o) \/ RetireClient(o)
    BY <1>1, <2>1, <2>4
    DEF UndoClient, RetireClient, Delete, Private, Registered
  <2> QED
    BY <2>2, <2>3, <2>4, DeployMoves, UpdateMoves, ExposeMoves, CleanupMoves,
       StartMoves DEF Handle, FindIngressHosts, UpdateStatus
<1> QED
  BY <1>2, <1>3, <1>4 DEF RedirectInv

\* The call itself: only FindIngressHosts leads to UpdateClient, and only that
\* to the calls after it.
LEMMA RedirectHere ==
  ASSUME Benign, TypeInv, PrivateInv, NamesInv, RedirectInv,
         NEW o \in Operators, Handle(o)
  PROVE  /\ pc'[o] = "UpdateClient" => redirect'[o] = key'[o]
         /\ pc'[o] \in Redirected => dex'[client'[o]] = key'[o]
<1>1. /\ pc \in [Operators -> Labels] /\ redirect \in [Operators -> Redirects]
      /\ dex \in [ClientIds -> Redirects \cup {None}]
  BY DEF TypeInv, TypeOK
<1>2. CASE FindIngressHosts(o)
  <2>1. /\ key[o] \in SSOs /\ app[o] \in getAppName(key[o]) /\ app[o] \in Apps
        /\ ingress[app[o]] \in SSOs \cup {None}
    BY <1>2, Known DEF FindIngressHosts, InitOnly, InFlight, TypeOK
  <2>2. ingress[app[o]] \in {None, key[o]}
    BY <2>1 DEF NamesInv, Benign
  <2>3. pc'[o] \in {"UpdateClient", "UndoClient"} /\ key' = key
    BY <1>1, <1>2 DEF FindIngressHosts, Reply, Refused, Goto, eventVars
  <2>4. pc'[o] = "UpdateClient" => redirect'[o] = key[o]
    BY <1>1, <1>2, <2>2 DEF FindIngressHosts, Reply, Refused, Goto
  <2> QED
    BY <2>3, <2>4 DEF Redirected
<1>3. CASE UpdateClient(o)
  <2>1. /\ Private(o) /\ client[o] \in ClientIds /\ redirect[o] = key[o]
        /\ UNCHANGED <<key, client>>
    BY <1>3, RedirectedHolds
    DEF UpdateClient, RedirectInv, eventVars, localVars
  <2>2. pc'[o] \in {"UpdateSecret", "UndoClient"}
    BY <1>1, <1>3 DEF UpdateClient, Answered, Reply, Refused, Goto
  <2>3. pc'[o] = "UpdateSecret" => dex'[client[o]] = redirect[o]
    BY <1>1, <1>3, <2>1
    DEF UpdateClient, Answered, Reply, Refused, Goto, Private
  <2> QED
    BY <2>1, <2>2, <2>3 DEF Redirected
<1>4. CASE Update(o)
  <2>1. pc[o] \in Redirected /\ UNCHANGED <<key, client, dex>>
    BY <1>4 DEF Update, UpdateSecret, UpdateDeployment, Redirected,
       WaitForPodsWithLabelRunning, eventVars, localVars
  <2>2. pc'[o] \in Redirected \cup {"UndoClient"}
    BY <1>1, <1>4 DEF Update, UpdateSecret, UpdateDeployment, Redirected,
       WaitForPodsWithLabelRunning, Answered, Reply, Refused, Goto
  <2> QED
    BY <2>1, <2>2 DEF RedirectInv, Redirected
<1>5. CASE Deploy(o)
  BY <1>1, <1>5 DEF Deploy, CreateSecret, CreateDeployment, CreateService,
     WaitForService, WaitForPodsWithLabelRunning, AfterDeploy, Answered,
     Reply, Refused, Goto, Redirected
<1>6. CASE ExposeSSO(o) \/ CleanupSSO(o)
  BY <1>1, <1>6 DEF ExposeSSO, CleanupSSO, RunsJob, CreateConfigMap,
     CleanupConfigMap, CreateJob, DeleteStaleJob, WaitForJobComplete,
     DeleteJob, DeleteConfigMap, OnError, Answered, Reply, Refused, Goto,
     Redirected
<1>7. CASE \/ EnsureClusterRoleBinding(o) \/ IsSSOInitialized(o)
           \/ CreateClient(o) \/ UpdateStatus(o)
           \/ UndoClient(o) \/ RetireClient(o)
  BY <1>1, <1>7 DEF EnsureClusterRoleBinding, IsSSOInitialized, CreateClient,
     UpdateStatus, UndoClient, RetireClient, Delete, Answered, Reply,
     Refused, Goto, Redirected
<1> QED
  BY <1>2, <1>3, <1>4, <1>5, <1>6, <1>7 DEF Handle

LEMMA RedirectStep ==
  ASSUME Benign, TypeInv, PrivateInv, NamesInv, RedirectInv, [Next]_vars
  PROVE  RedirectInv'
<1>1. ASSUME NEW o \in Operators, Handle(o) PROVE RedirectInv'
  BY <1>1, RedirectElsewhere, RedirectHere DEF RedirectInv
<1>2. ASSUME UNCHANGED <<handlerVars, dex>> PROVE RedirectInv'
  BY <1>2 DEF RedirectInv, handlerVars
<1>3. ASSUME NEW o \in Operators,
             Return(o) \/ Restart(o) \/ \E s \in SSOs : Begin(o, s)
      PROVE  RedirectInv'
  <2>1. /\ pc \in [Operators -> Labels] /\ client \in [Operators -> MaybeId]
        /\ redirect \in [Operators -> Redirects]
        /\ key \in [Operators -> SSOs \cup {None}]
    BY DEF TypeInv, TypeOK
  <2>2. /\ dex' = dex /\ pc'[o] \in {"idle", "EnsureClusterRoleBinding"}
        /\ \A p \in Operators \ {o} :
             /\ pc'[p] = pc[p] /\ client'[p] = client[p]
             /\ redirect'[p] = redirect[p] /\ key'[p] = key[p]
    BY <1>3, <2>1 DEF Return, Restart, Begin, Goto, localVars
  <2> QED
    BY <2>2 DEF RedirectInv, Redirected
<1>4. CASE UNCHANGED vars
  BY <1>2, <1>4 DEF vars
<1> QED
  BY <1>1, <1>2, <1>3, <1>4, OtherSteps DEF Next, Crash, Panic

----------------------------------------------------------------------------
(* Every step is a step of the abstract specification, or invisible there *)

Simulated == [Lifecycle!Next]_(Lifecycle!vars)

LEMMA Invisible ==
  ASSUME UNCHANGED <<sso, dex>> PROVE Simulated
BY DEF Simulated, Lifecycle!vars, Live, Published

LEMMA InitSimulated == Init => Lifecycle!Init
BY DEF Init, Lifecycle!Init, Live, Published, NoSSO

LEMMA UserSimulated ==
  ASSUME TypeInv, NEW s \in SSOs, User(s)
  PROVE  Simulated
<1>1. sso \in [SSOs -> SSOObject] /\ dex' = dex
  BY OtherSteps DEF TypeInv, TypeOK
<1>2. CASE CreateSSO(s)
  <2>1. /\ s \notin Live /\ Live' = Live \cup {s}
        /\ Published' = [Published EXCEPT ![s] = None]
    BY <1>1, <1>2 DEF CreateSSO, Live, Published
  <2>2. Lifecycle!Create(s)
    BY <1>1, <2>1 DEF Lifecycle!Create
  <2> QED
    BY <2>2 DEF Simulated, Lifecycle!Next
<1>3. CASE DeleteSSO(s)
  <2>1. s \in Live /\ Live' = Live \ {s} /\ Published' = Published
    BY <1>1, <1>3 DEF DeleteSSO, Live, Published
  <2>2. Lifecycle!Remove(s)
    BY <1>1, <2>1 DEF Lifecycle!Remove
  <2> QED
    BY <2>2 DEF Simulated, Lifecycle!Next
<1>4. CASE EditSSO(s)
  <2>1. \A t \in SSOs : /\ sso'[t].live = sso[t].live
                        /\ sso'[t].clientID = sso[t].clientID
    BY <1>1, <1>4 DEF EditSSO, SSOObject
  <2>2. Live' = Live /\ Published' = Published
    BY <2>1 DEF Live, Published
  <2> QED
    BY <1>1, <2>2 DEF Simulated, Lifecycle!vars
<1>5. CASE CreateIngress(s)
  BY <1>1, <1>5, Invisible DEF CreateIngress
<1> QED
  BY <1>2, <1>3, <1>4, <1>5 DEF User

LEMMA CreateClientSimulated ==
  ASSUME TypeInv, NEW o \in Operators, CreateClient(o)
  PROVE  Simulated
<1>1. sso' = sso /\ Live' = Live /\ Published' = Published
  BY DEF CreateClient, Live, Published
<1>2. ASSUME NEW c \in NewId, dex' = [dex EXCEPT ![c] = FakeURL]
      PROVE  Simulated
  <2>1. c \in ClientIds /\ dex[c] = None /\ \A s \in SSOs : Published[s] # c
    BY <1>2 DEF NewId, Unused, Named, Registered, Published
  <2>2. Lifecycle!Register(c)
    BY <1>1, <1>2, <2>1 DEF Lifecycle!Register
  <2> QED
    BY <2>1, <2>2 DEF Simulated, Lifecycle!Next
<1>3. CASE dex' = dex
  BY <1>1, <1>3, Invisible
<1> QED
  BY <1>2, <1>3 DEF CreateClient

LEMMA UpdateClientSimulated ==
  ASSUME TypeInv, PrivateInv, RedirectInv, NEW o \in Operators,
         UpdateClient(o)
  PROVE  Simulated
<1>1. sso' = sso /\ Live' = Live /\ Published' = Published
  BY DEF UpdateClient, Live, Published
<1>2. /\ Private(o) /\ client[o] \in ClientIds /\ key[o] \in SSOs
      /\ redirect[o] = key[o]
  BY RedirectedHolds DEF UpdateClient, RedirectInv
<1>3. CASE dex' = dex
  BY <1>1, <1>3, Invisible
<1>4. CASE dex' = [dex EXCEPT ![client[o]] = key[o]]
  <2>1. dex[client[o]] # None /\ \A s \in SSOs : Published[s] # client[o]
    BY <1>2 DEF Private, Registered, Published
  <2>2. Lifecycle!Redirect(client[o], key[o])
    BY <1>1, <1>4, <2>1 DEF Lifecycle!Redirect
  <2> QED
    BY <1>2, <2>2 DEF Simulated, Lifecycle!Next
<1> QED
  BY <1>2, <1>3, <1>4 DEF UpdateClient

LEMMA DeleteSimulated ==
  ASSUME TypeInv, FateInv, NEW o \in Operators,
         UndoClient(o) \/ RetireClient(o)
  PROVE  Simulated
<1>1. sso' = sso /\ Live' = Live /\ Published' = Published
  BY DEF UndoClient, RetireClient, Delete, Live, Published
<1>2. CASE dex' = dex
  BY <1>1, <1>2, Invisible
<1>3. ASSUME NEW c, Registered(c), dex' = [dex EXCEPT ![c] = None],
             \A s \in SSOs : sso[s].live => sso[s].clientID # c
      PROVE  Simulated
  <2>1. /\ c \in ClientIds /\ dex[c] # None
        /\ \A s \in Live : Published[s] # c
    BY <1>3 DEF Registered, Live, Published
  <2>2. Lifecycle!Unregister(c)
    BY <1>1, <1>3, <2>1 DEF Lifecycle!Unregister
  <2> QED
    BY <2>1, <2>2 DEF Simulated, Lifecycle!Next
<1>4. CASE UndoClient(o)
  <2>1. \A s \in SSOs : sso[s].clientID # client[o]
    BY <1>4 DEF UndoClient, Delete, FateInv
  <2> QED
    BY <1>2, <1>3, <1>4, <2>1 DEF UndoClient, Delete
<1>5. CASE RetireClient(o)
  <2>1. ~obj[o].live /\ Retired(obj[o])
    BY <1>5 DEF RetireClient, Delete, FateInv
  <2>2. Registered(obj[o].clientID) =>
          \A s \in SSOs : sso[s].live => sso[s].clientID # obj[o].clientID
    BY <2>1, ConstantsAssumption DEF Retired, Registered
  <2> QED
    BY <1>2, <1>3, <1>5, <2>2 DEF RetireClient, Delete
<1> QED
  BY <1>4, <1>5

LEMMA UpdateStatusSimulated ==
  ASSUME TypeInv, PrivateInv, VersionInv, FateInv, RedirectInv,
         NEW o \in Operators, UpdateStatus(o)
  PROVE  Simulated
<1>1. /\ sso \in [SSOs -> SSOObject] /\ dex' = dex
      /\ pc[o] = "UpdateStatus" /\ Kind(o) = "expose"
  BY DEF UpdateStatus, TypeInv, TypeOK, PathOK, InitOnly
<1>2. /\ Private(o) /\ client[o] \in ClientIds /\ key[o] \in SSOs
      /\ dex[client[o]] = key[o]
  BY <1>1, RedirectedHolds DEF Redirected, RedirectInv
<1>3. CASE sso' = sso
  BY <1>1, <1>3, Invisible
<1>4. CASE sso' # sso
  <2>1. ~StatusConflict(o)
    BY <1>4 DEF UpdateStatus
  <2>2. sso[key[o]].live /\ sso[key[o]].clientID = None
    BY <1>1, <1>2, <2>1
    DEF VersionInv, Deciding, InFlight, FateInv, StatusConflict
  <2>3. sso' = [sso EXCEPT ![key[o]] =
                  [live |-> TRUE, uid |-> @.uid, rv |-> @.rv + 1,
                   initialized |-> TRUE, clientID |-> client[o]]]
    BY <1>4 DEF UpdateStatus
  <2>4. Live' = Live /\ Published' = [Published EXCEPT ![key[o]] = client[o]]
    BY <1>1, <1>2, <2>2, <2>3 DEF Live, Published
  <2>5. Lifecycle!Publish(key[o], client[o])
    BY <1>1, <1>2, <2>2, <2>4
    DEF Lifecycle!Publish, Live, Published, Private
  <2> QED
    BY <1>2, <2>5 DEF Simulated, Lifecycle!Next
<1> QED
  BY <1>3, <1>4

LEMMA SimulationStep ==
  ASSUME TypeInv, PrivateInv, VersionInv, FateInv, RedirectInv, [Next]_vars
  PROVE  Simulated
<1>1. ASSUME NEW o \in Operators, Handle(o) PROVE Simulated
  <2>1. CASE \/ Deploy(o) \/ Update(o) \/ ExposeSSO(o) \/ CleanupSSO(o)
             \/ EnsureClusterRoleBinding(o) \/ IsSSOInitialized(o)
             \/ FindIngressHosts(o)
    BY <2>1, DeployMoves, UpdateMoves, ExposeMoves, CleanupMoves, StartMoves,
       Invisible DEF FindIngressHosts
  <2> QED
    BY <1>1, <2>1, CreateClientSimulated, UpdateClientSimulated,
       DeleteSimulated, UpdateStatusSimulated DEF Handle
<1>2. ASSUME NEW o \in Operators,
             \/ Return(o) \/ Restart(o)
             \/ \E s \in SSOs : Observe(o, s) \/ Begin(o, s)
      PROVE  Simulated
  BY <1>2, Invisible DEF Return, Restart, Observe, Begin
<1>3. ASSUME NEW s \in SSOs, Controllers(s) PROVE Simulated
  BY <1>3, ControllersKeep, OtherSteps, Invisible
<1>4. CASE UNCHANGED vars
  BY <1>4, Invisible DEF vars
<1> QED
  BY <1>1, <1>2, <1>3, <1>4, UserSimulated DEF Next, Crash, Panic

\* Every behaviour of the operators, of the users and of the cluster is a
\* behaviour of SSOLifecycle: a client is published in one status, once, with
\* the SSO's own host, and dex keeps it as long as the SSO exists.  It holds
\* for any number of overlapping operators, crashes, panics, refused calls
\* and lost replies, under the three conditions of Benign.
THEOREM OperatorImplementsLifecycle ==
  ASSUME Benign
  PROVE  Spec => RefinesLifecycle
<1> DEFINE Inv == /\ TypeInv /\ PrivateInv /\ VersionInv
                  /\ FateInv /\ NamesInv /\ RedirectInv
<1>1. Init => Inv
  BY InitType, InitPrivate, InitVersion, InitFate, InitNames, InitRedirect
<1>2. Inv /\ [Next]_vars => Inv'
  <2> SUFFICES ASSUME Inv, [Next]_vars PROVE Inv'
    OBVIOUS
  <2>1. TypeInv' /\ PrivateInv' /\ VersionInv'
    BY TypeStep, HandlePrivate, OtherPrivate, VersionStep DEF Benign
  <2>2. FateInv' /\ NamesInv' /\ RedirectInv'
    BY FateStep, NamesStep, RedirectStep
  <2> QED
    BY <2>1, <2>2
<1>3. Inv /\ [Next]_vars => Simulated
  BY SimulationStep
<1> QED
  BY <1>1, <1>2, <1>3, InitSimulated, PTL
  DEF Spec, RefinesLifecycle, Simulated, Lifecycle!Spec

----------------------------------------------------------------------------
(* What the abstract specification says of the operators *)

\* Its variables are of their types and clients keep the host they have.
LifecycleInv ==
  /\ Live \subseteq SSOs
  /\ Published \in [SSOs -> ClientIds \cup {None}]
  /\ dex \in [ClientIds -> SSOs \cup {FakeURL, None}]
  /\ Lifecycle!OwnRedirect

LEMMA LifecycleStarts == Lifecycle!Init => LifecycleInv
BY DEF Lifecycle!Init, LifecycleInv, Lifecycle!OwnRedirect

LEMMA LifecycleStep ==
  LifecycleInv /\ [Lifecycle!Next]_(Lifecycle!vars) => LifecycleInv'
<1> SUFFICES ASSUME LifecycleInv, [Lifecycle!Next]_(Lifecycle!vars)
             PROVE  LifecycleInv'
  OBVIOUS
<1>1. CASE UNCHANGED Lifecycle!vars
  BY <1>1 DEF Lifecycle!vars, LifecycleInv, Lifecycle!OwnRedirect
<1>2. ASSUME NEW s \in SSOs, Lifecycle!Create(s) PROVE LifecycleInv'
  BY <1>2 DEF Lifecycle!Create, LifecycleInv, Lifecycle!OwnRedirect
<1>3. ASSUME NEW s \in SSOs, Lifecycle!Remove(s) PROVE LifecycleInv'
  BY <1>3 DEF Lifecycle!Remove, LifecycleInv, Lifecycle!OwnRedirect
<1>4. ASSUME NEW c \in ClientIds, Lifecycle!Register(c) PROVE LifecycleInv'
  BY <1>4 DEF Lifecycle!Register, LifecycleInv, Lifecycle!OwnRedirect
<1>5. ASSUME NEW c \in ClientIds, Lifecycle!Unregister(c) PROVE LifecycleInv'
  BY <1>5 DEF Lifecycle!Unregister, LifecycleInv, Lifecycle!OwnRedirect
<1>6. ASSUME NEW s \in SSOs, NEW c \in ClientIds, Lifecycle!Redirect(c, s)
      PROVE  LifecycleInv'
  BY <1>6 DEF Lifecycle!Redirect, LifecycleInv, Lifecycle!OwnRedirect
<1>7. ASSUME NEW s \in SSOs, NEW c \in ClientIds, Lifecycle!Publish(s, c)
      PROVE  LifecycleInv'
  BY <1>7 DEF Lifecycle!Publish, LifecycleInv, Lifecycle!OwnRedirect
<1> QED
  BY <1>1, <1>2, <1>3, <1>4, <1>5, <1>6, <1>7 DEF Lifecycle!Next

\* As long as an SSO exists, dex has the client that its status names, with the
\* SSO's own host: this half of what the status promises survives any number
\* of operators at work on one SSO, any number of re-creations and any crash.
\* The operator inherits it from the specification it implements.
THEOREM PublishedClientIsRedirected ==
  ASSUME Benign
  PROVE  Spec => []Lifecycle!OwnRedirect
<1>1. Lifecycle!Spec => []LifecycleInv
  BY LifecycleStarts, LifecycleStep, PTL DEF Lifecycle!Spec
<1>2. LifecycleInv => Lifecycle!OwnRedirect
  BY DEF LifecycleInv
<1>3. Spec => Lifecycle!Spec
  BY OperatorImplementsLifecycle DEF RefinesLifecycle
<1> QED
  BY <1>1, <1>2, <1>3, PTL
=============================================================================
