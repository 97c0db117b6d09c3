-------------------------- MODULE ConfiguredProofs --------------------------
(***************************************************************************)
(* What status.initialized says of the rest of the cluster, for any number *)
(* of SSOs, client ids, faults and retries: the proxy can be reached       *)
(* (InitializedIsReachable, for any number of operators), and dex and the  *)
(* proxy are configured with the client it names (InitializedIsConfigured, *)
(* for one operator: two may overwrite each other's secret).  And whom the *)
(* objects of a proxy belong to (ProxyIsOwned).                            *)
(***************************************************************************)
EXTENDS SSORefinementProofs, TracedProofs

\* The conditions: the app names of different SSOs are different, an SSO has
\* only one, and none is created again under the name of a deleted one, whose
\* objects it would take for its own.
AppsApart ==
  \A s, t \in SSOs : s # t => getAppName(s) \cap getAppName(t) = {}
OneAppEach == \A s \in SSOs : \A a, b \in getAppName(s) : a = b
NeverRecreated == MaxUid <= 1

\* There is one operator process.
Lone == \A o, p \in Operators : o = p

\* The SSO was created, and deleted.
Dead(s) == ~sso[s].live /\ sso[s].uid > 0

\* Every uid in the cluster, in a copy or in an owner reference, is that of
\* the one incarnation an SSO has; so the garbage collector spares what
\* belongs to an SSO that exists.
OwnerInv ==
  /\ \A s \in SSOs :
       /\ sso[s].uid <= 1
       /\ secret[s] # None => secret[s].owner <= 1
       /\ deployment[s] # None => deployment[s].owner <= 1
       /\ service[s] # None => service[s].owner <= 1
  /\ \A o \in Operators : obj[o].uid <= 1
  /\ \A o \in Operators, s \in SSOs : cache[o][s].uid <= 1

\* An operator only works on SSOs that were created, cleans up only after
\* deleted ones, and so do the jobs and the stray pods it leaves.
DeadInv ==
  /\ \A o \in Operators, s \in SSOs :
       /\ cache[o][s].live \/ tries[o][s] > 0 => sso[s].uid > 0
       /\ ~cache[o][s].live /\ cache[o][s].initialized => Dead(s)
  /\ \A o \in Operators :
       pc[o] # "idle" =>
         /\ sso[key[o]].uid > 0
         /\ Kind(o) = "cleanup" => Dead(key[o])
  /\ \A s \in SSOs :
       job[s]["cleanup"] # None \/ "cleanup" \in stray[s] => Dead(s)

\* What a Handle call has found or made stays as long as its SSO exists.
PastDeployment == InFlight \ {"CreateSecret", "CreateDeployment"}
PastService    == PastDeployment \ {"CreateService"}
PastIngress    == {"UpdateClient"} \cup Redirected
Progress(o) ==
  /\ pc[o] \in PastDeployment => deployment[key[o]] # None
  /\ pc[o] \in PastService => service[key[o]] # None
  /\ pc[o] \in PastIngress => ingress[app[o]] = key[o]
ProgressInv ==
  \A o \in Operators : HoldsClient(o) /\ sso[key[o]].live => Progress(o)

\* The deployment of an SSO carries an app name of that SSO.
LabelInv ==
  \A s \in SSOs : deployment[s] # None => deployment[s].app \in getAppName(s)

\* One operator: a Handle call that writes the secret and the deployment works
\* on an SSO that is not initialised, and what it has written stays.
Outcome(o) == [client |-> client[o], redirect |-> key[o]]
WrittenSecret == {"UpdateDeployment", "WaitForRollout", "UpdateStatus"}
RolledOut     == {"WaitForRollout", "UpdateStatus"}
LoneInv ==
  \A o \in Operators :
    /\ pc[o] \in Deciding /\ Kind(o) = "expose" =>
         ~(sso[key[o]].live /\ sso[key[o]].initialized)
    /\ pc[o] \in PastIngress => redirect[o] = key[o]
    /\ pc[o] \in WrittenSecret /\ sso[key[o]].live =>
         secret[key[o]] # None /\ secret[key[o]].config = Outcome(o)
    /\ pc[o] \in RolledOut /\ sso[key[o]].live =>
         deployment[key[o]] # None /\ deployment[key[o]].version = Outcome(o)

----------------------------------------------------------------------------
(* What the steps do to an SSO *)

\* An SSO that was created stays so; if it exists after the step it existed
\* before.
LEMMA CreatedKept ==
  ASSUME NeverRecreated, TypeInv, [Next]_vars, NEW s \in SSOs, sso[s].uid > 0
  PROVE  /\ sso'[s].uid > 0
         /\ sso'[s].live => sso[s].live
<1>1. \A t \in SSOs : sso[t].uid \in Nat
  BY DEF TypeInv, TypeOK, SSOObject
<1>2. CASE sso' = sso
  BY <1>2
<1>3. ASSUME NEW o \in Operators, UpdateStatus(o), sso' # sso
      PROVE  sso'[s].uid = sso[s].uid /\ (sso'[s].live => sso[s].live)
  BY <1>3, StatusUpdate
<1>4. ASSUME NEW t \in SSOs, CreateSSO(t) PROVE sso'[s] = sso[s]
  <2>1. sso[t].uid < MaxUid /\ \A u \in SSOs \ {t} : sso'[u] = sso[u]
    BY <1>4, UserCreates
  <2>2. sso[t].uid = 0
    BY <1>1, <2>1, ConstantsAssumption DEF NeverRecreated
  <2> QED
    BY <2>1, <2>2
<1>5. ASSUME NEW t \in SSOs, EditSSO(t) \/ DeleteSSO(t)
      PROVE  sso'[s].uid = sso[s].uid /\ (sso'[s].live => sso[s].live)
  BY <1>5, UserKeeps
<1> QED
  BY <1>2, <1>3, <1>4, <1>5, SSOSteps

LEMMA DeadKept ==
  ASSUME NeverRecreated, TypeInv, [Next]_vars, NEW s \in SSOs, Dead(s)
  PROVE  Dead(s)'
BY CreatedKept DEF Dead

\* An SSO whose status says initialised after the step had one that did
\* before, or a Handle call has just published it.
LEMMA InitializedBefore ==
  ASSUME TypeInv, [Next]_vars, NEW s \in SSOs,
         sso'[s].live, sso'[s].initialized
  PROVE  \/ /\ sso[s].live /\ sso[s].initialized
            /\ sso'[s].clientID = sso[s].clientID
         \/ \E o \in Operators :
              /\ UpdateStatus(o) /\ key[o] = s /\ sso[s].live
              /\ sso[s].rv = obj[o].rv /\ sso'[s].clientID = client[o]
<1>1. CASE sso' = sso
  BY <1>1
<1>2. ASSUME NEW o \in Operators, UpdateStatus(o), sso' # sso
      PROVE  \/ sso'[s] = sso[s]
             \/ /\ key[o] = s /\ sso[s].live
                /\ sso[s].rv = obj[o].rv /\ sso'[s].clientID = client[o]
  BY <1>2, StatusUpdate
<1>3. ASSUME NEW t \in SSOs, CreateSSO(t) PROVE sso'[s] = sso[s]
  BY <1>3, UserCreates
<1>4. ASSUME NEW t \in SSOs, EditSSO(t) \/ DeleteSSO(t)
      PROVE  /\ sso[s].live /\ sso[s].initialized
             /\ sso'[s].clientID = sso[s].clientID
  BY <1>4, UserKeeps
<1> QED
  BY <1>1, <1>2, <1>3, <1>4, SSOSteps

----------------------------------------------------------------------------
(* What the steps do to the objects of the proxy *)

LEMMA ProxySteps ==
  ASSUME TypeInv, [Next]_vars
  PROVE  \/ UNCHANGED <<secret, deployment, service>>
         \/ \E o \in Operators :
              \/ CreateSecret(o) \/ UpdateSecret(o)
              \/ CreateDeployment(o) \/ UpdateDeployment(o)
              \/ CreateService(o)
         \/ \E s \in SSOs : Collect(s)
<1>1. ASSUME NEW o \in Operators, Handle(o),
             ~CreateSecret(o), ~UpdateSecret(o), ~CreateDeployment(o),
             ~UpdateDeployment(o), ~CreateService(o)
      PROVE  UNCHANGED <<secret, deployment, service>>
  <2>1. CASE Deploy(o) \/ Update(o)
    BY <1>1, <2>1 DEF Deploy, Update, WaitForService,
       WaitForPodsWithLabelRunning, proxyVars
  <2>2. CASE ExposeSSO(o) \/ CleanupSSO(o)
    BY <2>2 DEF ExposeSSO, CleanupSSO, RunsJob, CreateConfigMap,
       CleanupConfigMap, CreateJob, DeleteStaleJob, WaitForJobComplete,
       DeleteJob, DeleteConfigMap, proxyVars
  <2>3. CASE ~(Deploy(o) \/ Update(o) \/ ExposeSSO(o) \/ CleanupSSO(o))
    BY <1>1, <2>3 DEF Handle, EnsureClusterRoleBinding, IsSSOInitialized,
       CreateClient, FindIngressHosts, UpdateClient, UpdateStatus,
       UndoClient, RetireClient, Delete, proxyVars
  <2> QED
    BY <2>1, <2>2, <2>3
<1>2. ASSUME NEW s \in SSOs, User(s) \/ Controllers(s), ~Collect(s)
      PROVE  UNCHANGED <<secret, deployment, service>>
  BY <1>2 DEF User, CreateSSO, EditSSO, DeleteSSO, CreateIngress,
     Controllers, StartPod, StopPod, ExposeJobRuns, CleanupJobRuns, JobFails,
     proxyVars
<1>3. ASSUME NEW o \in Operators,
             \/ Return(o) \/ Restart(o)
             \/ \E s \in SSOs : Observe(o, s) \/ Begin(o, s)
      PROVE  UNCHANGED <<secret, deployment, service>>
  BY <1>3 DEF Return, Restart, Observe, Begin, proxyVars
<1>4. CASE UNCHANGED vars
  BY <1>4 DEF vars, proxyVars
<1> QED
  BY <1>1, <1>2, <1>3, <1>4 DEF Next, Crash, Panic

\* The garbage collector does not touch what belongs to an SSO that exists.
LEMMA Spared ==
  ASSUME TypeInv, CreatedInv, OwnerInv, NEW s \in SSOs, Collect(s),
         NEW t \in SSOs, sso[t].live
  PROVE  /\ secret'[t] = secret[t] /\ deployment'[t] = deployment[t]
         /\ service'[t] = service[t]
<1>1. /\ secret \in [SSOs -> Secret \cup {None}]
      /\ deployment \in [SSOs -> Deployment \cup {None}]
      /\ service \in [SSOs -> Service \cup {None}]
  BY DEF TypeInv, TypeOK
<1>2. CASE s # t
  BY <1>1, <1>2 DEF Collect
<1>3. CASE s = t
  <2>1. sso[s].uid = 1
    <3>1. sso[s].uid \in Nat /\ sso[s].uid > 0 /\ sso[s].uid <= 1
      BY <1>3 DEF TypeInv, TypeOK, SSOObject, CreatedInv, OwnerInv
    <3> QED
      BY <3>1
  <2>2. \A n \in Nat : n <= 1 => ~OwnerGone(s, n)
    BY <1>3, <2>1 DEF OwnerGone, NoOwner
  <2>3. /\ secret[s] # None => ~OwnerGone(s, secret[s].owner)
        /\ deployment[s] # None => ~OwnerGone(s, deployment[s].owner)
        /\ service[s] # None => ~OwnerGone(s, service[s].owner)
    BY <1>1, <2>2 DEF OwnerInv, Secret, Deployment, Service
  <2> QED
    BY <1>3, <2>3 DEF Collect
<1> QED
  BY <1>2, <1>3

\* Nothing of an existing SSO's proxy goes, and its app name is kept.
LEMMA ObjectsKept ==
  ASSUME TypeInv, CreatedInv, OwnerInv, [Next]_vars, NEW s \in SSOs,
         sso[s].live
  PROVE  /\ secret[s] # None => secret'[s] # None
         /\ deployment[s] # None =>
              deployment'[s] # None /\ deployment'[s].app = deployment[s].app
         /\ service[s] # None => service'[s] = service[s]
<1>1. /\ secret \in [SSOs -> Secret \cup {None}]
      /\ deployment \in [SSOs -> Deployment \cup {None}]
      /\ service \in [SSOs -> Service \cup {None}]
  BY DEF TypeInv, TypeOK
<1>2. CASE UNCHANGED <<secret, deployment, service>>
  BY <1>2
<1>3. ASSUME NEW o \in Operators, CreateSecret(o) \/ UpdateSecret(o)
      PROVE  /\ secret[s] # None => secret'[s] # None
             /\ deployment' = deployment /\ service' = service
  <2>1. key[o] \in SSOs /\ proxyConfig(o) \in Config /\ obj[o].uid \in Nat
    BY <1>3, Known DEF CreateSecret, UpdateSecret, InitOnly, InFlight
  <2>2. [config |-> proxyConfig(o), owner |-> obj[o].uid] \in Secret
    BY <2>1 DEF Secret
  <2> QED
    BY <1>1, <1>3, <2>1, <2>2, AbsentAssumption DEF CreateSecret, UpdateSecret
<1>4. ASSUME NEW o \in Operators, CreateDeployment(o)
      PROVE  /\ deployment[s] # None => deployment'[s] = deployment[s]
             /\ secret' = secret /\ service' = service
  BY <1>1, <1>4 DEF CreateDeployment
<1>5. ASSUME NEW o \in Operators, UpdateDeployment(o)
      PROVE  /\ deployment[s] # None =>
                  /\ deployment'[s] # None
                  /\ deployment'[s].app = deployment[s].app
             /\ secret' = secret /\ service' = service
  <2>1. deployment' \in [SSOs -> Deployment \cup {None}]
    BY <1>5, UpdateDeploymentType DEF TypeOK
  <2>2. deployment[s] # None => deployment[s] \in Deployment
    BY <1>1
  <2>3. \/ deployment'[s] = deployment[s]
        \/ deployment'[s] = [deployment[s] EXCEPT !.version = proxyConfig(o)]
    BY <1>1, <1>5 DEF UpdateDeployment
  <2>4. proxyConfig(o) \in Config
    BY <1>5, Known DEF UpdateDeployment, InitOnly, InFlight
  <2>5. deployment[s] # None =>
          /\ [deployment[s] EXCEPT !.version = proxyConfig(o)] \in Deployment
          /\ [deployment[s] EXCEPT !.version = proxyConfig(o)].app
               = deployment[s].app
    BY <2>2, <2>4 DEF Deployment
  <2> QED
    BY <1>5, <2>3, <2>5, AbsentAssumption DEF UpdateDeployment
<1>6. ASSUME NEW o \in Operators, CreateService(o)
      PROVE  /\ service[s] # None => service'[s] = service[s]
             /\ secret' = secret /\ deployment' = deployment
  BY <1>1, <1>6 DEF CreateService
<1>7. ASSUME NEW t \in SSOs, Collect(t)
      PROVE  /\ secret'[s] = secret[s] /\ deployment'[s] = deployment[s]
             /\ service'[s] = service[s]
  BY <1>7, Spared
<1> QED
  BY <1>2, <1>3, <1>4, <1>5, <1>6, <1>7, ProxySteps

----------------------------------------------------------------------------
(* One incarnation of every SSO *)

LEMMA InitOwner == Init => OwnerInv
BY DEF Init, OwnerInv, NoSSO

LEMMA UidStep ==
  ASSUME NeverRecreated, TypeInv, OwnerInv, [Next]_vars, NEW s \in SSOs
  PROVE  sso'[s].uid <= 1
<1>1. /\ sso[s].uid \in Nat /\ MaxUid \in Nat /\ MaxUid <= 1
      /\ sso[s].uid <= 1
  BY ConstantsAssumption
  DEF TypeInv, TypeOK, SSOObject, NeverRecreated, OwnerInv
<1>2. ASSUME NEW o \in Operators, UpdateStatus(o), sso' # sso
      PROVE  sso'[s].uid = sso[s].uid
  BY <1>2, StatusUpdate
<1>3. ASSUME NEW t \in SSOs, CreateSSO(t) PROVE sso'[s].uid <= 1
  <2>1. CASE s # t
    BY <1>1, <1>3, <2>1, UserCreates
  <2>2. CASE s = t
    <3>1. sso[s].uid < MaxUid /\ sso'[s].uid = sso[s].uid + 1
      BY <1>3, <2>2, UserCreates
    <3> QED
      BY <1>1, <3>1
  <2> QED
    BY <2>1, <2>2
<1>4. ASSUME NEW t \in SSOs, EditSSO(t) \/ DeleteSSO(t)
      PROVE  sso'[s].uid = sso[s].uid
  BY <1>4, UserKeeps
<1> QED
  BY <1>1, <1>2, <1>3, <1>4, SSOSteps

\* Where the owner of an object comes from: it is kept, or a Handle call for the
\* SSO has written it.
Writes(o, s, uid) == pc[o] # "idle" /\ key[o] = s /\ uid = obj[o].uid
Kept(s, object, uid) ==
  \/ object # None /\ uid = object.owner
  \/ \E o \in Operators : Writes(o, s, uid)

LEMMA OwnerSteps ==
  ASSUME TypeInv, [Next]_vars, NEW s \in SSOs
  PROVE  /\ secret'[s] # None => Kept(s, secret[s], secret'[s].owner)
         /\ deployment'[s] # None =>
              Kept(s, deployment[s], deployment'[s].owner)
         /\ service'[s] # None => Kept(s, service[s], service'[s].owner)
<1>1. /\ secret \in [SSOs -> Secret \cup {None}]
      /\ deployment \in [SSOs -> Deployment \cup {None}]
      /\ service \in [SSOs -> Service \cup {None}]
  BY DEF TypeInv, TypeOK
<1>2. ASSUME NEW o \in Operators, CreateSecret(o) \/ UpdateSecret(o)
      PROVE  /\ \/ secret'[s] = secret[s]
                \/ Writes(o, s, secret'[s].owner)
             /\ deployment' = deployment /\ service' = service
  BY <1>1, <1>2 DEF CreateSecret, UpdateSecret, Writes
<1>3. ASSUME NEW o \in Operators, CreateDeployment(o)
      PROVE  /\ \/ deployment'[s] = deployment[s]
                \/ Writes(o, s, deployment'[s].owner)
             /\ secret' = secret /\ service' = service
  BY <1>1, <1>3 DEF CreateDeployment, Writes
<1>4. ASSUME NEW o \in Operators, UpdateDeployment(o)
      PROVE  /\ \/ deployment'[s] = deployment[s]
                \/ /\ deployment[s] # None
                   /\ deployment'[s].owner = deployment[s].owner
             /\ secret' = secret /\ service' = service
  <2>1. deployment[s] # None => deployment[s] \in Deployment
    BY <1>1
  <2>2. \/ deployment'[s] = deployment[s]
        \/ /\ deployment[s] # None
           /\ deployment'[s] = [deployment[s] EXCEPT !.version = proxyConfig(o)]
    BY <1>1, <1>4 DEF UpdateDeployment
  <2>3. deployment[s] # None =>
          [deployment[s] EXCEPT !.version = proxyConfig(o)].owner
            = deployment[s].owner
    BY <2>1 DEF Deployment
  <2> QED
    BY <1>4, <2>2, <2>3 DEF UpdateDeployment
<1>5. ASSUME NEW o \in Operators, CreateService(o)
      PROVE  /\ \/ service'[s] = service[s]
                \/ Writes(o, s, service'[s].owner)
             /\ secret' = secret /\ deployment' = deployment
  BY <1>1, <1>5 DEF CreateService, Writes
<1>6. ASSUME NEW t \in SSOs, Collect(t)
      PROVE  /\ secret'[s] = secret[s] \/ secret'[s] = None
             /\ deployment'[s] = deployment[s] \/ deployment'[s] = None
             /\ service'[s] = service[s] \/ service'[s] = None
  BY <1>1, <1>6 DEF Collect
<1> QED
  BY <1>2, <1>3, <1>4, <1>5, <1>6, ProxySteps DEF Kept

LEMMA ReferenceStep ==
  ASSUME TypeInv, OwnerInv, [Next]_vars, NEW s \in SSOs
  PROVE  /\ secret'[s] # None => secret'[s].owner <= 1
         /\ deployment'[s] # None => deployment'[s].owner <= 1
         /\ service'[s] # None => service'[s].owner <= 1
BY OwnerSteps DEF OwnerInv, Kept, Writes

\* Where the copies of SSOs come from.
LEMMA CopySteps ==
  ASSUME TypeInv, [Next]_vars, NEW o \in Operators
  PROVE  /\ \A s \in SSOs :
              \/ cache'[o][s] \in {cache[o][s], NoSSO}
              \/ cache'[o][s] = sso[s] /\ sso' = sso
         /\ \/ obj'[o] \in {obj[o], NoSSO}
            \/ \E s \in SSOs : obj'[o] = cache[o][s]
<1>1. /\ cache \in [Operators -> [SSOs -> SSOObject]]
      /\ obj \in [Operators -> SSOObject]
  BY DEF TypeInv, TypeOK
<1>2. ASSUME NEW p \in Operators, Handle(p) PROVE UNCHANGED <<cache, obj>>
  BY <1>2, HandleMoves DEF Move, CreateClient, sdkVars, eventVars
<1>3. ASSUME NEW s \in SSOs, User(s) \/ Controllers(s)
      PROVE  UNCHANGED <<cache, obj>>
  <2>1. cache' = cache
    BY <1>3, ControllersKeep DEF User, CreateSSO, EditSSO, DeleteSSO,
       CreateIngress, sdkVars
  <2> QED
    BY <1>3, <2>1, OtherSteps DEF handlerVars
<1>4. ASSUME NEW p \in Operators, Return(p) \/ Restart(p)
      PROVE  /\ \A s \in SSOs : cache'[o][s] \in {cache[o][s], NoSSO}
             /\ obj'[o] \in {obj[o], NoSSO}
  BY <1>1, <1>4 DEF Return, Restart
<1>5. ASSUME NEW p \in Operators, NEW t \in SSOs, Observe(p, t)
      PROVE  /\ \A s \in SSOs : cache'[o][s] \in {cache[o][s], sso[s]}
             /\ sso' = sso /\ obj' = obj
  BY <1>1, <1>5 DEF Observe, handlerVars
<1>6. ASSUME NEW p \in Operators, NEW t \in SSOs, Begin(p, t)
      PROVE  cache' = cache /\ obj'[o] \in {obj[o], cache[o][t]}
  BY <1>1, <1>6 DEF Begin, sdkVars
<1>7. CASE UNCHANGED vars
  BY <1>7 DEF vars, sdkVars, handlerVars
<1> QED
  BY <1>2, <1>3, <1>4, <1>5, <1>6, <1>7 DEF Next, Crash, Panic

\* What the operator SDK keeps is changed by its own steps only.
LEMMA SDKSteps ==
  ASSUME [Next]_vars
  PROVE  \/ UNCHANGED sdkVars
         \/ \E p \in Operators :
              \/ Return(p) \/ Restart(p) \/ \E t \in SSOs : Observe(p, t)
<1>1. ASSUME NEW p \in Operators, Handle(p) PROVE UNCHANGED sdkVars
  <2>1. CASE Deploy(p) \/ Update(p)
    BY <2>1 DEF Deploy, Update, CreateSecret, CreateDeployment,
       CreateService, WaitForService, WaitForPodsWithLabelRunning,
       UpdateSecret, UpdateDeployment, sdkVars
  <2>2. CASE ExposeSSO(p) \/ CleanupSSO(p)
    BY <2>2 DEF ExposeSSO, CleanupSSO, RunsJob, CreateConfigMap,
       CleanupConfigMap, CreateJob, DeleteStaleJob, WaitForJobComplete,
       DeleteJob, DeleteConfigMap, sdkVars
  <2> QED
    BY <1>1, <2>1, <2>2 DEF Handle, EnsureClusterRoleBinding,
       IsSSOInitialized, CreateClient, FindIngressHosts, UpdateClient,
       UpdateStatus, UndoClient, RetireClient, Delete, sdkVars
<1>2. ASSUME NEW t \in SSOs, User(t) \/ Controllers(t)
      PROVE  UNCHANGED sdkVars
  BY <1>2 DEF User, CreateSSO, EditSSO, DeleteSSO, CreateIngress,
     Controllers, StartPod, StopPod, ExposeJobRuns, CleanupJobRuns,
     JobFails, Collect, sdkVars
<1> QED
  BY <1>1, <1>2 DEF Next, vars, Crash, Panic, Begin, sdkVars

LEMMA OwnerStep ==
  ASSUME NeverRecreated, TypeInv, OwnerInv, [Next]_vars
  PROVE  OwnerInv'
<1>1. NoSSO.uid = 0
  BY DEF NoSSO
<1>2. ASSUME NEW o \in Operators, NEW s \in SSOs PROVE cache'[o][s].uid <= 1
  BY <1>1, CopySteps DEF OwnerInv
<1>3. ASSUME NEW o \in Operators PROVE obj'[o].uid <= 1
  BY <1>1, CopySteps DEF OwnerInv
<1> QED
  BY <1>2, <1>3, UidStep, ReferenceStep DEF OwnerInv

----------------------------------------------------------------------------
(* Only what is deleted is cleaned up *)

LEMMA InitDead == Init => DeadInv
BY DEF Init, DeadInv, NoSSO, JobKinds

\* The informer's copies and the deletion events.
LEMMA CopyDead ==
  ASSUME NeverRecreated, TypeInv, CreatedInv, DeadInv, [Next]_vars,
         NEW o \in Operators, NEW s \in SSOs
  PROVE  /\ cache'[o][s].live \/ tries'[o][s] > 0 => sso'[s].uid > 0
         /\ ~cache'[o][s].live /\ cache'[o][s].initialized => Dead(s)'
<1>1. /\ cache \in [Operators -> [SSOs -> SSOObject]]
      /\ tries \in [Operators -> [SSOs -> Nat]]
  BY DEF TypeInv, TypeOK
<1>2. ~NoSSO.live /\ ~NoSSO.initialized
  BY DEF NoSSO
<1>3. /\ cache[o][s].live \/ tries[o][s] > 0 => sso[s].uid > 0
      /\ ~cache[o][s].live /\ cache[o][s].initialized => Dead(s)
      /\ sso[s].live \/ sso[s].initialized => sso[s].uid > 0
  BY DEF DeadInv, CreatedInv
<1>4. ASSUME cache'[o][s].live \/ tries'[o][s] > 0 PROVE sso[s].uid > 0
  <2>1. CASE tries' = tries
    <3>1. cache'[o][s] \in {cache[o][s], NoSSO, sso[s]}
      BY CopySteps
    <3> QED
      BY <1>2, <1>3, <1>4, <2>1, <3>1
  <2>2. ASSUME NEW p \in Operators, Return(p) PROVE sso[s].uid > 0
    <3>1. cache' = cache /\ (tries'[o][s] > 0 => tries[o][s] > 0)
      BY <1>1, <2>2 DEF Return
    <3> QED
      BY <1>3, <1>4, <3>1
  <2>3. ASSUME NEW p \in Operators, Restart(p) PROVE sso[s].uid > 0
    <3>1. \/ cache'[o][s] = cache[o][s] /\ tries'[o][s] = tries[o][s]
          \/ cache'[o][s] = NoSSO /\ tries'[o][s] = 0
      BY <1>1, <2>3 DEF Restart
    <3> QED
      BY <1>2, <1>3, <1>4, <3>1
  <2>4. ASSUME NEW p \in Operators, NEW t \in SSOs, Observe(p, t)
        PROVE  sso[s].uid > 0
    <3>1. \/ cache'[o][s] = cache[o][s] /\ tries'[o][s] = tries[o][s]
          \/ sso[s].live \/ cache[o][s].live
      BY <1>1, <2>4 DEF Observe
    <3> QED
      BY <1>3, <1>4, <3>1
  <2> QED
    BY <2>1, <2>2, <2>3, <2>4, SDKSteps DEF sdkVars
<1>5. ASSUME ~cache'[o][s].live, cache'[o][s].initialized PROVE Dead(s)
  BY <1>2, <1>3, <1>5, CopySteps DEF Dead
<1> QED
  BY <1>4, <1>5, CreatedKept, DeadKept

\* A Handle call begins, or goes on with the same SSO and the same copy.
LEMMA CallSteps ==
  ASSUME TypeInv, [Next]_vars, NEW o \in Operators, pc'[o] # "idle"
  PROVE  \/ pc[o] # "idle" /\ key'[o] = key[o] /\ obj'[o] = obj[o]
         \/ \E s \in SSOs : Begin(o, s)
<1>1. /\ pc \in [Operators -> Labels] /\ obj \in [Operators -> SSOObject]
      /\ key \in [Operators -> SSOs \cup {None}]
  BY DEF TypeInv, TypeOK
<1>2. ASSUME NEW p \in Operators, Handle(p)
      PROVE  pc[o] # "idle" /\ key'[o] = key[o] /\ obj'[o] = obj[o]
  BY <1>1, <1>2, HandleMoves DEF Move, CreateClient, Reply, Refused, Goto,
     eventVars
<1>3. ASSUME NEW p \in Operators, Return(p) \/ Restart(p)
      PROVE  pc[o] # "idle" /\ key'[o] = key[o] /\ obj'[o] = obj[o]
  BY <1>1, <1>3 DEF Return, Restart, Goto
<1>4. ASSUME NEW p \in Operators, p # o, NEW s \in SSOs, Begin(p, s)
      PROVE  pc[o] # "idle" /\ key'[o] = key[o] /\ obj'[o] = obj[o]
  BY <1>1, <1>4 DEF Begin, Goto
<1>5. CASE UNCHANGED handlerVars
  BY <1>5 DEF handlerVars
<1> QED
  BY <1>2, <1>3, <1>4, <1>5, OtherSteps DEF Next, Crash, Panic, vars

\* The Handle calls.
LEMMA CallDead ==
  ASSUME NeverRecreated, TypeInv, DeadInv, [Next]_vars, NEW o \in Operators,
         pc'[o] # "idle"
  PROVE  /\ key'[o] \in SSOs /\ sso'[key'[o]].uid > 0
         /\ Kind(o)' = "cleanup" => ~sso'[key'[o]].live
<1>1. /\ pc \in [Operators -> Labels] /\ obj \in [Operators -> SSOObject]
      /\ key \in [Operators -> SSOs \cup {None}]
  BY DEF TypeInv, TypeOK
<1>2. CASE pc[o] # "idle" /\ key'[o] = key[o] /\ obj'[o] = obj[o]
  <2>1. /\ key[o] \in SSOs /\ sso[key[o]].uid > 0 /\ Kind(o)' = Kind(o)
        /\ Kind(o) = "cleanup" => Dead(key[o])
    BY <1>2, Known DEF DeadInv, Kind
  <2> QED
    BY <1>2, <2>1, CreatedKept, DeadKept DEF Dead
<1>3. ASSUME NEW s \in SSOs, Begin(o, s)
      PROVE  /\ key'[o] \in SSOs /\ sso'[key'[o]].uid > 0
             /\ Kind(o)' = "cleanup" => ~sso'[key'[o]].live
  <2>1. key'[o] = s /\ obj'[o] = cache[o][s] /\ sso' = sso
    BY <1>1, <1>3 DEF Begin
  <2>2. sso[s].uid > 0
    BY <1>3 DEF Begin, DeadInv
  <2>3. Kind(o)' = "cleanup" => Dead(s)
    BY <2>1 DEF Kind, DeadInv
  <2> QED
    BY <2>1, <2>2, <2>3 DEF Dead
<1> QED
  BY <1>2, <1>3, CallSteps

\* The cleanup jobs, and the pods that are left of them.
LEMMA JobDead ==
  ASSUME TypeInv, DeadInv, [Next]_vars, NEW s \in SSOs,
         job'[s]["cleanup"] # None \/ "cleanup" \in stray'[s]
  PROVE  Dead(s)
<1>1. /\ job \in [SSOs -> [JobKinds -> Job \cup {None}]]
      /\ stray \in [SSOs -> SUBSET JobKinds]
      /\ "cleanup" \in JobKinds /\ "expose" \in JobKinds
  BY DEF TypeInv, TypeOK, JobKinds
<1>2. job[s]["cleanup"] # None \/ "cleanup" \in stray[s] => Dead(s)
  BY DEF DeadInv
<1>3. CASE UNCHANGED <<job, stray>>
  BY <1>2, <1>3
<1>4. ASSUME NEW o \in Operators, NEW k \in JobKinds, RunsJob(o, k)
      PROVE  Dead(s)
  <2>1. pc[o] # "idle" /\ Kind(o) = k
    BY <1>4 DEF RunsJob, CreateJob, DeleteStaleJob, WaitForJobComplete,
       DeleteJob, DeleteConfigMap
  <2>2. key[o] \in SSOs /\ (k = "cleanup" => Dead(key[o]))
    BY <2>1, Known DEF DeadInv
  <2>3. \/ s = key[o] /\ k = "cleanup"
        \/ /\ job'[s]["cleanup"] = job[s]["cleanup"]
           /\ "cleanup" \in stray'[s] => "cleanup" \in stray[s]
    <3>1. CASE CreateJob(o, k)
      BY <1>1, <2>2, <3>1 DEF CreateJob
    <3>2. CASE DeleteStaleJob(o, k)
      BY <1>1, <2>2, <3>2 DEF DeleteStaleJob
    <3>3. CASE DeleteJob(o, k)
      BY <1>1, <2>2, <3>3 DEF DeleteJob
    <3>4. CASE WaitForJobComplete(o, k) \/ DeleteConfigMap(o, k)
      BY <3>4 DEF WaitForJobComplete, DeleteConfigMap, exposeVars
    <3> QED
      BY <1>4, <3>1, <3>2, <3>3, <3>4 DEF RunsJob
  <2> QED
    BY <1>2, <2>2, <2>3
<1>5. ASSUME NEW t \in SSOs,
             \/ ExposeJobRuns(t) \/ CleanupJobRuns(t)
             \/ \E k \in JobKinds : JobFails(t, k)
             \/ Collect(t)
      PROVE  Dead(s)
  <2>1. ASSUME NEW k \in JobKinds, PodRuns(t, k)
        PROVE  /\ job'[s]["cleanup"] # None => job[s]["cleanup"] # None
               /\ "cleanup" \in stray'[s] => "cleanup" \in stray[s]
    BY <1>1, <2>1 DEF PodRuns
  <2>2. CASE ExposeJobRuns(t) \/ CleanupJobRuns(t)
    BY <1>1, <1>2, <2>1, <2>2 DEF ExposeJobRuns, CleanupJobRuns
  <2>3. ASSUME NEW k \in JobKinds, JobFails(t, k)
        PROVE  Dead(s)
    <3>1. /\ job'[s]["cleanup"] # None => job[s]["cleanup"] # None
          /\ stray' = stray
      BY <1>1, <2>3 DEF JobFails
    <3> QED
      BY <1>2, <3>1
  <2>4. CASE Collect(t)
    <3>1. /\ job'[s]["cleanup"] = job[s]["cleanup"]
          /\ stray' = stray
      BY <1>1, <2>4 DEF Collect
    <3> QED
      BY <1>2, <3>1
  <2> QED
    BY <1>5, <2>2, <2>3, <2>4
<1>6. \/ UNCHANGED <<job, stray>>
      \/ \E o \in Operators, k \in JobKinds : RunsJob(o, k)
      \/ \E t \in SSOs :
           \/ ExposeJobRuns(t) \/ CleanupJobRuns(t)
           \/ \E k \in JobKinds : JobFails(t, k)
           \/ Collect(t)
  <2>1. ASSUME NEW o \in Operators, Handle(o),
               ~(\E k \in JobKinds : RunsJob(o, k))
        PROVE  UNCHANGED <<job, stray>>
    <3>1. CASE Deploy(o) \/ Update(o)
      BY <3>1 DEF Deploy, Update, CreateSecret, CreateDeployment,
         CreateService, WaitForService, WaitForPodsWithLabelRunning,
         UpdateSecret, UpdateDeployment, exposeVars
    <3>2. CASE ExposeSSO(o) \/ CleanupSSO(o)
      BY <2>1, <3>2 DEF ExposeSSO, CleanupSSO, CreateConfigMap,
         CleanupConfigMap, JobKinds
    <3> QED
      BY <2>1, <3>1, <3>2 DEF Handle, EnsureClusterRoleBinding,
         IsSSOInitialized, CreateClient, FindIngressHosts, UpdateClient,
         UpdateStatus, UndoClient, RetireClient, Delete, exposeVars
  <2>2. ASSUME NEW t \in SSOs, User(t) \/ StartPod(t) \/ StopPod(t)
        PROVE  UNCHANGED <<job, stray>>
    BY <2>2 DEF User, CreateSSO, EditSSO, DeleteSSO, CreateIngress,
       StartPod, StopPod, exposeVars
  <2>3. ASSUME NEW o \in Operators,
               \/ Return(o) \/ Restart(o)
               \/ \E t \in SSOs : Observe(o, t) \/ Begin(o, t)
        PROVE  UNCHANGED <<job, stray>>
    BY <2>3 DEF Return, Restart, Observe, Begin, exposeVars
  <2> QED
    BY <2>1, <2>2, <2>3 DEF Next, Controllers, Crash, Panic, vars, exposeVars
<1> QED
  BY <1>3, <1>4, <1>5, <1>6

LEMMA DeadStep ==
  ASSUME NeverRecreated, TypeInv, CreatedInv, DeadInv, [Next]_vars
  PROVE  DeadInv'
<1>1. ASSUME NEW s \in SSOs,
             job'[s]["cleanup"] # None \/ "cleanup" \in stray'[s]
      PROVE  Dead(s)'
  BY <1>1, JobDead, DeadKept
<1>2. ASSUME NEW o \in Operators, pc'[o] # "idle"
      PROVE  /\ sso'[key'[o]].uid > 0
             /\ Kind(o)' = "cleanup" => Dead(key[o])'
  BY <1>2, CallDead DEF Dead
<1> QED
  BY <1>1, <1>2, CopyDead DEF DeadInv

----------------------------------------------------------------------------
(* One app name for every SSO *)

LEMMA InitLabel == Init => LabelInv
BY DEF Init, LabelInv

LEMMA LabelStep ==
  ASSUME TypeInv, LabelInv, [Next]_vars
  PROVE  LabelInv'
<1>1. deployment \in [SSOs -> Deployment \cup {None}]
  BY DEF TypeInv, TypeOK
<1>2. CASE deployment' = deployment
  BY <1>2 DEF LabelInv, getAppName
<1>3. ASSUME NEW o \in Operators, CreateDeployment(o) PROVE LabelInv'
  <2>1. app[o] \in getAppName(key[o])
    BY <1>3, Known DEF CreateDeployment, InitOnly, InFlight
  <2>2. \A s \in SSOs : \/ deployment'[s] = deployment[s]
                        \/ s = key[o] /\ deployment'[s].app = app[o]
    BY <1>1, <1>3 DEF CreateDeployment
  <2> QED
    BY <2>1, <2>2 DEF LabelInv
<1>4. ASSUME NEW o \in Operators, UpdateDeployment(o) PROVE LabelInv'
  <2>1. ASSUME NEW s \in SSOs
        PROVE  \/ deployment'[s] = deployment[s]
               \/ /\ deployment[s] # None
                  /\ deployment'[s] =
                       [deployment[s] EXCEPT !.version = proxyConfig(o)]
    BY <1>1, <1>4 DEF UpdateDeployment
  <2>2. ASSUME NEW s \in SSOs, deployment[s] # None
        PROVE  [deployment[s] EXCEPT !.version = proxyConfig(o)].app
                 = deployment[s].app
    BY <1>1, <2>2 DEF Deployment
  <2> QED
    BY <2>1, <2>2 DEF LabelInv
<1>5. ASSUME NEW t \in SSOs, Collect(t) PROVE LabelInv'
  BY <1>1, <1>5 DEF Collect, LabelInv
<1> QED
  BY <1>2, <1>3, <1>4, <1>5, ProxySteps DEF CreateSecret, UpdateSecret,
     CreateService

\* The ingress of an SSO that exists stays.
LEMMA IngressKept ==
  ASSUME AppsApart, TypeInv, NamesInv, DeadInv, [Next]_vars,
         NEW s \in SSOs, sso[s].live, NEW a \in getAppName(s), ingress[a] = s
  PROVE  ingress'[a] = s
<1>1. /\ ingress \in [Apps -> SSOs \cup {None}] /\ a \in Apps
      /\ None \notin SSOs /\ service \in [SSOs -> Service \cup {None}]
  BY ConstantsAssumption, AppsOf DEF TypeInv, TypeOK
<1>2. ASSUME NEW t \in SSOs, CreateIngress(t) PROVE ingress'[a] = s
  BY <1>1, <1>2 DEF CreateIngress
<1>3. ASSUME NEW t \in SSOs, ExposeJobRuns(t) PROVE ingress'[a] = s
  <2>1. configMap.service \in SSOs
    BY <1>3 DEF ExposeJobRuns, PodRuns, TypeInv, TypeOK, ConfigMap
  <2>2. \/ ingress' = ingress
        \/ /\ service[configMap.service] # None
           /\ ingress' = [ingress EXCEPT ![service[configMap.service].app] =
                            configMap.service]
    BY <1>3 DEF ExposeJobRuns
  <2>3. service[configMap.service] # None /\ service[configMap.service].app = a
          => configMap.service = s
    BY <2>1 DEF NamesInv, AppsApart
  <2> QED
    BY <1>1, <2>2, <2>3
<1>4. ASSUME NEW t \in SSOs, CleanupJobRuns(t) PROVE ingress'[a] = s
  <2>1. job[t]["cleanup"] # None \/ "cleanup" \in stray[t]
    BY <1>4 DEF CleanupJobRuns, PodRuns
  <2>2. t # s
    BY <2>1 DEF DeadInv, Dead
  <2> QED
    BY <1>1, <1>4, <2>2 DEF CleanupJobRuns
<1>5. \/ ingress' = ingress
      \/ \E t \in SSOs :
           CreateIngress(t) \/ ExposeJobRuns(t) \/ CleanupJobRuns(t)
  <2>1. ASSUME NEW o \in Operators, Handle(o) PROVE ingress' = ingress
    <3>1. CASE Deploy(o) \/ Update(o)
      BY <3>1 DEF Deploy, Update, CreateSecret, CreateDeployment,
         CreateService, WaitForService, WaitForPodsWithLabelRunning,
         UpdateSecret, UpdateDeployment, exposeVars
    <3>2. CASE ExposeSSO(o) \/ CleanupSSO(o)
      BY <3>2 DEF ExposeSSO, CleanupSSO, RunsJob, CreateConfigMap,
         CleanupConfigMap, CreateJob, DeleteStaleJob, WaitForJobComplete,
         DeleteJob, DeleteConfigMap, exposeVars
    <3> QED
      BY <2>1, <3>1, <3>2 DEF Handle, EnsureClusterRoleBinding,
         IsSSOInitialized, CreateClient, FindIngressHosts, UpdateClient,
         UpdateStatus, UndoClient, RetireClient, Delete, exposeVars
  <2>2. ASSUME NEW t \in SSOs,
               \/ CreateSSO(t) \/ EditSSO(t) \/ DeleteSSO(t)
               \/ StartPod(t) \/ StopPod(t) \/ Collect(t)
               \/ \E k \in JobKinds : JobFails(t, k)
        PROVE  ingress' = ingress
    BY <2>2 DEF CreateSSO, EditSSO, DeleteSSO, StartPod, StopPod, Collect,
       JobFails, exposeVars
  <2>3. ASSUME NEW o \in Operators,
               \/ Return(o) \/ Restart(o)
               \/ \E t \in SSOs : Observe(o, t) \/ Begin(o, t)
        PROVE  ingress' = ingress
    BY <2>3 DEF Return, Restart, Observe, Begin, exposeVars
  <2> QED
    BY <2>1, <2>2, <2>3 DEF Next, User, Controllers, Crash, Panic, vars,
       exposeVars
<1> QED
  BY <1>2, <1>3, <1>4, <1>5

----------------------------------------------------------------------------
(* What a Handle call has made is there *)

LEMMA InitProgress == Init => ProgressInv
BY DEF Init, ProgressInv, HoldsClient, InFlight

\* A step of another operator, of the SDK or of the cluster leaves the locals
\* of a Handle call alone, and only Handle itself goes on with it.
LEMMA StepsElsewhere ==
  ASSUME TypeInv, [Next]_vars, NEW p \in Operators, ~Handle(p),
         pc'[p] \notin {"idle", "EnsureClusterRoleBinding"}
  PROVE  /\ pc'[p] = pc[p] /\ key'[p] = key[p] /\ obj'[p] = obj[p]
         /\ client'[p] = client[p] /\ redirect'[p] = redirect[p]
         /\ app'[p] = app[p]
<1>1. /\ pc \in [Operators -> Labels] /\ client \in [Operators -> MaybeId]
      /\ key \in [Operators -> SSOs \cup {None}]
      /\ obj \in [Operators -> SSOObject]
      /\ redirect \in [Operators -> Redirects]
      /\ app \in [Operators -> Apps \cup {None}]
  BY DEF TypeInv, TypeOK
<1>2. CASE UNCHANGED handlerVars
  BY <1>2 DEF handlerVars
<1>3. ASSUME NEW o \in Operators, o # p, Handle(o)
      PROVE  /\ pc'[p] = pc[p] /\ key'[p] = key[p] /\ obj'[p] = obj[p]
             /\ client'[p] = client[p]
  BY <1>1, <1>3, HandleMoves DEF Move, CreateClient, Reply, Refused, Goto,
     eventVars
<1>4. ASSUME NEW o \in Operators, o # p, Handle(o)
      PROVE  redirect'[p] = redirect[p] /\ app'[p] = app[p]
  <2>1. CASE CreateSecret(o)
    BY <1>1, <1>4, <2>1 DEF CreateSecret
  <2>2. CASE FindIngressHosts(o)
    BY <1>1, <1>4, <2>2 DEF FindIngressHosts
  <2>3. CASE ~CreateSecret(o) /\ (Deploy(o) \/ Update(o))
    BY <2>3 DEF Deploy, Update, CreateDeployment, CreateService,
       WaitForService, WaitForPodsWithLabelRunning, UpdateSecret,
       UpdateDeployment, localVars
  <2>4. CASE ExposeSSO(o) \/ CleanupSSO(o)
    BY <2>4 DEF ExposeSSO, CleanupSSO, RunsJob, CreateConfigMap,
       CleanupConfigMap, CreateJob, DeleteStaleJob, WaitForJobComplete,
       DeleteJob, DeleteConfigMap, localVars
  <2> QED
    BY <1>4, <2>1, <2>2, <2>3, <2>4 DEF Handle, EnsureClusterRoleBinding,
       IsSSOInitialized, CreateClient, UpdateClient, UpdateStatus,
       UndoClient, RetireClient, Delete, localVars
<1>5. ASSUME NEW o \in Operators,
             Return(o) \/ Restart(o) \/ \E s \in SSOs : Begin(o, s)
      PROVE  /\ pc'[p] = pc[p] /\ key'[p] = key[p] /\ obj'[p] = obj[p]
             /\ client'[p] = client[p] /\ redirect'[p] = redirect[p]
             /\ app'[p] = app[p]
  BY <1>1, <1>5 DEF Return, Restart, Begin, Goto, localVars
<1> QED
  BY <1>2, <1>3, <1>4, <1>5, OtherSteps DEF Next, vars, Crash, Panic

\* How a Handle call that holds a client gets past the points of Progress.
LEMMA ProgressMoves ==
  ASSUME TypeInv, NEW o \in Operators, Handle(o), HoldsClient(o),
         pc'[o] \in InFlight
  PROVE  /\ UNCHANGED <<key, obj, client>>
         /\ pc[o] # "CreateSecret" => app' = app
         /\ pc'[o] \in PastDeployment =>
              pc[o] \in PastDeployment \/ deployment'[key[o]] # None
         /\ pc'[o] \in PastService =>
              pc[o] \in PastService \/ service'[key[o]] # None
         /\ pc'[o] \in PastIngress =>
              pc[o] \in PastIngress \/ FindIngressHosts(o)
<1>1. /\ pc \in [Operators -> Labels] /\ key[o] \in SSOs
      /\ deployment \in [SSOs -> Deployment \cup {None}]
      /\ service \in [SSOs -> Service \cup {None}]
      /\ obj[o].uid \in Nat
  BY Known DEF HoldsClient, InFlight, TypeInv, TypeOK
<1>2. ~CreateClient(o) /\ pc[o] \in InFlight /\ Kind(o) = "expose"
  BY DEF CreateClient, HoldsClient, InFlight
<1>3. UNCHANGED <<key, obj, client>>
  BY <1>2, HandleMoves DEF Move
<1>4. CASE CreateSecret(o)
  <2>1. pc'[o] = "CreateDeployment" /\ pc[o] = "CreateSecret"
    BY <1>1, <1>4
    DEF CreateSecret, Answered, Reply, Refused, Goto, InFlight
  <2> QED
    BY <1>3, <2>1 DEF PastDeployment, PastService, PastIngress, Redirected
<1>5. CASE CreateDeployment(o)
  <2>1. pc'[o] = "CreateService" /\ app' = app
    BY <1>1, <1>5 DEF CreateDeployment, Answered, Reply, Refused, Goto,
       InFlight, localVars
  <2>2. [version |-> proxyConfig(o), app |-> app[o], owner |-> obj[o].uid]
          # None
    BY <1>1, <1>5, Known, AbsentAssumption
    DEF CreateDeployment, InitOnly, InFlight, Deployment
  <2>3. deployment'[key[o]] # None
    BY <1>1, <1>5, <2>1, <2>2 DEF CreateDeployment, Refused, Goto
  <2> QED
    BY <1>3, <2>1, <2>3 DEF PastService, PastIngress, Redirected
<1>6. CASE CreateService(o)
  <2>1. pc'[o] = "WaitForService" /\ pc[o] = "CreateService" /\ app' = app
    BY <1>1, <1>6 DEF CreateService, Answered, Reply, Refused, Goto,
       InFlight, localVars
  <2>2. [app |-> app[o], owner |-> obj[o].uid] # None
    BY <1>1, <1>6, Known, AbsentAssumption
    DEF CreateService, InitOnly, InFlight, Service
  <2>3. service'[key[o]] # None
    BY <1>1, <1>6, <2>1, <2>2 DEF CreateService, Refused, Goto
  <2> QED
    BY <1>3, <2>1, <2>3 DEF PastDeployment, PastIngress, InFlight, Redirected
<1>7. CASE \/ WaitForService(o) \/ ExposeSSO(o)
           \/ WaitForPodsWithLabelRunning(o, "WaitForPods", AfterDeploy(key[o]))
  <2>1. pc[o] \in PastService /\ app' = app
    BY <1>7 DEF WaitForService, ExposeSSO, WaitForPodsWithLabelRunning,
       CreateConfigMap, RunsJob, CreateJob, DeleteStaleJob,
       WaitForJobComplete, DeleteJob, DeleteConfigMap, PastService,
       PastDeployment, InFlight, localVars
  <2>2. \E l \in {"WaitForPods", "CreateConfigMap", "CreateJob",
                  "DeleteStaleJob", "WaitForJob", "DeleteJob",
                  "DeleteConfigMap", "FindIngressHosts", "UndoClient"} :
          Goto(o, l)
    BY <1>7 DEF WaitForService, ExposeSSO, WaitForPodsWithLabelRunning,
       CreateConfigMap, RunsJob, CreateJob, DeleteStaleJob,
       WaitForJobComplete, DeleteJob, DeleteConfigMap, AfterDeploy, OnError,
       Answered, Reply, Refused
  <2>3. pc'[o] \notin PastIngress
    BY <1>1, <2>2 DEF Goto, PastIngress, Redirected
  <2> QED
    BY <1>3, <2>1, <2>3 DEF PastService
<1>8. CASE FindIngressHosts(o)
  <2>1. pc[o] \in PastService /\ app' = app
    BY <1>8 DEF FindIngressHosts, PastService, PastDeployment, InFlight
  <2> QED
    BY <1>3, <1>8, <2>1 DEF PastService
<1>9. CASE UpdateClient(o) \/ Update(o) \/ UpdateStatus(o)
  <2>1. pc[o] \in PastIngress /\ app' = app
    BY <1>9 DEF UpdateClient, Update, UpdateSecret, UpdateDeployment,
       WaitForPodsWithLabelRunning, UpdateStatus, PastIngress, Redirected,
       localVars
  <2>2. pc[o] \in PastService
    BY <2>1 DEF PastIngress, Redirected, PastService, PastDeployment,
       InFlight
  <2> QED
    BY <1>3, <2>1, <2>2 DEF PastService
<1>10. /\ ~EnsureClusterRoleBinding(o) /\ ~CleanupSSO(o) /\ ~RetireClient(o)
       /\ ~IsSSOInitialized(o) /\ ~UndoClient(o)
  <2>1. ~CleanupSSO(o)
    BY <1>2 DEF CleanupSSO, CleanupConfigMap, RunsJob, CreateJob,
       DeleteStaleJob, WaitForJobComplete, DeleteJob, DeleteConfigMap
  <2> QED
    BY <1>2, <2>1 DEF EnsureClusterRoleBinding, RetireClient, Delete,
       IsSSOInitialized, UndoClient, InFlight
<1> QED
  BY <1>2, <1>4, <1>5, <1>6, <1>7, <1>8, <1>9, <1>10 DEF Handle, Deploy

\* A Handle call that holds a client of an existing SSO after the step had it
\* before, for an SSO that existed then, unless it got it just now.
LEMMA HeldBefore ==
  ASSUME NeverRecreated, TypeInv, DeadInv, [Next]_vars, NEW o \in Operators,
         HoldsClient(o)', sso'[key'[o]].live
  PROVE  \/ pc'[o] = "CreateSecret"
         \/ /\ HoldsClient(o) /\ key'[o] = key[o] /\ key[o] \in SSOs
            /\ client'[o] = client[o] /\ sso[key[o]].live
            /\ pc[o] # "CreateSecret" => app'[o] = app[o]
<1>1. pc \in [Operators -> Labels]
  BY DEF TypeInv, TypeOK
<1>2. pc'[o] \in InFlight /\ Kind(o)' = "expose"
  BY DEF HoldsClient
<1>3. ASSUME HoldsClient(o), key'[o] = key[o]
      PROVE  key[o] \in SSOs /\ sso[key[o]].live
  <2>1. key[o] \in SSOs /\ sso[key[o]].uid > 0
    BY <1>3, Known DEF HoldsClient, InFlight, DeadInv
  <2> QED
    BY <1>3, <2>1, CreatedKept
<1>4. CASE ~Handle(o)
  <2>1. pc'[o] \notin {"idle", "EnsureClusterRoleBinding"}
    BY <1>2 DEF InFlight
  <2>2. /\ pc'[o] = pc[o] /\ key'[o] = key[o] /\ obj'[o] = obj[o]
        /\ client'[o] = client[o] /\ app'[o] = app[o]
    BY <1>4, <2>1, StepsElsewhere
  <2>3. HoldsClient(o)
    BY <1>2, <2>2 DEF HoldsClient, Kind
  <2> QED
    BY <1>3, <2>2, <2>3
<1>5. CASE CreateClient(o)
  BY <1>1, <1>2, <1>5 DEF CreateClient, Reply, Refused, Goto, InFlight
<1>6. CASE Handle(o) /\ ~CreateClient(o)
  <2>1. Move(o)
    BY <1>6, HandleMoves
  <2>2. Kind(o) = "expose"
    BY <1>2, <2>1 DEF Move, Kind
  <2>3. HoldsClient(o)
    BY <1>1, <1>2, <2>1, <2>2 DEF Move, Goto, HoldsClient
  <2>4. /\ UNCHANGED <<key, obj, client>>
        /\ pc[o] # "CreateSecret" => app' = app
    BY <1>2, <1>6, <2>3, ProgressMoves
  <2> QED
    BY <1>3, <2>3, <2>4
<1> QED
  BY <1>4, <1>5, <1>6

LEMMA ProgressStep ==
  ASSUME NeverRecreated, AppsApart, TypeInv, CreatedInv, OwnerInv, DeadInv,
         NamesInv, ProgressInv, [Next]_vars
  PROVE  ProgressInv'
<1> SUFFICES ASSUME NEW o \in Operators, HoldsClient(o)', sso'[key'[o]].live
             PROVE  Progress(o)'
  BY DEF ProgressInv
<1>1. CASE pc'[o] = "CreateSecret"
  BY <1>1 DEF Progress, PastDeployment, PastService, PastIngress, Redirected
<1>2. CASE /\ HoldsClient(o) /\ key'[o] = key[o] /\ key[o] \in SSOs
           /\ sso[key[o]].live
           /\ pc[o] # "CreateSecret" => app'[o] = app[o]
  <2>1. Progress(o)
    BY <1>2 DEF ProgressInv
  <2>2. /\ deployment[key[o]] # None => deployment'[key[o]] # None
        /\ service[key[o]] # None => service'[key[o]] # None
    BY <1>2, ObjectsKept
  <2>3. /\ pc'[o] \in PastDeployment =>
             pc[o] \in PastDeployment \/ deployment'[key[o]] # None
        /\ pc'[o] \in PastService =>
             pc[o] \in PastService \/ service'[key[o]] # None
        /\ pc'[o] \in PastIngress =>
             pc[o] \in PastIngress \/ FindIngressHosts(o)
    <3>1. CASE Handle(o)
      BY <1>2, <3>1, ProgressMoves DEF HoldsClient
    <3>2. CASE ~Handle(o)
      <4>1. pc'[o] \notin {"idle", "EnsureClusterRoleBinding"}
        BY DEF HoldsClient, InFlight
      <4> QED
        BY <3>2, <4>1, StepsElsewhere
    <3> QED
      BY <3>1, <3>2
  <2>4. /\ pc'[o] \in PastDeployment => deployment'[key'[o]] # None
        /\ pc'[o] \in PastService => service'[key'[o]] # None
    BY <1>2, <2>1, <2>2, <2>3 DEF Progress
  <2>5. ASSUME pc'[o] \in PastIngress PROVE ingress'[app'[o]] = key'[o]
    <3>1. /\ pc[o] \in PastIngress \cup {"FindIngressHosts"}
          /\ pc[o] # "CreateSecret"
      BY <2>3, <2>5 DEF FindIngressHosts, PastIngress, Redirected
    <3>2. app[o] \in getAppName(key[o]) /\ app[o] \in Apps
      BY <1>2, <3>1, AppsOf DEF TypeInv, AppOK
    <3>3. ingress[app[o]] = key[o]
      <4>1. CASE pc[o] \in PastIngress
        BY <2>1, <4>1 DEF Progress
      <4>2. CASE FindIngressHosts(o)
        <5>1. ingress[app[o]] # None
          <6>1. pc \in [Operators -> Labels]
            BY DEF TypeInv, TypeOK
          <6> QED
            BY <2>5, <4>2, <6>1 DEF FindIngressHosts, Reply, Refused, Goto,
               PastIngress, Redirected
        <5>2. ingress[app[o]] \in SSOs
          BY <3>2, <5>1 DEF TypeInv, TypeOK
        <5> QED
          BY <1>2, <3>2, <5>1, <5>2 DEF NamesInv, AppsApart
      <4> QED
        BY <2>3, <2>5, <4>1, <4>2
    <3>4. ingress'[app[o]] = key[o]
      BY <1>2, <3>2, <3>3, IngressKept
    <3> QED
      BY <1>2, <3>1, <3>4
  <2> QED
    BY <2>4, <2>5 DEF Progress
<1> QED
  BY <1>1, <1>2, HeldBefore

LEMMA ReachableStep ==
  ASSUME NeverRecreated, AppsApart, OneAppEach, TypeInv, CreatedInv, OwnerInv,
         DeadInv, NamesInv, LabelInv, ProgressInv, InitializedIsReachable,
         [Next]_vars
  PROVE  InitializedIsReachable'
<1> SUFFICES ASSUME NEW s \in SSOs, sso'[s].live, sso'[s].initialized
             PROVE  Reachable(s)'
  BY DEF InitializedIsReachable
<1>1. ASSUME sso[s].live, Reachable(s) PROVE Reachable(s)'
  <2>1. /\ deployment'[s] # None /\ deployment'[s].app = deployment[s].app
        /\ service'[s] = service[s]
    BY <1>1, ObjectsKept DEF Reachable
  <2>2. service[s].app \in getAppName(s) /\ ingress[service[s].app] = s
    BY <1>1 DEF Reachable, NamesInv
  <2>3. ingress'[service[s].app] = s
    BY <1>1, <2>2, IngressKept
  <2> QED
    BY <1>1, <2>1, <2>3 DEF Reachable
<1>2. ASSUME NEW o \in Operators, UpdateStatus(o), key[o] = s, sso[s].live
      PROVE  Reachable(s)
  <2>1. pc[o] = "UpdateStatus" /\ HoldsClient(o)
    BY <1>2
    DEF UpdateStatus, TypeInv, PathOK, HoldsClient, InitOnly, InFlight
  <2>2. app[o] \in getAppName(s)
    BY <1>2, <2>1 DEF TypeInv, AppOK
  <2>3. /\ deployment[s] # None /\ service[s] # None /\ ingress[app[o]] = s
    BY <1>2, <2>1 DEF ProgressInv, Progress, PastDeployment, PastService,
       PastIngress, InFlight, Redirected
  <2>4. service[s].app = app[o] /\ deployment[s].app = app[o]
    BY <2>2, <2>3 DEF NamesInv, LabelInv, OneAppEach
  <2> QED
    BY <2>3, <2>4 DEF Reachable
<1> QED
  BY <1>1, <1>2, InitializedBefore DEF InitializedIsReachable

\* An SSO whose status says initialised can be reached: its service selects
\* the pods of its deployment and an ingress routes to it.  It holds for any
\* number of operators that overlap, and for every crash, panic, refusal and
\* lost reply, also of the status list and of the status update.
THEOREM InitializedCanBeReached ==
  ASSUME NeverRecreated, AppsApart, OneAppEach
  PROVE  Spec => []InitializedIsReachable
<1> DEFINE Inv == /\ TypeInv /\ CreatedInv /\ OwnerInv /\ DeadInv
                  /\ NamesInv /\ LabelInv /\ ProgressInv
                  /\ InitializedIsReachable
<1>1. Init => Inv
  <2>1. Init => InitializedIsReachable
    BY DEF Init, InitializedIsReachable, NoSSO
  <2> QED
    BY <2>1, InitType, InitCreated, InitOwner, InitDead, InitNames,
       InitLabel, InitProgress
<1>2. Inv /\ [Next]_vars => Inv'
  <2> SUFFICES ASSUME Inv, [Next]_vars PROVE Inv'
    OBVIOUS
  <2>1. TypeInv' /\ CreatedInv' /\ OwnerInv' /\ DeadInv'
    BY TypeStep, CreatedStep, OwnerStep, DeadStep
  <2>2. NamesInv' /\ LabelInv' /\ ProgressInv' /\ InitializedIsReachable'
    BY NamesStep, LabelStep, ProgressStep, ReachableStep
  <2> QED
    BY <2>1, <2>2
<1> QED
  BY <1>1, <1>2, PTL DEF Spec

----------------------------------------------------------------------------
(* One operator at work on an SSO *)

LEMMA InitLone == Init => LoneInv
BY DEF Init, LoneInv, Deciding, InFlight, PastIngress, Redirected,
   WrittenSecret, RolledOut

\* A step outside Handle.
LEMMA LoneElsewhere ==
  ASSUME NeverRecreated, Lone, TypeInv, CreatedInv, OwnerInv, DeadInv,
         LoneInv, [Next]_vars, NEW o \in Operators, ~Handle(o),
         pc'[o] \in Deciding
  PROVE  /\ Kind(o)' = "expose" =>
              ~(sso'[key'[o]].live /\ sso'[key'[o]].initialized)
         /\ pc'[o] \in PastIngress => redirect'[o] = key'[o]
         /\ pc'[o] \in WrittenSecret /\ sso'[key'[o]].live =>
              secret'[key'[o]] # None /\ secret'[key'[o]].config = Outcome(o)'
         /\ pc'[o] \in RolledOut /\ sso'[key'[o]].live =>
              /\ deployment'[key'[o]] # None
              /\ deployment'[key'[o]].version = Outcome(o)'
<1>1. /\ pc'[o] = pc[o] /\ key'[o] = key[o] /\ obj'[o] = obj[o]
      /\ client'[o] = client[o] /\ redirect'[o] = redirect[o]
  <2>1. pc'[o] \notin {"idle", "EnsureClusterRoleBinding"}
    BY DEF Deciding, InFlight
  <2> QED
    BY <2>1, StepsElsewhere
<1>2. pc[o] # "idle" /\ key[o] \in SSOs /\ sso[key[o]].uid > 0
  BY <1>1, Known DEF Deciding, InFlight, DeadInv
<1>3. Kind(o)' = Kind(o) /\ Outcome(o)' = Outcome(o)
  BY <1>1 DEF Kind, Outcome
<1>4. \A p \in Operators : ~Handle(p)
  BY DEF Lone
<1>5. /\ sso'[key[o]].live => sso[key[o]].live
      /\ sso'[key[o]].live /\ sso'[key[o]].initialized =>
           sso[key[o]].live /\ sso[key[o]].initialized
  BY <1>2, <1>4, CreatedKept, InitializedBefore DEF Handle
<1>6. sso[key[o]].live => /\ secret'[key[o]] = secret[key[o]]
                          /\ deployment'[key[o]] = deployment[key[o]]
  BY <1>2, <1>4, ProxySteps, Spared DEF Handle, Deploy, Update
<1> QED
  BY <1>1, <1>3, <1>5, <1>6 DEF LoneInv

\* The decision to initialise, and the redirect.
LEMMA LoneDecides ==
  ASSUME Benign, TypeInv, LoneInv, NEW o \in Operators, Handle(o),
         pc'[o] \in Deciding, Kind(o)' = "expose"
  PROVE  ~(sso'[key'[o]].live /\ sso'[key'[o]].initialized)
<1>1. pc \in [Operators -> Labels]
  BY DEF TypeInv, TypeOK
<1>2. CASE CreateClient(o)
  BY <1>2 DEF CreateClient, LoneInv, Deciding, Kind, eventVars
<1>3. CASE ~CreateClient(o)
  <2>1. Move(o) /\ Kind(o) = "expose" /\ key' = key
    BY <1>3, HandleMoves DEF Move, Kind
  <2>2. ~(sso[key[o]].live /\ sso[key[o]].initialized)
    BY <1>1, <2>1 DEF Move, Goto, LoneInv, Benign
  <2>3. sso' = sso
    <3>1. CASE UpdateStatus(o)
      BY <1>1, <3>1 DEF UpdateStatus, Answered, Reply, Refused, Goto, Benign,
         Deciding, InFlight
    <3> QED
      BY <1>3, <3>1, DeployMoves, UpdateMoves, ExposeMoves, CleanupMoves,
         StartMoves DEF Handle, FindIngressHosts, UpdateClient, UndoClient,
         RetireClient, Delete
  <2> QED
    BY <2>1, <2>2, <2>3
<1> QED
  BY <1>2, <1>3

LEMMA LoneRedirects ==
  ASSUME Benign, TypeInv, NamesInv, LoneInv, NEW o \in Operators, Handle(o),
         pc'[o] \in PastIngress
  PROVE  redirect'[o] = key'[o] /\ key' = key
<1>1. /\ pc \in [Operators -> Labels] /\ redirect \in [Operators -> Redirects]
  BY DEF TypeInv, TypeOK
<1>2. CASE FindIngressHosts(o)
  <2>1. /\ key[o] \in SSOs /\ app[o] \in getAppName(key[o]) /\ app[o] \in Apps
        /\ ingress[app[o]] \in SSOs \cup {None}
    BY <1>2, Known DEF FindIngressHosts, InitOnly, InFlight, TypeOK
  <2>2. ingress[app[o]] \in {None, key[o]}
    BY <2>1 DEF NamesInv, Benign
  <2> QED
    BY <1>1, <1>2, <2>2 DEF FindIngressHosts, Reply, Refused, Goto,
       PastIngress, Redirected, eventVars
<1>3. CASE UpdateClient(o) \/ Update(o)
  <2>1. pc[o] \in PastIngress
    BY <1>3 DEF UpdateClient, Update, UpdateSecret, UpdateDeployment,
       WaitForPodsWithLabelRunning, PastIngress, Redirected
  <2>2. UNCHANGED <<key, redirect>>
    BY <1>3 DEF UpdateClient, Update, UpdateSecret, UpdateDeployment,
       WaitForPodsWithLabelRunning, eventVars, localVars
  <2> QED
    BY <2>1, <2>2 DEF LoneInv
<1>4. CASE Deploy(o)
  BY <1>1, <1>4 DEF Deploy, CreateSecret, CreateDeployment, CreateService,
     WaitForService, WaitForPodsWithLabelRunning, AfterDeploy, Answered,
     Reply, Refused, Goto, PastIngress, Redirected
<1>5. CASE ExposeSSO(o) \/ CleanupSSO(o)
  BY <1>1, <1>5 DEF ExposeSSO, CleanupSSO, RunsJob, CreateConfigMap,
     CleanupConfigMap, CreateJob, DeleteStaleJob, WaitForJobComplete,
     DeleteJob, DeleteConfigMap, OnError, Answered, Reply, Refused, Goto,
     PastIngress, Redirected
<1>6. CASE \/ EnsureClusterRoleBinding(o) \/ IsSSOInitialized(o)
           \/ CreateClient(o) \/ UpdateStatus(o)
           \/ UndoClient(o) \/ RetireClient(o)
  BY <1>1, <1>6 DEF EnsureClusterRoleBinding, IsSSOInitialized, CreateClient,
     UpdateStatus, UndoClient, RetireClient, Delete, Answered, Reply,
     Refused, Goto, PastIngress, Redirected
<1> QED
  BY <1>2, <1>3, <1>4, <1>5, <1>6 DEF Handle

\* Only the calls of Update lead past the update of the secret.
LEMMA OnlyUpdate ==
  ASSUME TypeInv, NEW o \in Operators, Handle(o), pc'[o] \in WrittenSecret
  PROVE  Update(o)
<1>1. pc \in [Operators -> Labels]
  BY DEF TypeInv, TypeOK
<1>2. ~Deploy(o)
  BY <1>1 DEF Deploy, CreateSecret, CreateDeployment, CreateService,
     WaitForService, WaitForPodsWithLabelRunning, AfterDeploy, Answered,
     Reply, Refused, Goto, WrittenSecret
<1>3. ~ExposeSSO(o) /\ ~CleanupSSO(o)
  BY <1>1 DEF ExposeSSO, CleanupSSO, RunsJob, CreateConfigMap,
     CleanupConfigMap, CreateJob, DeleteStaleJob, WaitForJobComplete,
     DeleteJob, DeleteConfigMap, OnError, Answered, Reply, Refused, Goto,
     WrittenSecret
<1>4. /\ ~EnsureClusterRoleBinding(o) /\ ~IsSSOInitialized(o)
      /\ ~CreateClient(o) /\ ~FindIngressHosts(o) /\ ~UpdateClient(o)
      /\ ~UpdateStatus(o) /\ ~UndoClient(o) /\ ~RetireClient(o)
  BY <1>1 DEF EnsureClusterRoleBinding, IsSSOInitialized, CreateClient,
     FindIngressHosts, UpdateClient, UpdateStatus, UndoClient, RetireClient,
     Delete, Answered, Reply, Refused, Goto, WrittenSecret
<1> QED
  BY <1>2, <1>3, <1>4 DEF Handle

LEMMA LoneWrites ==
  ASSUME TypeInv, ProgressInv, LoneInv, NEW o \in Operators, Handle(o),
         pc'[o] \in WrittenSecret, sso'[key'[o]].live
  PROVE  /\ secret'[key'[o]] # None
         /\ secret'[key'[o]].config = Outcome(o)'
         /\ pc'[o] \in RolledOut =>
              /\ deployment'[key'[o]] # None
              /\ deployment'[key'[o]].version = Outcome(o)'
<1>1. /\ pc \in [Operators -> Labels] /\ Update(o)
      /\ secret \in [SSOs -> Secret \cup {None}]
      /\ deployment \in [SSOs -> Deployment \cup {None}]
  BY OnlyUpdate DEF TypeInv, TypeOK
<1>2. pc[o] \in {"UpdateSecret", "UpdateDeployment", "WaitForRollout"}
  BY <1>1 DEF Update, UpdateSecret, UpdateDeployment,
     WaitForPodsWithLabelRunning
<1>3. UNCHANGED <<key, client, sso>>
  BY <1>1 DEF Update, UpdateSecret, UpdateDeployment,
     WaitForPodsWithLabelRunning, eventVars, localVars
<1>4. /\ key[o] \in SSOs /\ sso[key[o]].live /\ redirect[o] = key[o]
      /\ proxyConfig(o) \in Config /\ obj[o].uid \in Nat
      /\ Outcome(o)' = Outcome(o) /\ proxyConfig(o) = Outcome(o)
  BY <1>2, <1>3, Known DEF InitOnly, InFlight, LoneInv, PastIngress,
     Redirected, Outcome, proxyConfig
<1>5. CASE UpdateSecret(o)
  <2>1. pc'[o] = "UpdateDeployment"
    BY <1>1, <1>5
    DEF UpdateSecret, Answered, Reply, Refused, Goto, WrittenSecret
  <2>2. secret'[key[o]] = [config |-> proxyConfig(o), owner |-> obj[o].uid]
    BY <1>1, <1>4, <1>5, <2>1 DEF UpdateSecret, Reply, Refused, Goto
  <2>3. secret'[key[o]] \in Secret
    BY <1>4, <2>2 DEF Secret
  <2> QED
    BY <1>3, <1>4, <2>1, <2>2, <2>3, AbsentAssumption DEF RolledOut
<1>6. CASE UpdateDeployment(o)
  <2>1. pc[o] = "UpdateDeployment" /\ secret' = secret
    BY <1>6 DEF UpdateDeployment
  <2>2. secret[key[o]] # None /\ secret[key[o]].config = Outcome(o)
    BY <1>4, <2>1 DEF LoneInv, WrittenSecret
  <2>3. HoldsClient(o)
    BY <2>1 DEF TypeInv, PathOK, HoldsClient, InFlight, InitOnly
  <2>4. deployment[key[o]] # None
    BY <1>4, <2>1, <2>3 DEF ProgressInv, Progress, PastDeployment, InFlight
  <2>5. pc'[o] # "UndoClient"
    BY DEF WrittenSecret
  <2>6. deployment'[key[o]] =
          [deployment[key[o]] EXCEPT !.version = proxyConfig(o)]
    BY <1>1, <1>4, <1>6, <2>4, <2>5 DEF UpdateDeployment, Refused, Goto
  <2>7. deployment[key[o]] \in Deployment
    BY <1>1, <1>4, <2>4
  <2>8. /\ deployment'[key[o]] \in Deployment
        /\ deployment'[key[o]].version = proxyConfig(o)
    BY <1>4, <2>6, <2>7 DEF Deployment
  <2> QED
    BY <1>3, <1>4, <2>1, <2>2, <2>8, AbsentAssumption
<1>7. CASE WaitForPodsWithLabelRunning(o, "WaitForRollout", "UpdateStatus")
  <2>1. pc[o] = "WaitForRollout" /\ UNCHANGED <<secret, deployment>>
    BY <1>7 DEF WaitForPodsWithLabelRunning, proxyVars
  <2> QED
    BY <1>3, <1>4, <2>1 DEF LoneInv, WrittenSecret, RolledOut
<1> QED
  BY <1>1, <1>5, <1>6, <1>7 DEF Update

LEMMA LoneStep ==
  ASSUME NeverRecreated, Lone, Benign, TypeInv, CreatedInv, OwnerInv, DeadInv,
         NamesInv, ProgressInv, LoneInv, [Next]_vars
  PROVE  LoneInv'
<1> SUFFICES
      ASSUME NEW o \in Operators
      PROVE  /\ pc'[o] \in Deciding /\ Kind(o)' = "expose" =>
                  ~(sso'[key'[o]].live /\ sso'[key'[o]].initialized)
             /\ pc'[o] \in PastIngress => redirect'[o] = key'[o]
             /\ pc'[o] \in WrittenSecret /\ sso'[key'[o]].live =>
                  /\ secret'[key'[o]] # None
                  /\ secret'[key'[o]].config = Outcome(o)'
             /\ pc'[o] \in RolledOut /\ sso'[key'[o]].live =>
                  /\ deployment'[key'[o]] # None
                  /\ deployment'[key'[o]].version = Outcome(o)'
  BY DEF LoneInv
<1>1. /\ PastIngress \subseteq Deciding /\ WrittenSecret \subseteq Deciding
      /\ RolledOut \subseteq WrittenSecret
  BY DEF Deciding, PastIngress, WrittenSecret, RolledOut, Redirected, InFlight
<1>2. CASE Handle(o)
  BY <1>1, <1>2, LoneDecides, LoneRedirects, LoneWrites
<1>3. CASE ~Handle(o)
  BY <1>1, <1>3, LoneElsewhere
<1> QED
  BY <1>2, <1>3

----------------------------------------------------------------------------
(* What an initialised SSO has stays configured *)

\* No call to dex is about the client of an SSO that exists.
LEMMA PublishedKept ==
  ASSUME TypeInv, PrivateInv, FateInv, [Next]_vars,
         NEW s \in SSOs, sso[s].live, Registered(sso[s].clientID)
  PROVE  dex'[sso[s].clientID] = dex[sso[s].clientID]
<1> DEFINE c == sso[s].clientID
<1>1. dex \in [ClientIds -> Redirects \cup {None}] /\ c \in ClientIds
  BY DEF TypeInv, TypeOK, Registered
<1>2. ASSUME NEW o \in Operators, CreateClient(o) PROVE dex'[c] = dex[c]
  BY <1>1, <1>2 DEF CreateClient, NewId, Unused
<1>3. ASSUME NEW o \in Operators, UpdateClient(o) PROVE dex'[c] = dex[c]
  <2>1. Private(o)
    BY <1>3, RedirectedHolds DEF UpdateClient
  <2> QED
    BY <1>1, <1>3, <2>1 DEF UpdateClient, Private, Registered
<1>4. ASSUME NEW o \in Operators, UndoClient(o) PROVE dex'[c] = dex[c]
  BY <1>1, <1>4 DEF UndoClient, Delete, FateInv, Registered
<1>5. ASSUME NEW o \in Operators, RetireClient(o) PROVE dex'[c] = dex[c]
  <2>1. ~obj[o].live /\ Retired(obj[o])
    BY <1>5 DEF RetireClient, Delete, FateInv
  <2>2. obj[o].clientID # c
    BY <1>1, <2>1, ConstantsAssumption DEF Retired
  <2> QED
    BY <1>1, <1>5, <2>2 DEF RetireClient, Delete, Registered
<1>6. \/ dex' = dex
      \/ \E o \in Operators : \/ CreateClient(o) \/ UpdateClient(o)
                              \/ UndoClient(o) \/ RetireClient(o)
  BY DeployMoves, UpdateMoves, ExposeMoves, CleanupMoves, StartMoves,
     OtherSteps DEF Next, Handle, FindIngressHosts, UpdateStatus, vars,
     Return, Crash, Panic, Restart, Begin
<1> QED
  BY <1>2, <1>3, <1>4, <1>5, <1>6

\* No Handle call writes the secret or the deployment of an SSO that is
\* initialised.
LEMMA ProxyKept ==
  ASSUME TypeInv, CreatedInv, OwnerInv, LoneInv, [Next]_vars, NEW s \in SSOs,
         sso[s].live, sso[s].initialized, Configured(s)
  PROVE  secret'[s] = secret[s] /\ deployment'[s] = deployment[s]
<1>1. /\ secret \in [SSOs -> Secret \cup {None}]
      /\ deployment \in [SSOs -> Deployment \cup {None}]
      /\ secret[s] # None /\ deployment[s] # None
  BY DEF TypeInv, TypeOK, Configured
<1>2. ASSUME NEW o \in Operators, UpdateSecret(o) \/ UpdateDeployment(o)
      PROVE  key[o] # s
  <2>1. pc[o] \in Deciding /\ Kind(o) = "expose"
    BY <1>2 DEF UpdateSecret, UpdateDeployment, TypeInv, PathOK, InitOnly,
       Deciding, InFlight
  <2> QED
    BY <2>1 DEF LoneInv
<1>3. ASSUME NEW o \in Operators, CreateSecret(o) \/ UpdateSecret(o)
      PROVE  secret'[s] = secret[s] /\ deployment' = deployment
  BY <1>1, <1>2, <1>3 DEF CreateSecret, UpdateSecret
<1>4. ASSUME NEW o \in Operators, CreateDeployment(o) \/ UpdateDeployment(o)
      PROVE  secret' = secret /\ deployment'[s] = deployment[s]
  BY <1>1, <1>2, <1>4 DEF CreateDeployment, UpdateDeployment
<1>5. ASSUME NEW o \in Operators, CreateService(o)
      PROVE  secret' = secret /\ deployment' = deployment
  BY <1>5 DEF CreateService
<1> QED
  BY <1>3, <1>4, <1>5, ProxySteps, Spared

LEMMA ConfiguredStep ==
  ASSUME TypeInv, PrivateInv, FateInv, RedirectInv, CreatedInv, OwnerInv,
         LoneInv, InitializedIsConfigured, [Next]_vars
  PROVE  InitializedIsConfigured'
<1> SUFFICES ASSUME NEW s \in SSOs, sso'[s].live, sso'[s].initialized
             PROVE  Configured(s)'
  BY DEF InitializedIsConfigured
<1>1. CASE /\ sso[s].live /\ sso[s].initialized
           /\ sso'[s].clientID = sso[s].clientID
  <2>1. Configured(s)
    BY <1>1 DEF InitializedIsConfigured
  <2>2. dex'[sso[s].clientID] = dex[sso[s].clientID]
    BY <1>1, <2>1, PublishedKept DEF Configured
  <2>3. secret'[s] = secret[s] /\ deployment'[s] = deployment[s]
    BY <1>1, <2>1, ProxyKept
  <2> QED
    BY <1>1, <2>1, <2>2, <2>3 DEF Configured, Registered
<1>2. ASSUME NEW o \in Operators, UpdateStatus(o), key[o] = s, sso[s].live,
             sso'[s].clientID = client[o]
      PROVE  Configured(s)'
  <2>1. pc[o] = "UpdateStatus" /\ UNCHANGED <<dex, secret, deployment>>
    BY <1>2 DEF UpdateStatus, proxyVars
  <2>2. Private(o) /\ dex[client[o]] = s
    BY <1>2, <2>1, RedirectedHolds DEF RedirectInv, Redirected
  <2>3. /\ secret[s] # None /\ secret[s].config = Outcome(o)
        /\ deployment[s] # None /\ deployment[s].version = Outcome(o)
    BY <1>2, <2>1 DEF LoneInv, WrittenSecret, RolledOut
  <2> QED
    BY <1>2, <2>1, <2>2, <2>3 DEF Configured, Private, Registered, Outcome
<1> QED
  BY <1>1, <1>2, InitializedBefore

\* An SSO whose status says initialised is configured: dex redirects the
\* client it names to the SSO's own host, and the secret and the deployment
\* carry that client and that host.  It holds for one operator, for any
\* number of SSOs that it interleaves, and for every crash and panic at any
\* moment, every refusal but that of the status list and every lost reply but
\* that of the status update.
THEOREM InitializedMeansConfigured ==
  ASSUME NeverRecreated, Lone, Benign
  PROVE  Spec => []InitializedIsConfigured
<1> DEFINE Inv == /\ TypeInv /\ PrivateInv /\ FateInv /\ NamesInv
                  /\ RedirectInv /\ CreatedInv /\ OwnerInv /\ DeadInv
                  /\ ProgressInv /\ LoneInv /\ InitializedIsConfigured
<1>1. AppsApart
  BY DEF AppsApart, Benign
<1>2. Init => Inv
  <2>1. Init => InitializedIsConfigured
    BY DEF Init, InitializedIsConfigured, NoSSO
  <2> QED
    BY <2>1, InitType, InitPrivate, InitFate, InitNames, InitRedirect,
       InitCreated, InitOwner, InitDead, InitProgress, InitLone
<1>3. Inv /\ [Next]_vars => Inv'
  <2> SUFFICES ASSUME Inv, [Next]_vars PROVE Inv'
    OBVIOUS
  <2>1. TypeInv' /\ PrivateInv' /\ FateInv' /\ NamesInv' /\ RedirectInv'
    BY TypeStep, HandlePrivate, OtherPrivate, FateStep, NamesStep,
       RedirectStep
  <2>2. CreatedInv' /\ OwnerInv' /\ DeadInv'
    BY CreatedStep, OwnerStep, DeadStep
  <2>3. ProgressInv' /\ LoneInv' /\ InitializedIsConfigured'
    BY <1>1, ProgressStep, LoneStep, ConfiguredStep
  <2> QED
    BY <2>1, <2>2, <2>3
<1> QED
  BY <1>2, <1>3, PTL DEF Spec
----------------------------------------------------------------------------
(* Whom the objects of a proxy belong to *)

\* A copy is of an incarnation that the SSO has or had, and a Handle call works
\* on a copy of one that was created.
BornInv ==
  /\ \A o \in Operators, s \in SSOs :
       /\ cache[o][s].uid <= sso[s].uid
       /\ cache[o][s].live \/ tries[o][s] > 0 => cache[o][s].uid > 0
  /\ \A o \in Operators :
       pc[o] # "idle" => obj[o].uid \in 1 .. sso[key[o]].uid

LEMMA InitBorn == Init => BornInv /\ ProxyIsOwned
BY DEF Init, BornInv, ProxyIsOwned, Owned, NoSSO

\* An SSO that is created again has a new identity, and never an old one.
LEMMA UidGrows ==
  ASSUME TypeInv, [Next]_vars, NEW s \in SSOs
  PROVE  /\ sso[s].uid \in Nat /\ sso'[s].uid \in Nat
         /\ sso[s].uid <= sso'[s].uid
<1>1. sso[s].uid \in Nat
  BY DEF TypeInv, TypeOK, SSOObject
<1>2. ASSUME NEW o \in Operators, UpdateStatus(o), sso' # sso
      PROVE  sso'[s].uid = sso[s].uid
  BY <1>2, StatusUpdate
<1>3. ASSUME NEW t \in SSOs, CreateSSO(t)
      PROVE  sso'[s].uid \in {sso[s].uid, sso[s].uid + 1}
  BY <1>3, UserCreates
<1>4. ASSUME NEW t \in SSOs, EditSSO(t) \/ DeleteSSO(t)
      PROVE  sso'[s].uid = sso[s].uid
  BY <1>4, UserKeeps
<1>5. sso'[s].uid \in {sso[s].uid, sso[s].uid + 1}
  BY <1>2, <1>3, <1>4, SSOSteps
<1> QED
  BY <1>1, <1>5

\* The informer's copies.  The deletion of an SSO is observed only by who has
\* a copy of it.
LEMMA CopyBorn ==
  ASSUME TypeInv, CreatedInv, BornInv, [Next]_vars,
         NEW o \in Operators, NEW s \in SSOs
  PROVE  /\ cache'[o][s].uid <= sso'[s].uid
         /\ cache'[o][s].live \/ tries'[o][s] > 0 => cache'[o][s].uid > 0
<1>1. /\ cache \in [Operators -> [SSOs -> SSOObject]]
      /\ tries \in [Operators -> [SSOs -> Nat]]
      /\ cache[o][s].uid \in Nat /\ sso[s].uid \in Nat
  BY DEF TypeInv, TypeOK, SSOObject
<1>2. ~NoSSO.live /\ NoSSO.uid = 0
  BY DEF NoSSO
<1>3. /\ cache[o][s].uid <= sso[s].uid
      /\ cache[o][s].live \/ tries[o][s] > 0 => cache[o][s].uid > 0
      /\ sso[s].live => sso[s].uid > 0
  BY DEF BornInv, CreatedInv
<1>4. cache'[o][s].uid <= sso'[s].uid
  <2>1. cache'[o][s].uid \in {cache[o][s].uid, 0, sso[s].uid}
    BY <1>2, CopySteps
  <2>2. sso'[s].uid \in Nat /\ sso[s].uid <= sso'[s].uid
    BY UidGrows
  <2> QED
    BY <1>1, <1>3, <2>1, <2>2
<1>5. ASSUME cache'[o][s].live \/ tries'[o][s] > 0
      PROVE  cache'[o][s].uid > 0
  <2>1. CASE tries' = tries /\ cache'[o][s] = cache[o][s]
    BY <1>3, <1>5, <2>1
  <2>2. ASSUME NEW p \in Operators, Return(p) PROVE cache'[o][s].uid > 0
    <3>1. cache' = cache /\ (tries'[o][s] > 0 => tries[o][s] > 0)
      BY <1>1, <2>2 DEF Return
    <3> QED
      BY <1>3, <1>5, <3>1
  <2>3. ASSUME NEW p \in Operators, Restart(p) PROVE cache'[o][s].uid > 0
    <3>1. \/ cache'[o][s] = cache[o][s] /\ tries'[o][s] = tries[o][s]
          \/ cache'[o][s] = NoSSO /\ tries'[o][s] = 0
      BY <1>1, <2>3 DEF Restart
    <3> QED
      BY <1>2, <1>3, <1>5, <3>1
  <2>4. ASSUME NEW p \in Operators, NEW t \in SSOs, Observe(p, t)
        PROVE  cache'[o][s].uid > 0
    <3>1. \/ cache'[o][s] = cache[o][s] /\ tries'[o][s] = tries[o][s]
          \/ /\ cache'[o][s] = sso[s]
             /\ sso[s].live \/ cache[o][s].live
      BY <1>1, <2>4 DEF Observe
    <3>2. sso[s].live \/ cache[o][s].live => sso[s].uid > 0
      BY <1>1, <1>3
    <3> QED
      BY <1>3, <1>5, <3>1, <3>2
  <2> QED
    BY <2>1, <2>2, <2>3, <2>4, SDKSteps DEF sdkVars
<1> QED
  BY <1>4, <1>5

\* The Handle calls.
LEMMA CallBorn ==
  ASSUME TypeInv, BornInv, [Next]_vars, NEW o \in Operators, pc'[o] # "idle"
  PROVE  obj'[o].uid \in 1 .. sso'[key'[o]].uid
<1>1. CASE pc[o] # "idle" /\ key'[o] = key[o] /\ obj'[o] = obj[o]
  <2>1. key[o] \in SSOs /\ obj[o].uid \in 1 .. sso[key[o]].uid
    BY <1>1, Known DEF BornInv
  <2>2. PICK s \in SSOs : s = key[o]
    BY <2>1
  <2>3. /\ sso[s].uid \in Nat /\ sso'[s].uid \in Nat
        /\ sso[s].uid <= sso'[s].uid
    BY UidGrows
  <2>4. obj[o].uid \in 1 .. sso'[s].uid
    BY <2>1, <2>2, <2>3
  <2> QED
    BY <1>1, <2>2, <2>4
<1>2. ASSUME NEW s \in SSOs, Begin(o, s)
      PROVE  obj'[o].uid \in 1 .. sso'[key'[o]].uid
  <2>1. key'[o] = s /\ obj'[o] = cache[o][s] /\ sso' = sso
    BY <1>2 DEF Begin, TypeInv, TypeOK
  <2>2. /\ cache[o][s].uid \in Nat /\ sso[s].uid \in Nat
        /\ cache[o][s].uid > 0 /\ cache[o][s].uid <= sso[s].uid
    BY <1>2 DEF Begin, BornInv, TypeInv, TypeOK, SSOObject
  <2> QED
    BY <2>1, <2>2
<1> QED
  BY <1>1, <1>2, CallSteps

LEMMA BornStep ==
  ASSUME TypeInv, CreatedInv, BornInv, [Next]_vars
  PROVE  BornInv'
BY CopyBorn, CallBorn DEF BornInv

LEMMA OwnedStep ==
  ASSUME TypeInv, BornInv, ProxyIsOwned, [Next]_vars
  PROVE  ProxyIsOwned'
<1> SUFFICES ASSUME NEW s \in SSOs
             PROVE  /\ Owned(s, secret[s])' /\ Owned(s, deployment[s])'
                    /\ Owned(s, service[s])'
  BY DEF ProxyIsOwned
<1>1. /\ sso[s].uid \in Nat /\ sso'[s].uid \in Nat
      /\ sso[s].uid <= sso'[s].uid
  BY UidGrows
<1>2. ASSUME NEW uid, \E o \in Operators : Writes(o, s, uid)
      PROVE  uid \in 1 .. sso'[s].uid
  <2>1. uid \in 1 .. sso[s].uid
    BY <1>2 DEF Writes, BornInv
  <2> QED
    BY <1>1, <2>1
<1>3. ASSUME NEW object, object # None, Owned(s, object)
      PROVE  object.owner \in 1 .. sso'[s].uid
  <2>1. object.owner \in 1 .. sso[s].uid
    BY <1>3 DEF Owned
  <2> QED
    BY <1>1, <2>1
<1>4. /\ Owned(s, secret[s]) /\ Owned(s, deployment[s])
      /\ Owned(s, service[s])
  BY DEF ProxyIsOwned
<1>5. /\ secret'[s] # None => secret'[s].owner \in 1 .. sso'[s].uid
      /\ deployment'[s] # None => deployment'[s].owner \in 1 .. sso'[s].uid
      /\ service'[s] # None => service'[s].owner \in 1 .. sso'[s].uid
  BY <1>2, <1>3, <1>4, OwnerSteps DEF Kept
<1> QED
  BY <1>5 DEF Owned

\* Every object of a proxy has an owner that its SSO is or was, so that none is
\* left to nobody when the SSO is gone: for any number of operators, SSOs and
\* re-creations, and any fault at any moment.
THEOREM ProxiesAreOwned == Spec => []ProxyIsOwned
<1> DEFINE Inv == TypeInv /\ CreatedInv /\ BornInv /\ ProxyIsOwned
<1>1. Init => Inv
  BY InitType, InitCreated, InitBorn
<1>2. Inv /\ [Next]_vars => Inv'
  BY TypeStep, CreatedStep, BornStep, OwnedStep
<1> QED
  BY <1>1, <1>2, PTL DEF Spec
=============================================================================
