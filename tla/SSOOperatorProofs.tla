------------------------- MODULE SSOOperatorProofs -------------------------
(***************************************************************************)
(* Theorems about SSOOperator, for any number of operators, SSOs, client   *)
(* ids, faults and retries: the type invariant, the privacy of the client  *)
(* a Handle call works with, and the stability of the published status.    *)
(***************************************************************************)
EXTENDS SSOOperator, TLAPS

\* The steps Handle takes only on the initialisation path; the others of
\* InFlight are shared by Expose and Cleanup.
InitOnly ==
  {"IsSSOInitialized", "CreateClient", "CreateSecret", "CreateDeployment",
   "CreateService", "WaitForService", "WaitForPods", "FindIngressHosts",
   "UpdateClient", "UpdateSecret", "UpdateDeployment", "WaitForRollout",
   "UpdateStatus", "UndoClient"}

\* A Handle call knows its SSO, is on the path its event asks for, and has a
\* client once it is past CreateClient.
PathOK ==
  \A o \in Operators :
    /\ pc[o] # "idle" => key[o] \in SSOs
    /\ pc[o] \in InitOnly => Kind(o) = "expose"
    /\ HoldsClient(o) => client[o] \in ClientIds

\* Once its secret is created a Handle call knows an app name of its SSO.
AppOK ==
  \A o \in Operators :
    HoldsClient(o) /\ pc[o] # "CreateSecret" => app[o] \in getAppName(key[o])

TypeInv == TypeOK /\ PathOK /\ AppOK

\* The client a Handle call holds is registered, and nobody else knows it: no
\* other Handle call, no status and no operator's copy of a status.
Private(o) ==
  /\ Registered(client[o])
  /\ \A p \in Operators : p # o => client[p] # client[o]
  /\ \A p \in Operators : obj[p].clientID # client[o]
  /\ \A s \in SSOs : sso[s].clientID # client[o]
  /\ \A p \in Operators, s \in SSOs : cache[p][s].clientID # client[o]
PrivateInv == \A o \in Operators : HoldsClient(o) => Private(o)

\* An operator's copy of an SSO is never ahead of the API server, and a Handle
\* call that decided to initialise the SSO is behind it if the SSO has been
\* initialised meanwhile.
Deciding == InFlight \cup {"CreateClient"}
VersionInv ==
  /\ \A o \in Operators, s \in SSOs : cache[o][s].rv <= sso[s].rv
  /\ \A o \in Operators :
       pc[o] # "idle" => obj[o].rv <= sso[key[o]].rv
  /\ \A o \in Operators :
       /\ pc[o] \in Deciding /\ Kind(o) = "expose"
       /\ sso[key[o]].live /\ sso[key[o]].initialized
       => obj[o].rv # sso[key[o]].rv

----------------------------------------------------------------------------
(* Type correctness *)

LEMMA InitType == Init => TypeInv
<1> SUFFICES ASSUME Init PROVE TypeInv
  OBVIOUS
<1>1. TypeOK
  BY ConstantsAssumption DEF Init, TypeOK, NoSSO, SSOObject, MaybeId,
     Redirects, Labels
<1>2. PathOK
  BY DEF Init, PathOK, HoldsClient, InitOnly, InFlight
<1>3. AppOK
  BY DEF Init, AppOK, HoldsClient, InFlight
<1> QED
  BY <1>1, <1>2, <1>3 DEF TypeInv

\* What any answer of a call does to the control variables.
CallTypeOK == pc' \in [Operators -> Labels] /\ faults' \in 0 .. MaxFaults

LEMMA ReplyType ==
  ASSUME TypeOK, NEW o \in Operators, NEW l \in Labels, Reply(o, l)
  PROVE  CallTypeOK
BY DEF TypeOK, CallTypeOK, Reply, Goto

LEMMA RefusedType ==
  ASSUME TypeOK, NEW o \in Operators, NEW call, NEW l \in Labels,
         Refused(o, call, l)
  PROVE  CallTypeOK
BY ConstantsAssumption DEF TypeOK, CallTypeOK, Refused, Fault, Goto

LEMMA AnsweredType ==
  ASSUME TypeOK, NEW o \in Operators, NEW call, NEW l \in Labels,
         NEW e \in Labels, Answered(o, call, l, e)
  PROVE  CallTypeOK
<1>1. CASE Reply(o, l)
  BY <1>1, ReplyType
<1>2. CASE Fault /\ Goto(o, e)
  BY <1>2, ConstantsAssumption DEF TypeOK, CallTypeOK, Fault, Goto
<1> QED
  BY <1>1, <1>2 DEF Answered

LEMMA AppsOf ==
  ASSUME NEW s \in SSOs, NEW a \in getAppName(s) PROVE a \in Apps
BY DEF Apps

\* What the event of a Handle call in progress provides.
LEMMA Known ==
  ASSUME TypeInv, NEW o \in Operators, pc[o] # "idle"
  PROVE  /\ TypeOK
         /\ key[o] \in SSOs
         /\ obj[o].uid \in Nat
         /\ pc[o] \in InFlight \cap InitOnly => proxyConfig(o) \in Config
         /\ pc[o] \in (InFlight \cap InitOnly) \ {"CreateSecret"} =>
              app[o] \in getAppName(key[o]) /\ app[o] \in Apps
<1>1. TypeOK /\ key[o] \in SSOs
  BY DEF TypeInv, PathOK
<1>2. obj[o].uid \in Nat
  BY <1>1 DEF TypeOK, SSOObject
<1>3. ASSUME pc[o] \in InFlight \cap InitOnly PROVE proxyConfig(o) \in Config
  <2>1. client[o] \in ClientIds
    BY <1>3 DEF TypeInv, PathOK, HoldsClient
  <2> QED
    BY <1>1, <2>1 DEF TypeOK, proxyConfig, Config
<1>4. ASSUME pc[o] \in (InFlight \cap InitOnly) \ {"CreateSecret"}
      PROVE  app[o] \in getAppName(key[o]) /\ app[o] \in Apps
  <2>1. app[o] \in getAppName(key[o])
    BY <1>4 DEF TypeInv, PathOK, AppOK, HoldsClient
  <2> QED
    BY <1>1, <2>1, AppsOf
<1> QED
  BY <1>1, <1>2, <1>3, <1>4

LEMMA CreateClientType ==
  ASSUME TypeInv, NEW o \in Operators, CreateClient(o)
  PROVE  TypeOK'
<1>1. CallTypeOK
  <2>1. CASE Reply(o, "CreateSecret")
    BY <2>1, ReplyType DEF TypeInv, Labels, InFlight
  <2>2. CASE Refused(o, "CreateClient", "err")
    BY <2>2, RefusedType DEF TypeInv, Labels
  <2>3. CASE Fault /\ Goto(o, "err")
    BY <2>3, ConstantsAssumption
    DEF TypeInv, TypeOK, CallTypeOK, Fault, Goto, Labels
  <2> QED
    BY <2>1, <2>2, <2>3 DEF CreateClient
<1>2. dex' \in [ClientIds -> Redirects \cup {None}]
  BY DEF TypeInv, TypeOK, CreateClient, NewId, Unused, Redirects
<1>3. client' \in [Operators -> MaybeId]
  BY DEF TypeInv, TypeOK, CreateClient, NewId, Unused, MaybeId
<1> QED
  BY <1>1, <1>2, <1>3 DEF TypeInv, TypeOK, CallTypeOK, CreateClient,
     proxyVars, exposeVars, sdkVars, eventVars

LEMMA UpdateClientType ==
  ASSUME TypeInv, NEW o \in Operators, UpdateClient(o)
  PROVE  TypeOK'
<1>1. CallTypeOK
  BY RefusedType, AnsweredType DEF TypeInv, UpdateClient, Labels, InFlight
<1>2. dex' \in [ClientIds -> Redirects \cup {None}]
  BY DEF TypeInv, TypeOK, UpdateClient, Registered
<1> QED
  BY <1>1, <1>2 DEF TypeInv, TypeOK, CallTypeOK, UpdateClient,
     proxyVars, exposeVars, sdkVars, eventVars, localVars

LEMMA DeleteType ==
  ASSUME TypeInv, NEW o \in Operators, NEW call, NEW c, NEW l \in Labels,
         NEW e \in Labels, Delete(o, call, c, l, e)
  PROVE  TypeOK'
<1>1. CallTypeOK
  BY RefusedType, AnsweredType DEF TypeInv, Delete
<1>2. dex' \in [ClientIds -> Redirects \cup {None}]
  BY DEF TypeInv, TypeOK, Delete, Registered
<1> QED
  BY <1>1, <1>2 DEF TypeInv, TypeOK, CallTypeOK, Delete,
     proxyVars, exposeVars, sdkVars, eventVars, localVars

LEMMA CreateSecretType ==
  ASSUME TypeInv, NEW o \in Operators, CreateSecret(o)
  PROVE  TypeOK'
<1>1. key[o] \in SSOs /\ proxyConfig(o) \in Config /\ obj[o].uid \in Nat
  BY Known DEF CreateSecret, InitOnly, InFlight
<1>2. CallTypeOK
  BY ReplyType, RefusedType, AnsweredType
  DEF TypeInv, CreateSecret, Labels, InFlight
<1>3. [config |-> proxyConfig(o), owner |-> obj[o].uid] \in Secret
  BY <1>1 DEF Secret
<1>4. secret' \in [SSOs -> Secret \cup {None}]
  BY <1>1, <1>3 DEF TypeInv, TypeOK, CreateSecret
<1>5. fresh' \in [Operators -> BOOLEAN]
  BY DEF TypeInv, TypeOK, CreateSecret
<1>6. app' \in [Operators -> Apps \cup {None}]
  <2>1. \A a \in getAppName(key[o]) :
          [app EXCEPT ![o] = a] \in [Operators -> Apps \cup {None}]
    BY <1>1, AppsOf DEF TypeInv, TypeOK
  <2> QED
    BY <2>1 DEF TypeInv, TypeOK, CreateSecret
<1> QED
  BY <1>2, <1>4, <1>5, <1>6 DEF TypeInv, TypeOK, CallTypeOK, CreateSecret,
     exposeVars, sdkVars, eventVars

LEMMA CreateDeploymentType ==
  ASSUME TypeInv, NEW o \in Operators, CreateDeployment(o)
  PROVE  TypeOK'
<1>1. /\ key[o] \in SSOs /\ proxyConfig(o) \in Config /\ obj[o].uid \in Nat
      /\ app[o] \in Apps
  BY Known DEF CreateDeployment, InitOnly, InFlight
<1>2. CallTypeOK
  BY ReplyType, RefusedType, AnsweredType
  DEF TypeInv, CreateDeployment, Labels, InFlight
<1>3. [version |-> proxyConfig(o), app |-> app[o], owner |-> obj[o].uid]
        \in Deployment
  BY <1>1 DEF Deployment
<1>4. deployment' \in [SSOs -> Deployment \cup {None}]
  BY <1>1, <1>3 DEF TypeInv, TypeOK, CreateDeployment
<1> QED
  BY <1>2, <1>4 DEF TypeInv, TypeOK, CallTypeOK, CreateDeployment,
     exposeVars, sdkVars, eventVars, localVars

LEMMA CreateServiceType ==
  ASSUME TypeInv, NEW o \in Operators, CreateService(o)
  PROVE  TypeOK'
<1>1. key[o] \in SSOs /\ obj[o].uid \in Nat /\ app[o] \in Apps
  BY Known DEF CreateService, InitOnly, InFlight
<1>2. CallTypeOK
  BY ReplyType, RefusedType, AnsweredType
  DEF TypeInv, CreateService, Labels, InFlight
<1>3. [app |-> app[o], owner |-> obj[o].uid] \in Service
  BY <1>1 DEF Service
<1>4. service' \in [SSOs -> Service \cup {None}]
  BY <1>1, <1>3 DEF TypeInv, TypeOK, CreateService
<1> QED
  BY <1>2, <1>4 DEF TypeInv, TypeOK, CallTypeOK, CreateService,
     exposeVars, sdkVars, eventVars, localVars

LEMMA WaitForServiceType ==
  ASSUME TypeInv, NEW o \in Operators, WaitForService(o)
  PROVE  TypeOK'
<1>1. CallTypeOK
  BY ReplyType, RefusedType DEF TypeInv, WaitForService, Labels, InFlight
<1> QED
  BY <1>1 DEF TypeInv, TypeOK, CallTypeOK, WaitForService, proxyVars,
     exposeVars, sdkVars, eventVars, localVars

LEMMA WaitForPodsType ==
  ASSUME TypeInv, NEW o \in Operators, NEW label, NEW next \in Labels,
         WaitForPodsWithLabelRunning(o, label, next)
  PROVE  TypeOK'
<1>1. CallTypeOK
  BY ReplyType, RefusedType
  DEF TypeInv, WaitForPodsWithLabelRunning, Labels
<1> QED
  BY <1>1 DEF TypeInv, TypeOK, CallTypeOK, WaitForPodsWithLabelRunning,
     proxyVars, exposeVars, sdkVars, eventVars, localVars

LEMMA UpdateSecretType ==
  ASSUME TypeInv, NEW o \in Operators, UpdateSecret(o)
  PROVE  TypeOK'
<1>1. key[o] \in SSOs /\ proxyConfig(o) \in Config /\ obj[o].uid \in Nat
  BY Known DEF UpdateSecret, InitOnly, InFlight
<1>2. CallTypeOK
  BY ReplyType, RefusedType, AnsweredType
  DEF TypeInv, UpdateSecret, Labels, InFlight
<1>3. [config |-> proxyConfig(o), owner |-> obj[o].uid] \in Secret
  BY <1>1 DEF Secret
<1>4. secret' \in [SSOs -> Secret \cup {None}]
  BY <1>1, <1>3 DEF TypeInv, TypeOK, UpdateSecret
<1> QED
  BY <1>2, <1>4 DEF TypeInv, TypeOK, CallTypeOK, UpdateSecret,
     exposeVars, sdkVars, eventVars, localVars

LEMMA UpdateDeploymentType ==
  ASSUME TypeInv, NEW o \in Operators, UpdateDeployment(o)
  PROVE  TypeOK'
<1>1. key[o] \in SSOs /\ proxyConfig(o) \in Config
  BY Known DEF UpdateDeployment, InitOnly, InFlight
<1>2. CallTypeOK
  BY ReplyType, RefusedType, AnsweredType
  DEF TypeInv, UpdateDeployment, Labels, InFlight
<1>3. deployment[key[o]] # None =>
        [deployment[key[o]] EXCEPT !.version = proxyConfig(o)] \in Deployment
  <2>1. deployment[key[o]] # None => deployment[key[o]] \in Deployment
    BY <1>1 DEF TypeInv, TypeOK
  <2> QED
    BY <1>1, <2>1 DEF Deployment
<1>4. deployment' \in [SSOs -> Deployment \cup {None}]
  BY <1>1, <1>3 DEF TypeInv, TypeOK, UpdateDeployment
<1> QED
  BY <1>2, <1>4 DEF TypeInv, TypeOK, CallTypeOK, UpdateDeployment,
     exposeVars, sdkVars, eventVars, localVars

LEMMA PodType ==
  ASSUME TypeInv, NEW s \in SSOs, StartPod(s) \/ StopPod(s)
  PROVE  TypeOK'
<1>1. CASE StartPod(s)
  <2>1. [version |-> deployment[s].version, config |-> secret[s].config]
          \in Pod
    BY <1>1 DEF TypeInv, TypeOK, StartPod, Deployment, Secret, Pod
  <2>2. pod' \in [SSOs -> Pod \cup {None}]
    BY <1>1, <2>1 DEF TypeInv, TypeOK, StartPod
  <2> QED
    BY <1>1, <2>2 DEF TypeInv, TypeOK, StartPod, exposeVars, sdkVars,
       handlerVars
<1>2. CASE StopPod(s)
  BY <1>2 DEF TypeInv, TypeOK, StopPod, exposeVars, sdkVars, handlerVars
<1> QED
  BY <1>1, <1>2

LEMMA ConfigMapType ==
  ASSUME TypeInv, NEW o \in Operators,
         CreateConfigMap(o) \/ CleanupConfigMap(o)
  PROVE  TypeOK'
<1>1. key[o] \in SSOs /\ obj[o].uid \in Nat
  BY Known DEF CreateConfigMap, CleanupConfigMap
<1>2. CallTypeOK
  BY ReplyType, RefusedType, AnsweredType
  DEF TypeInv, CreateConfigMap, CleanupConfigMap, Labels, InFlight
<1>3. \A k \in JobKinds :
        [service |-> key[o], owner |-> JobOwner(o, k)] \in ConfigMap
  BY <1>1 DEF ConfigMap, JobOwner, NoOwner
<1>4. configMap' \in ConfigMap \cup {None}
  BY <1>3 DEF TypeInv, TypeOK, CreateConfigMap, CleanupConfigMap, JobKinds
<1> QED
  BY <1>2, <1>4 DEF TypeInv, TypeOK, CallTypeOK, CreateConfigMap,
     CleanupConfigMap, proxyVars, sdkVars, eventVars, localVars

LEMMA OnErrorType == ASSUME NEW k PROVE OnError(k) \in Labels
BY DEF OnError, Labels

LEMMA CreateJobType ==
  ASSUME TypeInv, NEW o \in Operators, NEW k \in JobKinds, CreateJob(o, k)
  PROVE  TypeOK'
<1>1. key[o] \in SSOs /\ obj[o].uid \in Nat
  BY Known DEF CreateJob
<1>2. CallTypeOK
  BY ReplyType, RefusedType, AnsweredType, OnErrorType
  DEF TypeInv, CreateJob, Labels, InFlight
<1>3. [state |-> "running", owner |-> JobOwner(o, k)] \in Job
  BY <1>1 DEF Job, JobOwner, NoOwner
<1>4. job' \in [SSOs -> [JobKinds -> Job \cup {None}]]
  BY <1>1, <1>3 DEF TypeInv, TypeOK, CreateJob
<1> QED
  BY <1>2, <1>4 DEF TypeInv, TypeOK, CallTypeOK, CreateJob, proxyVars,
     sdkVars, eventVars, localVars

LEMMA DeleteJobType ==
  ASSUME TypeInv, NEW o \in Operators, NEW k \in JobKinds,
         DeleteStaleJob(o, k) \/ DeleteJob(o, k)
  PROVE  TypeOK'
<1>1. key[o] \in SSOs
  BY Known DEF DeleteStaleJob, DeleteJob
<1>2. CallTypeOK
  BY ReplyType, RefusedType, AnsweredType, OnErrorType
  DEF TypeInv, DeleteStaleJob, DeleteJob, Labels, InFlight
<1>3. job' \in [SSOs -> [JobKinds -> Job \cup {None}]]
  <2>1. [job EXCEPT ![key[o]][k] = None]
          \in [SSOs -> [JobKinds -> Job \cup {None}]]
    BY <1>1 DEF TypeInv, TypeOK
  <2> QED
    BY <2>1 DEF TypeInv, TypeOK, DeleteStaleJob, DeleteJob
<1>4. stray' \in [SSOs -> SUBSET JobKinds]
  <2>1. [stray EXCEPT ![key[o]] = @ \cup {k}] \in [SSOs -> SUBSET JobKinds]
    BY <1>1 DEF TypeInv, TypeOK
  <2> QED
    BY <2>1 DEF TypeInv, TypeOK, DeleteStaleJob, DeleteJob
<1> QED
  BY <1>2, <1>3, <1>4 DEF TypeInv, TypeOK, CallTypeOK, DeleteStaleJob, DeleteJob,
     proxyVars, sdkVars, eventVars, localVars

LEMMA WaitForJobType ==
  ASSUME TypeInv, NEW o \in Operators, NEW k \in JobKinds,
         WaitForJobComplete(o, k)
  PROVE  TypeOK'
<1>1. CallTypeOK
  BY ReplyType, RefusedType, OnErrorType
  DEF TypeInv, WaitForJobComplete, Labels, InFlight
<1> QED
  BY <1>1 DEF TypeInv, TypeOK, CallTypeOK, WaitForJobComplete, proxyVars,
     exposeVars, sdkVars, eventVars, localVars

LEMMA DeleteConfigMapType ==
  ASSUME TypeInv, NEW o \in Operators, NEW k \in JobKinds,
         DeleteConfigMap(o, k)
  PROVE  TypeOK'
<1>1. CallTypeOK
  BY ReplyType, RefusedType, AnsweredType, OnErrorType
  DEF TypeInv, DeleteConfigMap, Labels, InFlight
<1> QED
  BY <1>1 DEF TypeInv, TypeOK, CallTypeOK, DeleteConfigMap, proxyVars,
     sdkVars, eventVars, localVars

LEMMA JobRunType ==
  ASSUME TypeInv, NEW s \in SSOs,
         \/ ExposeJobRuns(s) \/ CleanupJobRuns(s)
         \/ \E k \in JobKinds : JobFails(s, k)
  PROVE  TypeOK'
<1>1. \A k \in JobKinds, x \in {"complete", "failed"} :
        job[s][k] # None => [job[s][k] EXCEPT !.state = x] \in Job
  <2> SUFFICES ASSUME NEW k \in JobKinds, NEW x \in {"complete", "failed"},
                      job[s][k] # None
               PROVE  [job[s][k] EXCEPT !.state = x] \in Job
    OBVIOUS
  <2>1. job[s][k] \in Job
    BY DEF TypeInv, TypeOK
  <2> QED
    BY <2>1 DEF Job
<1>2. ASSUME NEW k \in JobKinds, PodRuns(s, k)
      PROVE  /\ job' \in [SSOs -> [JobKinds -> Job \cup {None}]]
             /\ stray' \in [SSOs -> SUBSET JobKinds]
             /\ configMap # None
  <2>0. /\ job \in [SSOs -> [JobKinds -> Job \cup {None}]]
        /\ stray \in [SSOs -> SUBSET JobKinds]
    BY DEF TypeInv, TypeOK
  <2>1. job' \in [SSOs -> [JobKinds -> Job \cup {None}]]
    <3>1. CASE job' = job
      BY <2>0, <3>1
    <3>2. CASE /\ job[s][k] # None
               /\ job' = [job EXCEPT ![s][k].state = "complete"]
      BY <1>1, <1>2, <2>0, <3>2
    <3> QED
      BY <1>2, <3>1, <3>2 DEF PodRuns
  <2>2. stray' \in [SSOs -> SUBSET JobKinds]
    <3>1. [stray EXCEPT ![s] = @ \ {k}] \in [SSOs -> SUBSET JobKinds]
      BY <2>0
    <3> QED
      BY <1>2, <2>0, <3>1 DEF PodRuns
  <2> QED
    BY <1>2, <2>1, <2>2 DEF PodRuns
<1>3. CASE ExposeJobRuns(s) \/ CleanupJobRuns(s)
  <2>1. /\ job' \in [SSOs -> [JobKinds -> Job \cup {None}]]
        /\ stray' \in [SSOs -> SUBSET JobKinds]
        /\ configMap # None
    BY <1>2, <1>3 DEF ExposeJobRuns, CleanupJobRuns, JobKinds
  <2>2. configMap.service \in SSOs
    BY <2>1 DEF TypeInv, TypeOK, ConfigMap
  <2>3. service[configMap.service] # None =>
          service[configMap.service].app \in Apps
    BY <2>2 DEF TypeInv, TypeOK, Service
  <2>4. ingress' \in [Apps -> SSOs \cup {None}]
    BY <1>3, <2>2, <2>3
    DEF TypeInv, TypeOK, ExposeJobRuns, CleanupJobRuns
  <2> QED
    BY <1>3, <2>1, <2>4 DEF TypeInv, TypeOK, ExposeJobRuns, CleanupJobRuns,
       proxyVars, sdkVars, handlerVars
<1>4. ASSUME NEW k \in JobKinds, JobFails(s, k) PROVE TypeOK'
  <2>1. job' \in [SSOs -> [JobKinds -> Job \cup {None}]]
    BY <1>1, <1>4 DEF TypeInv, TypeOK, JobFails
  <2>2. faults' \in 0 .. MaxFaults
    BY <1>4, ConstantsAssumption DEF TypeInv, TypeOK, JobFails, Fault
  <2> QED
    BY <1>4, <2>1, <2>2 DEF TypeInv, TypeOK, JobFails, proxyVars, sdkVars,
       handlerVars
<1> QED
  BY <1>3, <1>4

LEMMA EnsureClusterRoleBindingType ==
  ASSUME TypeInv, NEW o \in Operators, EnsureClusterRoleBinding(o)
  PROVE  TypeOK'
<1>1. CallTypeOK
  BY ReplyType, RefusedType DEF TypeInv, EnsureClusterRoleBinding, Labels, InFlight
<1> QED
  BY <1>1 DEF TypeInv, TypeOK, CallTypeOK, EnsureClusterRoleBinding, proxyVars,
     exposeVars, sdkVars, eventVars, localVars

LEMMA IsSSOInitializedType ==
  ASSUME TypeInv, NEW o \in Operators, IsSSOInitialized(o)
  PROVE  TypeOK'
<1>1. CallTypeOK
  BY ReplyType, RefusedType DEF TypeInv, IsSSOInitialized, Labels, InFlight
<1> QED
  BY <1>1 DEF TypeInv, TypeOK, CallTypeOK, IsSSOInitialized, proxyVars,
     exposeVars, sdkVars, eventVars, localVars

LEMMA FindIngressHostsType ==
  ASSUME TypeInv, NEW o \in Operators, FindIngressHosts(o)
  PROVE  TypeOK'
<1>1. CallTypeOK
  BY ReplyType, RefusedType DEF TypeInv, FindIngressHosts, Labels, InFlight
<1>2. ingress[app[o]] \in SSOs \cup {None}
  BY Known DEF FindIngressHosts, TypeOK, InFlight, InitOnly
<1>3. redirect' \in [Operators -> Redirects]
  BY <1>2 DEF TypeInv, TypeOK, FindIngressHosts, Redirects
<1> QED
  BY <1>1, <1>3 DEF TypeInv, TypeOK, CallTypeOK, FindIngressHosts,
     proxyVars, exposeVars, sdkVars, eventVars

LEMMA UpdateStatusType ==
  ASSUME TypeInv, NEW o \in Operators, UpdateStatus(o)
  PROVE  TypeOK'
<1>1. CallTypeOK
  BY ReplyType, RefusedType, AnsweredType
  DEF TypeInv, UpdateStatus, Labels, InFlight
<1>2. key[o] \in SSOs /\ client[o] \in MaybeId
  BY Known DEF UpdateStatus, TypeInv, TypeOK
<1>3. sso \in [SSOs -> SSOObject]
  BY DEF TypeInv, TypeOK
<1>4. sso' \in [SSOs -> SSOObject]
  <2>1. [live |-> TRUE, uid |-> sso[key[o]].uid, rv |-> sso[key[o]].rv + 1,
         initialized |-> TRUE, clientID |-> client[o]] \in SSOObject
    BY <1>2, <1>3 DEF SSOObject
  <2> QED
    BY <1>2, <1>3, <2>1 DEF UpdateStatus
<1> QED
  BY <1>1, <1>4 DEF TypeInv, TypeOK, CallTypeOK, UpdateStatus,
     proxyVars, exposeVars, sdkVars, eventVars, localVars

LEMMA SDKType ==
  ASSUME TypeInv, NEW o \in Operators, NEW s \in SSOs,
         Observe(o, s) \/ Begin(o, s)
  PROVE  TypeOK'
<1>1. CASE Observe(o, s)
  <2>1. cache' \in [Operators -> [SSOs -> SSOObject]]
    BY <1>1 DEF TypeInv, TypeOK, Observe
  <2>2. tries' \in [Operators -> [SSOs -> Nat]]
    BY <1>1, ConstantsAssumption DEF TypeInv, TypeOK, Observe
  <2> QED
    BY <1>1, <2>1, <2>2 DEF TypeInv, TypeOK, Observe, proxyVars, exposeVars,
       handlerVars
<1>2. CASE Begin(o, s)
  BY <1>2 DEF TypeInv, TypeOK, Begin, Goto, Labels, proxyVars, exposeVars,
     sdkVars, localVars
<1> QED
  BY <1>1, <1>2

LEMMA NoSSOType == NoSSO \in SSOObject
BY DEF NoSSO, SSOObject, MaybeId

LEMMA ForgetType ==
  ASSUME TypeInv, NEW o \in Operators, Return(o) \/ Crash(o) \/ Panic(o)
  PROVE  TypeOK'
<1>1. CASE Return(o)
  <2>1. \A n \in Nat :
          (IF pc[o] = "ok" \/ n = 0 THEN 0 ELSE n - 1) \in Nat
    OBVIOUS
  <2>2. tries' \in [Operators -> [SSOs -> Nat]]
    <3>1. tries \in [Operators -> [SSOs -> Nat]] /\ key[o] \in SSOs
      BY <1>1, Known DEF TypeOK, Return
    <3>2. tries[o][key[o]] \in Nat
      BY <3>1
    <3> QED
      BY <1>1, <2>1, <3>1, <3>2 DEF Return
  <2> QED
    BY <1>1, <2>2, NoSSOType DEF TypeInv, TypeOK, Return, Goto, Labels,
       MaybeId, Redirects, proxyVars, exposeVars
<1>2. CASE Crash(o) \/ Panic(o)
  <2>1. faults' \in 0 .. MaxFaults
    BY <1>2, ConstantsAssumption DEF TypeInv, TypeOK, Crash, Panic, Fault
  <2>2. Restart(o)
    BY <1>2 DEF Crash, Panic
  <2>3. /\ cache' \in [Operators -> [SSOs -> SSOObject]]
        /\ tries' \in [Operators -> [SSOs -> Nat]]
    BY <2>2, NoSSOType DEF TypeInv, TypeOK, Restart
  <2> QED
    BY <2>1, <2>2, <2>3, NoSSOType DEF TypeInv, TypeOK, Restart, Goto, Labels,
       MaybeId, Redirects, proxyVars, exposeVars
<1> QED
  BY <1>1, <1>2

LEMMA UserType ==
  ASSUME TypeInv, NEW s \in SSOs, User(s)
  PROVE  TypeOK'
<1>0. sso \in [SSOs -> SSOObject] /\ sso[s] \in SSOObject /\ None \in MaybeId
  BY DEF TypeInv, TypeOK, MaybeId
<1>1. CASE CreateSSO(s)
  BY <1>1 DEF TypeInv, TypeOK, CreateSSO, SSOObject, MaybeId, proxyVars,
     exposeVars, sdkVars, handlerVars
<1>2. CASE EditSSO(s)
  <2>1. sso' \in [SSOs -> SSOObject]
    <3>1. [sso[s] EXCEPT !.rv = @ + 1] \in SSOObject
      BY <1>0 DEF SSOObject
    <3> QED
      BY <1>2, <1>0, <3>1 DEF EditSSO
  <2> QED
    BY <1>2, <2>1 DEF TypeInv, TypeOK, EditSSO, proxyVars, exposeVars,
     sdkVars, handlerVars
<1>3. CASE DeleteSSO(s)
  <2>1. sso' \in [SSOs -> SSOObject]
    BY <1>3, <1>0 DEF DeleteSSO, SSOObject
  <2> QED
    BY <1>3, <2>1 DEF TypeInv, TypeOK, DeleteSSO, proxyVars, exposeVars,
     sdkVars, handlerVars
<1>4. CASE CreateIngress(s)
  BY <1>4 DEF TypeInv, TypeOK, CreateIngress, proxyVars, sdkVars, handlerVars
<1> QED
  BY <1>1, <1>2, <1>3, <1>4 DEF User

LEMMA CollectType ==
  ASSUME TypeInv, NEW s \in SSOs, Collect(s)
  PROVE  TypeOK'
<1>1. /\ [secret EXCEPT ![s] = None] \in [SSOs -> Secret \cup {None}]
      /\ [deployment EXCEPT ![s] = None]
           \in [SSOs -> Deployment \cup {None}]
      /\ [service EXCEPT ![s] = None] \in [SSOs -> Service \cup {None}]
  BY DEF TypeInv, TypeOK
<1>2. [job EXCEPT ![s]["expose"] = None]
        \in [SSOs -> [JobKinds -> Job \cup {None}]]
  BY DEF TypeInv, TypeOK, JobKinds
<1> QED
  BY <1>1, <1>2 DEF TypeInv, TypeOK, Collect, sdkVars, handlerVars

----------------------------------------------------------------------------
(* The control flow of Handle *)

\* A step of a Handle call that leaves the SDK, the event and the client
\* alone: it stays on the path of its event, holds or undoes a client
\* afterwards only if it held it before, and decides to initialise only where
\* the status says so.
Move(o) ==
  /\ pc[o] # "idle"
  /\ UNCHANGED <<cache, key, obj, client>>
  /\ \E l \in Labels \ {"idle"} :
       /\ Goto(o, l)
       /\ l \in InitOnly => Kind(o) = "expose"
       /\ l \in InFlight /\ Kind(o) = "expose" => pc[o] \in InFlight
       /\ l = "UndoClient" => pc[o] \in InFlight
       /\ l = "DeleteClient" => Kind(o) = "cleanup"
       /\ l \in Deciding /\ Kind(o) = "expose" =>
            \/ pc[o] \in Deciding
            \/ "IsSSOInitialized" \in FailingCalls
            \/ ~(sso[key[o]].live /\ sso[key[o]].initialized)

LEMMA KindCases == ASSUME NEW o PROVE Kind(o) \in JobKinds
BY DEF Kind, JobKinds

LEMMA InitMove ==
  ASSUME NEW o \in Operators, pc[o] \in InFlight, Kind(o) = "expose",
         UNCHANGED <<cache, key, obj, client>>,
         NEW l \in InFlight \cup {"UndoClient", "ok", "err"}, Goto(o, l)
  PROVE  Move(o)
BY DEF Move, InFlight, InitOnly, Deciding, Labels

LEMMA CleanupMove ==
  ASSUME NEW o \in Operators, pc[o] # "idle", Kind(o) = "cleanup",
         UNCHANGED <<cache, key, obj, client>>,
         NEW l \in Labels \ {"idle"}, l \notin InitOnly, Goto(o, l)
  PROVE  Move(o)
BY DEF Move, InitOnly

LEMMA EndMove ==
  ASSUME NEW o \in Operators, pc[o] # "idle",
         UNCHANGED <<cache, key, obj, client>>,
         NEW l \in {"ok", "err"}, Goto(o, l)
  PROVE  Move(o)
BY DEF Move, InitOnly, InFlight, Deciding, Labels

LEMMA DeployMoves ==
  ASSUME TypeInv, NEW o \in Operators, Deploy(o)
  PROVE  Move(o) /\ UNCHANGED <<sso, dex>>
<1>1. UNCHANGED <<sso, dex, cache, key, obj, client>>
  BY DEF Deploy, CreateSecret, CreateDeployment, CreateService,
     WaitForService, WaitForPodsWithLabelRunning, sdkVars, eventVars,
     localVars
<1>2. pc[o] \in {"CreateSecret", "CreateDeployment", "CreateService",
                 "WaitForService", "WaitForPods"}
  BY DEF Deploy, CreateSecret, CreateDeployment, CreateService,
     WaitForService, WaitForPodsWithLabelRunning
<1>3. pc[o] \in InFlight /\ Kind(o) = "expose"
  BY <1>2 DEF TypeInv, PathOK, InFlight, InitOnly
<1>4. \E l \in InFlight \cup {"UndoClient"} : Goto(o, l)
  BY DEF Deploy, CreateSecret, CreateDeployment, CreateService,
     WaitForService, WaitForPodsWithLabelRunning, AfterDeploy, InFlight,
     Answered, Reply, Refused
<1> QED
  BY <1>1, <1>3, <1>4, InitMove

LEMMA UpdateMoves ==
  ASSUME TypeInv, NEW o \in Operators, Update(o)
  PROVE  Move(o) /\ UNCHANGED <<sso, dex>>
<1>1. UNCHANGED <<sso, dex, cache, key, obj, client>>
  BY DEF Update, UpdateSecret, UpdateDeployment,
     WaitForPodsWithLabelRunning, sdkVars, eventVars, localVars
<1>2. pc[o] \in {"UpdateSecret", "UpdateDeployment", "WaitForRollout"}
  BY DEF Update, UpdateSecret, UpdateDeployment, WaitForPodsWithLabelRunning
<1>3. pc[o] \in InFlight /\ Kind(o) = "expose"
  BY <1>2 DEF TypeInv, PathOK, InFlight, InitOnly
<1>4. \E l \in InFlight \cup {"UndoClient"} : Goto(o, l)
  BY DEF Update, UpdateSecret, UpdateDeployment,
     WaitForPodsWithLabelRunning, InFlight, Answered, Reply, Refused
<1> QED
  BY <1>1, <1>3, <1>4, InitMove

LEMMA ExposeMoves ==
  ASSUME TypeInv, NEW o \in Operators, ExposeSSO(o)
  PROVE  Move(o) /\ UNCHANGED <<sso, dex>>
<1>1. UNCHANGED <<sso, dex, cache, key, obj, client>>
  BY DEF ExposeSSO, CreateConfigMap, RunsJob, CreateJob, DeleteStaleJob,
     WaitForJobComplete, DeleteJob, DeleteConfigMap, sdkVars, eventVars,
     localVars
<1>2. pc[o] \in InFlight /\ Kind(o) = "expose"
  BY DEF ExposeSSO, CreateConfigMap, RunsJob, CreateJob, DeleteStaleJob,
     WaitForJobComplete, DeleteJob, DeleteConfigMap, InFlight
<1>3. \E l \in InFlight \cup {"UndoClient"} : Goto(o, l)
  BY DEF ExposeSSO, CreateConfigMap, RunsJob, CreateJob, DeleteStaleJob,
     WaitForJobComplete, DeleteJob, DeleteConfigMap, OnError, InFlight,
     Answered, Reply, Refused
<1> QED
  BY <1>1, <1>2, <1>3, InitMove

LEMMA CleanupMoves ==
  ASSUME TypeInv, NEW o \in Operators, CleanupSSO(o)
  PROVE  Move(o) /\ UNCHANGED <<sso, dex>>
<1>1. UNCHANGED <<sso, dex, cache, key, obj, client>>
  BY DEF CleanupSSO, CleanupConfigMap, RunsJob, CreateJob, DeleteStaleJob,
     WaitForJobComplete, DeleteJob, DeleteConfigMap, sdkVars, eventVars,
     localVars
<1>2. pc[o] # "idle" /\ Kind(o) = "cleanup"
  BY DEF CleanupSSO, CleanupConfigMap, RunsJob, CreateJob, DeleteStaleJob,
     WaitForJobComplete, DeleteJob, DeleteConfigMap
<1>3. \E l \in {"CreateJob", "DeleteStaleJob", "WaitForJob", "DeleteJob",
                "DeleteConfigMap", "DeleteClient", "err"} : Goto(o, l)
  BY DEF CleanupSSO, CleanupConfigMap, RunsJob, CreateJob, DeleteStaleJob,
     WaitForJobComplete, DeleteJob, DeleteConfigMap, OnError, Answered,
     Reply, Refused
<1> QED
  BY <1>1, <1>2, <1>3, CleanupMove DEF Labels, InFlight, InitOnly

LEMMA StartMoves ==
  ASSUME TypeInv, NEW o \in Operators,
         EnsureClusterRoleBinding(o) \/ IsSSOInitialized(o)
  PROVE  Move(o) /\ UNCHANGED <<sso, dex>>
<1>1. UNCHANGED <<sso, dex, cache, key, obj, client>> /\ pc[o] # "idle"
  BY DEF EnsureClusterRoleBinding, IsSSOInitialized, sdkVars, eventVars,
     localVars
<1>2. CASE EnsureClusterRoleBinding(o)
  <2>1. CASE Goto(o, "err")
    BY <1>1, <2>1, EndMove
  <2>2. CASE Kind(o) = "cleanup" /\ Goto(o, "CreateConfigMap")
    BY <1>1, <2>2, CleanupMove DEF Labels, InFlight, InitOnly
  <2>3. CASE Kind(o) = "expose" /\ Goto(o, "IsSSOInitialized")
    BY <1>1, <2>3 DEF Move, Labels, InFlight, InitOnly, Deciding
  <2> QED
    BY <1>2, <2>1, <2>2, <2>3, KindCases
    DEF EnsureClusterRoleBinding, Reply, Refused, JobKinds
<1>3. CASE IsSSOInitialized(o)
  <2>1. CASE Goto(o, "ok")
    BY <1>1, <2>1, EndMove
  <2>2. CASE /\ Goto(o, "CreateClient")
             /\ \/ ~(sso[key[o]].live /\ sso[key[o]].initialized)
                \/ "IsSSOInitialized" \in FailingCalls
    <3>1. Kind(o) = "expose"
      BY <1>3 DEF IsSSOInitialized, TypeInv, PathOK, InitOnly
    <3> QED
      BY <1>1, <2>2, <3>1 DEF Move, Labels, InFlight
  <2> QED
    BY <1>3, <2>1, <2>2 DEF IsSSOInitialized, Reply, Refused
<1> QED
  BY <1>1, <1>2, <1>3

LEMMA LateMoves ==
  ASSUME TypeInv, NEW o \in Operators,
         FindIngressHosts(o) \/ UpdateClient(o) \/ UpdateStatus(o)
  PROVE  Move(o)
<1>1. UNCHANGED <<cache, key, obj, client>>
  BY DEF FindIngressHosts, UpdateClient, UpdateStatus, sdkVars, eventVars,
     localVars
<1>2. pc[o] \in {"FindIngressHosts", "UpdateClient", "UpdateStatus"}
  BY DEF FindIngressHosts, UpdateClient, UpdateStatus
<1>3. pc[o] \in InFlight /\ Kind(o) = "expose"
  BY <1>2 DEF TypeInv, PathOK, InFlight, InitOnly
<1>4. \E l \in InFlight \cup {"UndoClient", "ok"} : Goto(o, l)
  BY DEF FindIngressHosts, UpdateClient, UpdateStatus, InFlight, Answered,
     Reply, Refused
<1> QED
  BY <1>1, <1>3, <1>4, InitMove

LEMMA DeleteMoves ==
  ASSUME TypeInv, NEW o \in Operators, UndoClient(o) \/ RetireClient(o)
  PROVE  Move(o)
<1>1. UNCHANGED <<cache, key, obj, client>> /\ pc[o] # "idle"
  BY DEF UndoClient, RetireClient, Delete, sdkVars, eventVars, localVars
<1>2. \E l \in {"ok", "err"} : Goto(o, l)
  BY DEF UndoClient, RetireClient, Delete, Answered, Reply, Refused
<1> QED
  BY <1>1, <1>2, EndMove

\* The disjuncts of Handle that only move, and the one that gets a client.
LEMMA HandleMoves ==
  ASSUME TypeInv, NEW o \in Operators, Handle(o)
  PROVE  Move(o) \/ CreateClient(o)
BY DeployMoves, UpdateMoves, ExposeMoves, CleanupMoves, StartMoves,
   LateMoves, DeleteMoves DEF Handle

LEMMA HandleType ==
  ASSUME TypeInv, NEW o \in Operators, Handle(o)
  PROVE  TypeOK'
<1>1. CASE Deploy(o)
  <2>1. AfterDeploy(key[o]) \in Labels
    BY DEF AfterDeploy, Labels, InFlight
  <2> QED
    BY <1>1, <2>1, CreateSecretType, CreateDeploymentType,
       CreateServiceType, WaitForServiceType, WaitForPodsType DEF Deploy
<1>2. CASE Update(o)
  <2>1. "UpdateStatus" \in Labels
    BY DEF Labels, InFlight
  <2> QED
    BY <1>2, <2>1, UpdateSecretType, UpdateDeploymentType, WaitForPodsType
    DEF Update
<1>3. CASE ExposeSSO(o) \/ CleanupSSO(o)
  BY <1>3, ConfigMapType, CreateJobType, DeleteJobType, WaitForJobType,
     DeleteConfigMapType DEF ExposeSSO, CleanupSSO, RunsJob, JobKinds
<1>4. CASE UndoClient(o) \/ RetireClient(o)
  <2>1. "ok" \in Labels /\ "err" \in Labels
    BY DEF Labels
  <2> QED
    BY <1>4, <2>1, DeleteType DEF UndoClient, RetireClient
<1>5. CASE EnsureClusterRoleBinding(o) \/ IsSSOInitialized(o)
  BY <1>5, EnsureClusterRoleBindingType, IsSSOInitializedType
<1>6. CASE CreateClient(o) \/ FindIngressHosts(o) \/ UpdateClient(o)
  BY <1>6, CreateClientType, FindIngressHostsType, UpdateClientType
<1>7. CASE UpdateStatus(o)
  BY <1>7, UpdateStatusType
<1> QED
  BY <1>1, <1>2, <1>3, <1>4, <1>5, <1>6, <1>7 DEF Handle

LEMMA MovePath ==
  ASSUME TypeInv, NEW o \in Operators, Move(o)
  PROVE  PathOK'
<1>1. PICK l \in Labels \ {"idle"} :
        /\ pc' = [pc EXCEPT ![o] = l]
        /\ l \in InitOnly => Kind(o) = "expose"
        /\ l \in InFlight /\ Kind(o) = "expose" => pc[o] \in InFlight
  BY DEF Move, Goto
<1>2. /\ pc[o] # "idle" /\ pc \in [Operators -> Labels]
      /\ key' = key /\ obj' = obj /\ client' = client
  BY DEF Move, TypeInv, TypeOK
<1> SUFFICES ASSUME NEW p \in Operators
             PROVE  /\ pc'[p] # "idle" => key[p] \in SSOs
                    /\ pc'[p] \in InitOnly => Kind(p) = "expose"
                    /\ pc'[p] \in InFlight /\ Kind(p) = "expose" =>
                         client[p] \in ClientIds
  BY <1>2 DEF PathOK, HoldsClient, Kind
<1>3. /\ pc[p] # "idle" => key[p] \in SSOs
      /\ pc[p] \in InitOnly => Kind(p) = "expose"
      /\ pc[p] \in InFlight /\ Kind(p) = "expose" => client[p] \in ClientIds
  BY DEF TypeInv, PathOK, HoldsClient
<1> QED
  BY <1>1, <1>2, <1>3

LEMMA CreateClientPath ==
  ASSUME TypeInv, NEW o \in Operators, CreateClient(o)
  PROVE  PathOK'
<1>1. /\ pc[o] = "CreateClient" /\ pc \in [Operators -> Labels]
      /\ client \in [Operators -> MaybeId]
      /\ key' = key /\ obj' = obj
  BY DEF CreateClient, TypeInv, TypeOK, eventVars
<1>2. \/ \E c \in ClientIds : /\ client' = [client EXCEPT ![o] = c]
                              /\ pc' = [pc EXCEPT ![o] = "CreateSecret"]
      \/ client' = client /\ pc' = [pc EXCEPT ![o] = "err"]
  BY DEF CreateClient, NewId, Unused, Reply, Refused, Goto
<1> SUFFICES ASSUME NEW p \in Operators
             PROVE  /\ pc'[p] # "idle" => key[p] \in SSOs
                    /\ pc'[p] \in InitOnly => Kind(p) = "expose"
                    /\ pc'[p] \in InFlight /\ Kind(p) = "expose" =>
                         client'[p] \in ClientIds
  BY <1>1 DEF PathOK, HoldsClient, Kind
<1>3. /\ pc[p] # "idle" => key[p] \in SSOs
      /\ pc[p] \in InitOnly => Kind(p) = "expose"
      /\ pc[p] \in InFlight /\ Kind(p) = "expose" => client[p] \in ClientIds
  BY DEF TypeInv, PathOK, HoldsClient
<1> QED
  BY <1>1, <1>2, <1>3 DEF InitOnly, InFlight

\* The SDK's own steps.
LEMMA SDKPath ==
  ASSUME TypeInv, NEW o \in Operators,
         \/ \E s \in SSOs : Begin(o, s)
         \/ Return(o) \/ Restart(o)
  PROVE  PathOK'
<1>1. /\ pc \in [Operators -> Labels] /\ key \in [Operators -> SSOs \cup {None}]
      /\ obj \in [Operators -> SSOObject]
      /\ client \in [Operators -> MaybeId]
  BY DEF TypeInv, TypeOK
<1>2. \/ pc'[o] = "idle"
      \/ pc'[o] = "EnsureClusterRoleBinding" /\ key'[o] \in SSOs
  BY <1>1 DEF Begin, Return, Restart, Goto
<1>3. \A p \in Operators \ {o} :
        /\ pc'[p] = pc[p] /\ key'[p] = key[p] /\ obj'[p] = obj[p]
        /\ client'[p] = client[p]
  BY <1>1 DEF Begin, Return, Restart, Goto, localVars
<1> SUFFICES ASSUME NEW p \in Operators
             PROVE  /\ pc'[p] # "idle" => key'[p] \in SSOs
                    /\ pc'[p] \in InitOnly => Kind(p)' = "expose"
                    /\ pc'[p] \in InFlight /\ Kind(p)' = "expose" =>
                         client'[p] \in ClientIds
  BY DEF PathOK, HoldsClient
<1>4. CASE p = o
  BY <1>2, <1>4 DEF InitOnly, InFlight
<1>5. CASE p # o
  <2>1. Kind(p)' = Kind(p)
    BY <1>3, <1>5 DEF Kind
  <2> QED
    BY <1>3, <1>5, <2>1 DEF TypeInv, PathOK, HoldsClient
<1> QED
  BY <1>4, <1>5

\* The steps outside the operator processes, and the informer's.
LEMMA OtherSteps ==
  ASSUME NEW s \in SSOs,
         \/ User(s) \/ Controllers(s)
         \/ \E o \in Operators : Observe(o, s)
  PROVE  UNCHANGED <<handlerVars, dex>>
BY DEF User, CreateSSO, EditSSO, DeleteSSO, CreateIngress, Controllers,
   StartPod, StopPod, ExposeJobRuns, CleanupJobRuns, PodRuns, JobFails,
   Collect, Observe

LEMMA OtherPath ==
  ASSUME TypeInv, UNCHANGED handlerVars
  PROVE  PathOK'
BY DEF TypeInv, PathOK, HoldsClient, Kind, handlerVars

\* Only CreateSecret computes the app name; every other call of Handle starts
\* past it or before it, and leaves the name alone.
LEMMA HandleApp ==
  ASSUME TypeInv, NEW o \in Operators, Handle(o)
  PROVE  AppOK'
<1>1. /\ pc \in [Operators -> Labels] /\ app \in [Operators -> Apps \cup {None}]
      /\ UNCHANGED <<key, obj>>
  BY HandleMoves DEF TypeInv, TypeOK, Move, CreateClient, eventVars
<1>2. CASE CreateSecret(o)
  <2>1. /\ pc' = [pc EXCEPT ![o] = pc'[o]]
        /\ app' = [app EXCEPT ![o] = app'[o]]
        /\ pc'[o] = "UndoClient" \/ app'[o] \in getAppName(key[o])
    BY <1>1, <1>2 DEF CreateSecret, Answered, Reply, Refused, Goto
  <2> QED
    BY <1>1, <2>1 DEF TypeInv, AppOK, HoldsClient, Kind, InFlight
<1>3. CASE CreateClient(o)
  <2>1. /\ pc' = [pc EXCEPT ![o] = pc'[o]] /\ app' = app
        /\ pc'[o] \in {"CreateSecret", "err"}
    BY <1>1, <1>3 DEF CreateClient, Reply, Refused, Goto
  <2> QED
    BY <1>1, <2>1 DEF TypeInv, AppOK, HoldsClient, Kind, InFlight
<1>4. CASE ~CreateSecret(o) /\ ~CreateClient(o)
  <2>1. app' = app /\ pc[o] # "CreateSecret"
    <3>1. CASE Deploy(o) \/ Update(o)
      BY <1>4, <3>1 DEF Deploy, Update, CreateDeployment, CreateService,
         WaitForService, WaitForPodsWithLabelRunning, UpdateSecret,
         UpdateDeployment, localVars
    <3>2. CASE ExposeSSO(o) \/ CleanupSSO(o)
      BY <3>2 DEF ExposeSSO, CleanupSSO, RunsJob, CreateConfigMap,
         CleanupConfigMap, CreateJob, DeleteStaleJob, WaitForJobComplete,
         DeleteJob, DeleteConfigMap, localVars
    <3>3. CASE ~(Deploy(o) \/ Update(o) \/ ExposeSSO(o) \/ CleanupSSO(o))
      BY <1>4, <3>3 DEF Handle, EnsureClusterRoleBinding, IsSSOInitialized,
         FindIngressHosts, UpdateClient, UpdateStatus, UndoClient,
         RetireClient, Delete, localVars
    <3> QED
      BY <3>1, <3>2, <3>3
  <2>2. PICK l \in Labels :
          /\ pc' = [pc EXCEPT ![o] = l]
          /\ l \in InFlight /\ Kind(o) = "expose" => pc[o] \in InFlight
    BY <1>4, HandleMoves DEF Move, Goto
  <2> QED
    BY <1>1, <2>1, <2>2 DEF TypeInv, AppOK, HoldsClient, Kind
<1> QED
  BY <1>2, <1>3, <1>4

LEMMA SDKApp ==
  ASSUME TypeInv, NEW o \in Operators,
         \/ \E s \in SSOs : Begin(o, s)
         \/ Return(o) \/ Restart(o)
  PROVE  AppOK'
<1>1. /\ pc \in [Operators -> Labels] /\ key \in [Operators -> SSOs \cup {None}]
      /\ obj \in [Operators -> SSOObject]
      /\ app \in [Operators -> Apps \cup {None}]
  BY DEF TypeInv, TypeOK
<1>2. pc'[o] \in {"idle", "EnsureClusterRoleBinding"}
  BY <1>1 DEF Begin, Return, Restart, Goto
<1>3. \A p \in Operators \ {o} :
        /\ pc'[p] = pc[p] /\ key'[p] = key[p] /\ obj'[p] = obj[p]
        /\ app'[p] = app[p]
  BY <1>1 DEF Begin, Return, Restart, Goto, localVars
<1> SUFFICES ASSUME NEW p \in Operators, HoldsClient(p)',
                    pc'[p] # "CreateSecret"
             PROVE  app'[p] \in getAppName(key'[p])
  BY DEF AppOK, getAppName
<1>4. p # o
  BY <1>2 DEF HoldsClient, InFlight
<1> QED
  BY <1>3, <1>4 DEF TypeInv, AppOK, HoldsClient, Kind

LEMMA OtherApp ==
  ASSUME TypeInv, UNCHANGED handlerVars
  PROVE  AppOK'
BY DEF TypeInv, AppOK, HoldsClient, Kind, handlerVars

LEMMA TypeStep == TypeInv /\ [Next]_vars => TypeInv'
<1> SUFFICES ASSUME TypeInv, [Next]_vars PROVE TypeInv'
  OBVIOUS
<1>1. CASE UNCHANGED vars
  <2>1. TypeOK'
    BY <1>1 DEF TypeInv, TypeOK, vars, proxyVars, exposeVars, sdkVars,
       handlerVars
  <2> QED
    BY <1>1, <2>1, OtherPath, OtherApp DEF TypeInv, vars
<1>2. ASSUME NEW s \in SSOs, User(s) \/ Controllers(s) PROVE TypeInv'
  <2>1. TypeOK'
    BY <1>2, UserType, PodType, JobRunType, CollectType DEF Controllers
  <2> QED
    BY <1>2, <2>1, OtherSteps, OtherPath, OtherApp DEF TypeInv
<1>3. ASSUME NEW o \in Operators, Handle(o) PROVE TypeInv'
  BY <1>3, HandleType, HandleMoves, MovePath, CreateClientPath, HandleApp
  DEF TypeInv
<1>4. ASSUME NEW o \in Operators, Return(o) \/ Crash(o) \/ Panic(o)
      PROVE  TypeInv'
  <2>1. Return(o) \/ Restart(o)
    BY <1>4 DEF Crash, Panic
  <2> QED
    BY <1>4, <2>1, ForgetType, SDKPath, SDKApp DEF TypeInv
<1>5. ASSUME NEW o \in Operators, NEW s \in SSOs, Observe(o, s)
      PROVE  TypeInv'
  BY <1>5, SDKType, OtherSteps, OtherPath, OtherApp DEF TypeInv
<1>6. ASSUME NEW o \in Operators, NEW s \in SSOs, Begin(o, s)
      PROVE  TypeInv'
  BY <1>6, SDKType, SDKPath, SDKApp DEF TypeInv
<1> QED
  BY <1>1, <1>2, <1>3, <1>4, <1>5, <1>6 DEF Next

LEMMA TypeInvariant == Spec => []TypeInv
BY InitType, TypeStep, PTL DEF Spec

\* Every variable of the operator, the cluster and dex keeps its type, whatever
\* fails, crashes or overlaps.
THEOREM TypeCorrect == Spec => []TypeOK
<1>1. TypeInv => TypeOK
  BY DEF TypeInv
<1> QED
  BY <1>1, TypeInvariant, PTL

----------------------------------------------------------------------------
(* The client a Handle call holds is private *)

LEMMA InitPrivate == Init => PrivateInv
BY DEF Init, PrivateInv, HoldsClient, InFlight

LEMMA MoveHeld ==
  ASSUME TypeInv, NEW o \in Operators, Move(o)
  PROVE  /\ UNCHANGED <<cache, obj, client>>
         /\ \A p \in Operators : HoldsClient(p)' => HoldsClient(p)
<1>1. PICK l \in Labels :
        /\ pc' = [pc EXCEPT ![o] = l]
        /\ l \in InFlight /\ Kind(o) = "expose" => pc[o] \in InFlight
  BY DEF Move, Goto
<1>2. pc \in [Operators -> Labels] /\ UNCHANGED <<cache, obj, client>>
  BY DEF Move, TypeInv, TypeOK
<1> QED
  BY <1>1, <1>2 DEF HoldsClient, Kind

\* A move that leaves every held client registered and publishes none.
LEMMA MovePrivate ==
  ASSUME TypeInv, PrivateInv, NEW o \in Operators, Move(o),
         \A p \in Operators :
           HoldsClient(p)' =>
             /\ Registered(client[p])'
             /\ \A s \in SSOs : sso'[s].clientID # client[p]
  PROVE  PrivateInv'
BY MoveHeld DEF PrivateInv, Private

LEMMA QuietMovePrivate ==
  ASSUME TypeInv, PrivateInv, NEW o \in Operators, Move(o),
         UNCHANGED <<sso, dex>>
  PROVE  PrivateInv'
BY MoveHeld, MovePrivate DEF PrivateInv, Private, Registered

LEMMA UpdateClientPrivate ==
  ASSUME TypeInv, PrivateInv, NEW o \in Operators, UpdateClient(o)
  PROVE  PrivateInv'
<1>1. Move(o) /\ sso' = sso
  BY LateMoves DEF UpdateClient
<1>2. \A c : Registered(c) => Registered(c)'
  <2>1. /\ dex \in [ClientIds -> Redirects \cup {None}]
        /\ redirect[o] \in Redirects /\ None \notin Redirects
    BY ConstantsAssumption DEF TypeInv, TypeOK, Redirects
  <2> QED
    BY <2>1 DEF UpdateClient, Registered
<1> QED
  BY <1>1, <1>2, MoveHeld, MovePrivate DEF PrivateInv, Private

LEMMA DeletePrivate ==
  ASSUME TypeInv, PrivateInv, NEW o \in Operators,
         UndoClient(o) \/ RetireClient(o)
  PROVE  PrivateInv'
<1>1. Move(o) /\ sso' = sso
  BY DeleteMoves DEF UndoClient, RetireClient, Delete
<1>2. pc'[o] \in {"ok", "err"}
  BY DEF UndoClient, RetireClient, Delete, Answered, Reply, Refused, Goto,
     TypeInv, TypeOK
<1>3. \A p \in Operators : HoldsClient(p)' => p # o /\ HoldsClient(p)
  BY <1>1, <1>2, MoveHeld DEF HoldsClient, InFlight
<1>4. \/ \A c : c # client[o] /\ Registered(c) => Registered(c)'
      \/ \A c : c # obj[o].clientID /\ Registered(c) => Registered(c)'
  BY DEF UndoClient, RetireClient, Delete, Registered, TypeInv, TypeOK
<1>5. \A p \in Operators : HoldsClient(p)' => Registered(client[p])'
  BY <1>1, <1>3, <1>4, MoveHeld DEF PrivateInv, Private
<1> QED
  BY <1>1, <1>3, <1>5, MovePrivate DEF PrivateInv, Private

LEMMA UpdateStatusPrivate ==
  ASSUME TypeInv, PrivateInv, NEW o \in Operators, UpdateStatus(o)
  PROVE  PrivateInv'
<1>1. Move(o) /\ dex' = dex
  BY LateMoves DEF UpdateStatus
<1>2. pc'[o] \in {"ok", "UndoClient"}
  BY DEF UpdateStatus, Answered, Reply, Refused, Goto, TypeInv, TypeOK
<1>3. \A p \in Operators : HoldsClient(p)' => p # o /\ HoldsClient(p)
  BY <1>1, <1>2, MoveHeld DEF HoldsClient, InFlight
<1>4. \A s \in SSOs : \/ sso'[s].clientID = sso[s].clientID
                      \/ sso'[s].clientID = client[o]
  BY Known DEF UpdateStatus, TypeOK
<1> QED
  BY <1>1, <1>3, <1>4, MoveHeld, MovePrivate
  DEF PrivateInv, Private, Registered

LEMMA CreateClientPrivate ==
  ASSUME TypeInv, PrivateInv, NEW o \in Operators, CreateClient(o)
  PROVE  PrivateInv'
<1>1. /\ pc \in [Operators -> Labels] /\ client \in [Operators -> MaybeId]
      /\ dex \in [ClientIds -> Redirects \cup {None}] /\ FakeURL # None
  BY ConstantsAssumption DEF TypeInv, TypeOK
<1>2. UNCHANGED <<sso, cache, obj>>
  BY DEF CreateClient, sdkVars, eventVars
<1>3. ASSUME NEW c \in NewId, dex' = [dex EXCEPT ![c] = FakeURL],
             client' = [client EXCEPT ![o] = c],
             pc' = [pc EXCEPT ![o] = "CreateSecret"]
      PROVE  PrivateInv'
  <2>1. /\ c \in ClientIds /\ ~Registered(c)
        /\ \A p \in Operators : client[p] # c /\ obj[p].clientID # c
        /\ \A s \in SSOs : sso[s].clientID # c
        /\ \A p \in Operators, s \in SSOs : cache[p][s].clientID # c
    BY DEF NewId, Unused, Named
  <2>2. \A p \in Operators : HoldsClient(p)' => p = o \/ HoldsClient(p)
    BY <1>1, <1>2, <1>3 DEF HoldsClient, Kind
  <2>3. Private(o)'
    BY <1>1, <1>2, <1>3, <2>1 DEF Private, Registered
  <2>4. ASSUME NEW p \in Operators, p # o, HoldsClient(p)
        PROVE  Private(p)'
    <3>1. client'[p] = client[p] /\ Private(p)
      BY <1>1, <1>3, <2>4 DEF PrivateInv
    <3>2. Registered(client[p])' /\ client[p] # c
      BY <1>1, <1>3, <2>1, <3>1 DEF Private, Registered
    <3> QED
      BY <1>1, <1>2, <1>3, <3>1, <3>2 DEF Private
  <2> QED
    BY <2>2, <2>3, <2>4 DEF PrivateInv
<1>4. ASSUME \A c : Registered(c) => Registered(c)',
             client' = client, pc' = [pc EXCEPT ![o] = "err"]
      PROVE  PrivateInv'
  <2>1. \A p \in Operators : HoldsClient(p)' => HoldsClient(p)
    BY <1>1, <1>2, <1>4 DEF HoldsClient, Kind, InFlight
  <2> QED
    BY <1>2, <1>4, <2>1 DEF PrivateInv, Private
<1>5. ASSUME NEW c \in NewId, dex' = [dex EXCEPT ![c] = FakeURL]
      PROVE  \A d : Registered(d) => Registered(d)'
  BY <1>1, <1>5 DEF Registered, NewId, Unused
<1> QED
  BY <1>3, <1>4, <1>5 DEF CreateClient, Reply, Refused, Goto, Registered

LEMMA HandlePrivate ==
  ASSUME TypeInv, PrivateInv, NEW o \in Operators, Handle(o)
  PROVE  PrivateInv'
<1>1. CASE FindIngressHosts(o)
  BY <1>1, LateMoves, QuietMovePrivate DEF FindIngressHosts
<1>2. CASE \/ Deploy(o) \/ Update(o) \/ ExposeSSO(o) \/ CleanupSSO(o)
           \/ EnsureClusterRoleBinding(o) \/ IsSSOInitialized(o)
  BY <1>2, DeployMoves, UpdateMoves, ExposeMoves, CleanupMoves, StartMoves,
     QuietMovePrivate
<1> QED
  BY <1>1, <1>2, CreateClientPrivate, UpdateClientPrivate, DeletePrivate,
     UpdateStatusPrivate DEF Handle

\* Everything else: no client is held that was not, none is deleted, and what
\* an operator or a status learns was known before.
LEMMA OtherPrivate ==
  ASSUME TypeInv, PrivateInv, [Next]_vars,
         \A o \in Operators : ~Handle(o)
  PROVE  PrivateInv'
<1>1. /\ cache \in [Operators -> [SSOs -> SSOObject]]
      /\ sso \in [SSOs -> SSOObject] /\ pc \in [Operators -> Labels]
      /\ client \in [Operators -> MaybeId] /\ obj \in [Operators -> SSOObject]
      /\ None \notin ClientIds
  BY ConstantsAssumption DEF TypeInv, TypeOK
<1>2. ASSUME NEW p \in Operators, HoldsClient(p) PROVE client[p] # None
  BY <1>1, <1>2 DEF PrivateInv, Private, Registered
<1>3. dex' = dex
  BY OtherSteps DEF Next, vars, Begin, Return, Crash, Panic, Restart, Observe
<1>4. CASE UNCHANGED vars
  BY <1>4 DEF PrivateInv, Private, HoldsClient, Kind, Registered, vars,
     sdkVars, handlerVars
<1>5. ASSUME NEW s \in SSOs, User(s) \/ Controllers(s) PROVE PrivateInv'
  <2>1. UNCHANGED <<pc, obj, client, cache>>
    BY <1>5, OtherSteps DEF handlerVars, User, CreateSSO, EditSSO, DeleteSSO,
       CreateIngress, Controllers, StartPod, StopPod, ExposeJobRuns,
       CleanupJobRuns, JobFails, Collect, sdkVars
  <2>2. \A u \in SSOs : \/ sso'[u].clientID = sso[u].clientID
                        \/ sso'[u].clientID = None
    <3>1. CASE Controllers(s) \/ CreateIngress(s)
      BY <3>1 DEF CreateIngress, Controllers, StartPod, StopPod,
         ExposeJobRuns, CleanupJobRuns, JobFails, Collect
    <3>2. CASE CreateSSO(s)
      BY <1>1, <3>2 DEF CreateSSO
    <3>3. CASE EditSSO(s)
      BY <1>1, <3>3 DEF EditSSO, SSOObject
    <3>4. CASE DeleteSSO(s)
      BY <1>1, <3>4 DEF DeleteSSO
    <3> QED
      BY <1>5, <3>1, <3>2, <3>3, <3>4 DEF User
  <2>3. \A p \in Operators : HoldsClient(p)' <=> HoldsClient(p)
    BY <2>1 DEF HoldsClient, Kind
  <2> QED
    BY <1>2, <1>3, <2>1, <2>2, <2>3 DEF PrivateInv, Private, Registered
<1>6. ASSUME NEW o \in Operators, Return(o) \/ Restart(o) PROVE PrivateInv'
  <2>1. /\ pc' = [pc EXCEPT ![o] = "idle"]
        /\ client' = [client EXCEPT ![o] = None]
        /\ obj' = [obj EXCEPT ![o] = NoSSO]
        /\ sso' = sso
    BY <1>6 DEF Return, Restart, Goto
  <2>2. \A p \in Operators, s \in SSOs :
          \/ cache'[p][s] = cache[p][s] \/ cache'[p][s] = NoSSO
    <3>1. \/ cache' = cache
          \/ cache' = [cache EXCEPT ![o] = [s \in SSOs |-> NoSSO]]
      BY <1>6 DEF Return, Restart
    <3> QED
      BY <1>1, <3>1
  <2>3. \A p \in Operators : HoldsClient(p)' => p # o /\ HoldsClient(p)
    BY <1>1, <2>1 DEF HoldsClient, Kind, InFlight
  <2>4. ASSUME NEW p \in Operators, p # o, HoldsClient(p)
        PROVE  Private(p)'
    <3>1. client'[p] = client[p] /\ client[p] # None /\ Private(p)
      BY <1>1, <1>2, <2>1, <2>4 DEF PrivateInv
    <3>2. NoSSO.clientID = None
      BY DEF NoSSO
    <3> QED
      BY <1>1, <1>3, <2>1, <2>2, <3>1, <3>2 DEF Private, Registered
  <2> QED
    BY <2>3, <2>4 DEF PrivateInv
<1>7. ASSUME NEW o \in Operators, NEW s \in SSOs, Observe(o, s)
      PROVE  PrivateInv'
  <2>1. UNCHANGED <<pc, obj, client, sso>>
    BY <1>7 DEF Observe, handlerVars
  <2>2. \A p \in Operators, u \in SSOs :
          cache'[p][u] = cache[p][u] \/ cache'[p][u] = sso[s]
    BY <1>1, <1>7 DEF Observe
  <2> QED
    BY <1>3, <2>1, <2>2 DEF PrivateInv, Private, HoldsClient, Kind,
       Registered
<1>8. ASSUME NEW o \in Operators, NEW s \in SSOs, Begin(o, s)
      PROVE  PrivateInv'
  <2>1. /\ pc' = [pc EXCEPT ![o] = "EnsureClusterRoleBinding"]
        /\ obj' = [obj EXCEPT ![o] = cache[o][s]]
        /\ UNCHANGED <<client, sso, cache>>
    BY <1>8 DEF Begin, Goto, localVars, sdkVars
  <2>2. \A p \in Operators : HoldsClient(p)' => HoldsClient(p)
    BY <1>1, <2>1 DEF HoldsClient, Kind, InFlight
  <2>3. \A p \in Operators : obj'[p] = obj[p] \/ obj'[p] = cache[o][s]
    BY <1>1, <2>1
  <2> QED
    BY <1>3, <2>1, <2>2, <2>3 DEF PrivateInv, Private, Registered
<1> QED
  BY <1>4, <1>5, <1>6, <1>7, <1>8 DEF Next, Crash, Panic

\* The client a Handle call works with stays registered in dex, and known to
\* that call alone, until the call publishes or deletes it: for any number of
\* overlapping operators, crashes, refused calls and lost replies.
THEOREM HeldClientsAreRegistered == Spec => []HeldClientRegistered
<1>1. TypeInv /\ PrivateInv /\ [Next]_vars => PrivateInv'
  BY HandlePrivate, OtherPrivate
<1>2. PrivateInv => HeldClientRegistered
  BY DEF PrivateInv, Private, HeldClientRegistered
<1> QED
  BY <1>1, <1>2, InitPrivate, TypeInvariant, PTL DEF Spec

----------------------------------------------------------------------------
(* The published status is stable *)

\* A step that writes the status of an SSO, or the user's writes, increase its
\* version; nothing else touches the SSO.
Written == \A s \in SSOs : \/ sso'[s] = sso[s]
                           \/ sso'[s].rv = sso[s].rv + 1

LEMMA InitVersion == Init => VersionInv
BY DEF Init, VersionInv, NoSSO, Deciding, InFlight

LEMMA MoveVersion ==
  ASSUME TypeInv, VersionInv, "IsSSOInitialized" \notin FailingCalls,
         NEW o \in Operators, Move(o), Written
  PROVE  VersionInv'
<1>1. PICK l \in Labels \ {"idle"} :
        /\ pc' = [pc EXCEPT ![o] = l]
        /\ l \in Deciding /\ Kind(o) = "expose" =>
             \/ pc[o] \in Deciding
             \/ ~(sso[key[o]].live /\ sso[key[o]].initialized)
  BY DEF Move, Goto
<1>2. /\ pc[o] # "idle" /\ pc \in [Operators -> Labels]
      /\ cache' = cache /\ key' = key /\ obj' = obj
  BY DEF Move, TypeInv, TypeOK
<1>3. /\ \A s \in SSOs : sso[s].rv \in Nat
      /\ \A p \in Operators : obj[p].rv \in Nat
      /\ \A p \in Operators, s \in SSOs : cache[p][s].rv \in Nat
  BY DEF TypeInv, TypeOK, SSOObject
<1>4. \A p \in Operators, s \in SSOs : cache'[p][s].rv <= sso'[s].rv
  BY <1>2, <1>3 DEF VersionInv, Written
<1>5. ASSUME NEW p \in Operators
      PROVE  /\ pc'[p] # "idle" => obj'[p].rv <= sso'[key'[p]].rv
             /\ /\ pc'[p] \in Deciding /\ Kind(p)' = "expose"
                /\ sso'[key'[p]].live /\ sso'[key'[p]].initialized
                => obj'[p].rv # sso'[key'[p]].rv
  <2>1. Kind(p)' = Kind(p)
    BY <1>2 DEF Kind
  <2>2. pc'[p] # "idle" => pc[p] # "idle" /\ key[p] \in SSOs
    BY <1>1, <1>2 DEF TypeInv, PathOK
  <2>3. pc'[p] # "idle" =>
          /\ obj[p].rv <= sso[key[p]].rv
          /\ \/ sso'[key[p]] = sso[key[p]]
             \/ obj[p].rv < sso'[key[p]].rv
    BY <1>3, <2>2 DEF VersionInv, Written
  <2>4. pc'[p] \in Deciding /\ Kind(p) = "expose" =>
          \/ pc[p] \in Deciding
          \/ ~(sso[key[p]].live /\ sso[key[p]].initialized)
    BY <1>1, <1>2
  <2>5. "idle" \notin Deciding
    BY DEF Deciding, InFlight
  <2>6. pc'[p] # "idle" => obj'[p].rv <= sso'[key'[p]].rv
    BY <1>2, <1>3, <2>2, <2>3 DEF Written
  <2>7. ASSUME pc'[p] \in Deciding, Kind(p) = "expose",
               sso'[key[p]].live, sso'[key[p]].initialized
        PROVE  obj[p].rv # sso'[key[p]].rv
    <3>1. CASE sso'[key[p]] = sso[key[p]]
      BY <2>4, <2>7, <3>1 DEF VersionInv
    <3>2. CASE obj[p].rv < sso'[key[p]].rv
      BY <1>3, <2>2, <2>5, <2>7, <3>2 DEF Written
    <3> QED
      BY <2>3, <2>5, <2>7, <3>1, <3>2
  <2> QED
    BY <1>2, <2>1, <2>6, <2>7
<1> QED
  BY <1>4, <1>5 DEF VersionInv

LEMMA UpdateStatusWrites ==
  ASSUME TypeInv, NEW o \in Operators, UpdateStatus(o)
  PROVE  Written
<1>1. key[o] \in SSOs /\ sso \in [SSOs -> SSOObject]
  BY Known DEF UpdateStatus, TypeOK
<1> QED
  BY <1>1 DEF UpdateStatus, Written

LEMMA UserWrites ==
  ASSUME TypeInv, NEW s \in SSOs, User(s)
  PROVE  Written
<1>1. sso \in [SSOs -> SSOObject]
  BY DEF TypeInv, TypeOK
<1>2. CASE CreateSSO(s)
  BY <1>1, <1>2 DEF CreateSSO, Written
<1>3. CASE EditSSO(s)
  BY <1>1, <1>3 DEF EditSSO, Written, SSOObject
<1>4. CASE DeleteSSO(s)
  BY <1>1, <1>4 DEF DeleteSSO, Written
<1>5. CASE CreateIngress(s)
  BY <1>5 DEF CreateIngress, Written
<1> QED
  BY <1>2, <1>3, <1>4, <1>5 DEF User

\* A step that leaves the operators' own state alone.
LEMMA OtherVersion ==
  ASSUME TypeInv, VersionInv, Written, UNCHANGED <<cache, key, obj, pc>>
  PROVE  VersionInv'
<1>1. /\ \A s \in SSOs : sso[s].rv \in Nat
      /\ \A p \in Operators : obj[p].rv \in Nat
      /\ \A p \in Operators, s \in SSOs : cache[p][s].rv \in Nat
  BY DEF TypeInv, TypeOK, SSOObject
<1>2. \A p \in Operators : pc[p] # "idle" => key[p] \in SSOs
  BY DEF TypeInv, PathOK
<1>3. \A p \in Operators, s \in SSOs : cache'[p][s].rv <= sso'[s].rv
  BY <1>1 DEF VersionInv, Written
<1>4. \A p \in Operators : pc[p] # "idle" =>
        \/ sso'[key[p]] = sso[key[p]] /\ obj[p].rv <= sso[key[p]].rv
        \/ /\ obj[p].rv <= sso'[key[p]].rv
           /\ obj[p].rv # sso'[key[p]].rv
  BY <1>1, <1>2 DEF VersionInv, Written
<1>5. \A p \in Operators : pc[p] \in Deciding => pc[p] # "idle"
  BY DEF Deciding, InFlight
<1> QED
  BY <1>3, <1>4, <1>5 DEF VersionInv, Kind

LEMMA HandleVersion ==
  ASSUME TypeInv, VersionInv, "IsSSOInitialized" \notin FailingCalls,
         NEW o \in Operators, Handle(o)
  PROVE  VersionInv'
<1>1. CASE CreateClient(o)
  <2>1. /\ pc[o] = "CreateClient" /\ pc \in [Operators -> Labels]
        /\ pc' = [pc EXCEPT ![o] = pc'[o]]
        /\ pc'[o] \in {"CreateSecret", "err"}
        /\ UNCHANGED <<sso, cache, key, obj>>
    BY <1>1 DEF CreateClient, Reply, Refused, Goto, sdkVars, eventVars,
       TypeInv, TypeOK
  <2>2. \A p \in Operators : /\ pc'[p] # "idle" => pc[p] # "idle"
                             /\ pc'[p] \in Deciding => pc[p] \in Deciding
    BY <2>1 DEF Deciding
  <2> QED
    BY <2>1, <2>2 DEF VersionInv, Kind
<1>2. CASE UpdateStatus(o)
  BY <1>2, LateMoves, UpdateStatusWrites, MoveVersion
<1>3. CASE ~CreateClient(o) /\ ~UpdateStatus(o)
  <2>1. Move(o)
    BY <1>3, HandleMoves
  <2>2. sso' = sso
    BY <1>3, DeployMoves, UpdateMoves, ExposeMoves, CleanupMoves, StartMoves
    DEF Handle, FindIngressHosts, UpdateClient, UndoClient, RetireClient,
        Delete
  <2> QED
    BY <2>1, <2>2, MoveVersion DEF Written
<1> QED
  BY <1>1, <1>2, <1>3

LEMMA SDKVersion ==
  ASSUME TypeInv, VersionInv, NEW o \in Operators,
         \/ Return(o) \/ Restart(o)
         \/ \E s \in SSOs : Observe(o, s) \/ Begin(o, s)
  PROVE  VersionInv'
<1>1. /\ cache \in [Operators -> [SSOs -> SSOObject]]
      /\ sso \in [SSOs -> SSOObject] /\ pc \in [Operators -> Labels]
      /\ obj \in [Operators -> SSOObject]
      /\ key \in [Operators -> SSOs \cup {None}]
      /\ \A s \in SSOs : sso[s].rv \in Nat
      /\ sso' = sso
  BY DEF TypeInv, TypeOK, SSOObject, Return, Restart, Observe, Begin
<1>2. ASSUME Return(o) \/ Restart(o) PROVE VersionInv'
  <2>1. /\ pc' = [pc EXCEPT ![o] = "idle"]
        /\ key' = [key EXCEPT ![o] = None]
        /\ obj' = [obj EXCEPT ![o] = NoSSO]
    BY <1>2 DEF Return, Restart, Goto
  <2>2. \A p \in Operators, s \in SSOs :
          \/ cache'[p][s] = cache[p][s] \/ cache'[p][s] = NoSSO
    BY <1>1, <1>2 DEF Return, Restart
  <2>3. NoSSO.rv = 0 /\ "idle" \notin Deciding
    BY DEF NoSSO, Deciding, InFlight
  <2>4. ASSUME NEW p \in Operators, NEW s \in SSOs
        PROVE  cache'[p][s].rv <= sso'[s].rv
    <3>1. cache[p][s].rv <= sso[s].rv /\ sso[s].rv \in Nat /\ sso' = sso
      BY <1>1 DEF VersionInv
    <3>2. CASE cache'[p][s] = cache[p][s]
      BY <3>1, <3>2
    <3>3. CASE cache'[p][s] = NoSSO
      <4>1. cache'[p][s].rv = 0
        BY <3>3, <2>3
      <4> QED
        BY <4>1, <3>1
    <3> QED
      BY <2>2, <3>2, <3>3
  <2>5. \A p \in Operators \ {o} :
          pc'[p] = pc[p] /\ key'[p] = key[p] /\ obj'[p] = obj[p]
    BY <1>1, <2>1
  <2>6. pc'[o] = "idle"
    BY <1>1, <2>1
  <2>7. \A p \in Operators :
          pc'[p] # "idle" => obj'[p].rv <= sso'[key'[p]].rv
    BY <1>1, <2>5, <2>6 DEF VersionInv
  <2>8. ASSUME NEW p \in Operators, pc'[p] \in Deciding, Kind(p)' = "expose",
               sso'[key'[p]].live, sso'[key'[p]].initialized
        PROVE  obj'[p].rv # sso'[key'[p]].rv
    <3>1. p # o
      BY <2>3, <2>6, <2>8
    <3>2. pc'[p] = pc[p] /\ key'[p] = key[p] /\ obj'[p] = obj[p]
      BY <2>5, <3>1
    <3>3. Kind(p)' = Kind(p)
      BY <3>2 DEF Kind
    <3> QED
      BY <1>1, <2>8, <3>2, <3>3 DEF VersionInv
  <2> QED
    BY <2>4, <2>7, <2>8 DEF VersionInv
<1>3. ASSUME NEW s \in SSOs, Observe(o, s) PROVE VersionInv'
  <2>1. UNCHANGED <<key, obj, pc>>
    BY <1>3 DEF Observe, handlerVars
  <2>2. \A p \in Operators, u \in SSOs :
          cache'[p][u].rv <= sso'[u].rv
    <3>1. \A p \in Operators, u \in SSOs :
            \/ cache'[p][u] = cache[p][u]
            \/ u = s /\ cache'[p][u] = sso[s]
      BY <1>1, <1>3 DEF Observe
    <3> QED
      BY <1>1, <3>1 DEF VersionInv
  <2> QED
    BY <1>1, <2>1, <2>2 DEF VersionInv, Kind
<1>4. ASSUME NEW s \in SSOs, Begin(o, s) PROVE VersionInv'
  <2>1. /\ pc' = [pc EXCEPT ![o] = "EnsureClusterRoleBinding"]
        /\ key' = [key EXCEPT ![o] = s]
        /\ obj' = [obj EXCEPT ![o] = cache[o][s]]
        /\ cache' = cache
    BY <1>4 DEF Begin, Goto, sdkVars
  <2>2. \A p \in Operators \ {o} :
          pc'[p] = pc[p] /\ key'[p] = key[p] /\ obj'[p] = obj[p]
    BY <1>1, <2>1
  <2>3. /\ pc'[o] = "EnsureClusterRoleBinding" /\ key'[o] = s
        /\ obj'[o] = cache[o][s]
    BY <1>1, <2>1
  <2>4. "EnsureClusterRoleBinding" \notin Deciding
    BY DEF Deciding, InFlight
  <2> QED
    BY <1>1, <2>1, <2>2, <2>3, <2>4 DEF VersionInv, Kind
<1> QED
  BY <1>2, <1>3, <1>4

LEMMA ControllersKeep ==
  ASSUME NEW s \in SSOs, Controllers(s) PROVE UNCHANGED <<sso, cache>>
BY DEF Controllers, StartPod, StopPod, ExposeJobRuns, CleanupJobRuns,
   JobFails, Collect, sdkVars

LEMMA VersionStep ==
  ASSUME "IsSSOInitialized" \notin FailingCalls
  PROVE  TypeInv /\ VersionInv /\ [Next]_vars => VersionInv'
<1> SUFFICES ASSUME TypeInv, VersionInv, [Next]_vars PROVE VersionInv'
  OBVIOUS
<1>1. CASE UNCHANGED vars
  BY <1>1, OtherVersion DEF Written, vars, sdkVars, handlerVars
<1>2. ASSUME NEW s \in SSOs, User(s) PROVE VersionInv'
  <2>1. UNCHANGED <<cache, key, obj, pc>>
    BY <1>2 DEF User, CreateSSO, EditSSO, DeleteSSO, CreateIngress, sdkVars,
       handlerVars
  <2> QED
    BY <1>2, <2>1, UserWrites, OtherVersion
<1>3. ASSUME NEW s \in SSOs, Controllers(s) PROVE VersionInv'
  <2>1. UNCHANGED <<sso, cache, key, obj, pc>>
    BY <1>3, ControllersKeep, OtherSteps DEF handlerVars
  <2> QED
    BY <2>1, OtherVersion DEF Written
<1> QED
  BY <1>1, <1>2, <1>3, HandleVersion, SDKVersion DEF Next, Crash, Panic

LEMMA StatusStep ==
  ASSUME TypeInv, VersionInv, [Next]_vars
  PROVE  \A s \in SSOs : StatusKept(s)
<1>1. sso \in [SSOs -> SSOObject]
  BY DEF TypeInv, TypeOK
<1>2. CASE sso' = sso
  BY <1>2 DEF StatusKept
<1>3. ASSUME NEW o \in Operators, UpdateStatus(o)
      PROVE  \A s \in SSOs : StatusKept(s)
  <2>1. /\ pc[o] = "UpdateStatus" /\ key[o] \in SSOs /\ Kind(o) = "expose"
    BY <1>3, Known DEF UpdateStatus, TypeInv, PathOK, InitOnly
  <2>2. /\ sso[key[o]].live /\ sso[key[o]].initialized
        => obj[o].rv # sso[key[o]].rv
    BY <2>1 DEF VersionInv, Deciding, InFlight
  <2>3. \A s \in SSOs \ {key[o]} : sso'[s] = sso[s]
    BY <1>1, <1>3, <2>1 DEF UpdateStatus
  <2>4. sso' = sso \/ ~(sso[key[o]].live /\ sso[key[o]].initialized)
    BY <1>3, <2>2 DEF UpdateStatus, StatusConflict
  <2> QED
    BY <1>2, <2>3, <2>4 DEF StatusKept
<1>4. ASSUME NEW u \in SSOs, User(u)
      PROVE  \A s \in SSOs : StatusKept(s)
  <2>1. CASE CreateSSO(u)
    BY <1>1, <2>1 DEF CreateSSO, StatusKept
  <2>2. CASE EditSSO(u)
    BY <1>1, <2>2 DEF EditSSO, StatusKept, SSOObject
  <2>3. CASE DeleteSSO(u)
    BY <1>1, <2>3 DEF DeleteSSO, StatusKept
  <2>4. CASE CreateIngress(u)
    BY <1>2, <2>4 DEF CreateIngress
  <2> QED
    BY <1>4, <2>1, <2>2, <2>3, <2>4 DEF User
<1>5. \/ sso' = sso
      \/ \E o \in Operators : UpdateStatus(o)
      \/ \E u \in SSOs : User(u)
  <2>1. ASSUME NEW o \in Operators, Handle(o), ~UpdateStatus(o)
        PROVE  sso' = sso
    BY <2>1, DeployMoves, UpdateMoves, ExposeMoves, CleanupMoves, StartMoves
    DEF Handle, CreateClient, FindIngressHosts, UpdateClient, UndoClient,
        RetireClient, Delete
  <2> QED
    BY <2>1, ControllersKeep DEF Next, vars, Return, Crash, Panic, Restart,
       Observe, Begin
<1> QED
  BY <1>2, <1>3, <1>4, <1>5

\* As long as the status list does not fail, no Handle call of any operator
\* ever replaces the client of an initialised SSO or takes its status back,
\* however stale its copy of the SSO is and whatever else fails or crashes.
THEOREM StatusIsStable ==
  ASSUME "IsSSOInitialized" \notin FailingCalls
  PROVE  Spec => StatusStable
<1>1. TypeInv /\ VersionInv /\ [Next]_vars => VersionInv'
  BY VersionStep
<1>2. TypeInv /\ VersionInv /\ [Next]_vars
        => [\A s \in SSOs : StatusKept(s)]_vars
  BY StatusStep
<1> QED
  BY <1>1, <1>2, InitVersion, TypeInvariant, PTL DEF Spec, StatusStable

=============================================================================
