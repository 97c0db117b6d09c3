---------------------------- MODULE SSOOperator ----------------------------
(***************************************************************************)
(* pkg/operator/operator.go: the Handle callback, composed of the calls of *)
(* DexClient, Proxy and Expose, together with the operator SDK that        *)
(* invokes it (one worker per process, the object taken from the           *)
(* informer's cache, failed deletion events retried a few times), the user *)
(* who creates, edits and deletes SSO resources, and the garbage collector *)
(* that follows owner references.                                          *)
(***************************************************************************)
EXTENDS DexClient, Proxy, Expose, FiniteSets

Init ==
  /\ sso = [s \in SSOs |-> NoSSO]
  /\ secret = [s \in SSOs |-> None]
  /\ deployment = [s \in SSOs |-> None]
  /\ service = [s \in SSOs |-> None]
  /\ pod = [s \in SSOs |-> None]
  /\ configMap = None
  /\ job = [s \in SSOs |-> [k \in JobKinds |-> None]]
  /\ stray = [s \in SSOs |-> {}]
  /\ ingress = [a \in Apps |-> None]
  /\ dex = [c \in ClientIds |-> None]
  /\ cache = [o \in Operators |-> [s \in SSOs |-> NoSSO]]
  /\ tries = [o \in Operators |-> [s \in SSOs |-> 0]]
  /\ pc = [o \in Operators |-> "idle"]
  /\ key = [o \in Operators |-> None]
  /\ obj = [o \in Operators |-> NoSSO]
  /\ client = [o \in Operators |-> None]
  /\ redirect = [o \in Operators |-> FakeURL]
  /\ fresh = [o \in Operators |-> FALSE]
  /\ app = [o \in Operators |-> None]
  /\ faults = 0

----------------------------------------------------------------------------
(* The operator SDK *)

\* The informer brings its copy up to date: an SSO that exists, or the
\* deletion of one it had a copy of, whose last contents become the event.
Observe(o, s) ==
  /\ cache[o][s] # sso[s]
  /\ sso[s].live \/ cache[o][s].live
  /\ cache' = [cache EXCEPT ![o][s] = sso[s]]
  /\ tries' = [tries EXCEPT ![o][s] =
                 IF sso[s].live THEN 0 ELSE Retries + 1]
  /\ UNCHANGED <<sso, proxyVars, exposeVars, dex, handlerVars, faults>>

\* The worker takes a key off the queue and calls Handle.  A cached SSO is
\* queued again at every resync, a deletion while it has attempts left.
Begin(o, s) ==
  /\ pc[o] = "idle"
  /\ cache[o][s].live \/ tries[o][s] > 0
  /\ Goto(o, "EnsureClusterRoleBinding")
  /\ key' = [key EXCEPT ![o] = s]
  /\ obj' = [obj EXCEPT ![o] = cache[o][s]]
  /\ UNCHANGED <<sso, proxyVars, exposeVars, dex, sdkVars, localVars, faults>>

\* Handle returns; the SDK forgets the deletion it handled, and one that has
\* failed too often.  A deletion observed meanwhile is a new event.
Return(o) ==
  /\ pc[o] \in {"ok", "err"}
  /\ Goto(o, "idle")
  /\ tries' = IF ~obj[o].live /\ cache[o][key[o]] = obj[o]
              THEN [tries EXCEPT ![o][key[o]] =
                      IF pc[o] = "ok" \/ @ = 0 THEN 0 ELSE @ - 1]
              ELSE tries
  /\ key' = [key EXCEPT ![o] = None]
  /\ obj' = [obj EXCEPT ![o] = NoSSO]
  /\ client' = [client EXCEPT ![o] = None]
  /\ redirect' = [redirect EXCEPT ![o] = FakeURL]
  /\ fresh' = [fresh EXCEPT ![o] = FALSE]
  /\ app' = [app EXCEPT ![o] = None]
  /\ UNCHANGED <<sso, proxyVars, exposeVars, dex, cache, faults>>

\* The process dies and is restarted: it forgets the Handle call, and its
\* informer lists the SSOs anew, so it never hears of one deleted meanwhile.
Restart(o) ==
  /\ Goto(o, "idle")
  /\ cache' = [cache EXCEPT ![o] = [s \in SSOs |-> NoSSO]]
  /\ tries' = [tries EXCEPT ![o] = [s \in SSOs |-> 0]]
  /\ key' = [key EXCEPT ![o] = None]
  /\ obj' = [obj EXCEPT ![o] = NoSSO]
  /\ client' = [client EXCEPT ![o] = None]
  /\ redirect' = [redirect EXCEPT ![o] = FakeURL]
  /\ fresh' = [fresh EXCEPT ![o] = FALSE]
  /\ app' = [app EXCEPT ![o] = None]
  /\ UNCHANGED <<sso, proxyVars, exposeVars, dex>>

Crash(o) == MayCrash /\ Fault /\ Restart(o)

\* getUpstreamURL takes the first port of the upstream.  If it has none, the
\* index panics and with it the whole process, after CreateClient.
Panic(o) ==
  /\ pc[o] \in {"CreateSecret", "UpdateSecret"}
  /\ \E u \in Upstream[key[o]] : ~u.ports
  /\ Restart(o)
  /\ UNCHANGED faults

----------------------------------------------------------------------------
(* Handle *)

\* Every event first ensures the role binding; a deleted SSO that had been
\* initialised is then cleaned up, anything else goes on to initialisation.
EnsureClusterRoleBinding(o) ==
  /\ pc[o] = "EnsureClusterRoleBinding"
  /\ \/ Reply(o, IF Kind(o) = "cleanup" THEN "CreateConfigMap"
                                        ELSE "IsSSOInitialized")
     \/ Refused(o, "EnsureClusterRoleBinding", "err")
  /\ UNCHANGED <<sso, proxyVars, exposeVars, dex, sdkVars, eventVars,
                 localVars>>

\* Mutant: the status of the event's copy is used.
IsSSOInitializedFromEvent(o) ==
  /\ pc[o] = "IsSSOInitialized"
  /\ \/ obj[o].initialized /\ Reply(o, "ok")
     \/ ~obj[o].initialized /\ Reply(o, "CreateClient")
  /\ UNCHANGED <<sso, proxyVars, exposeVars, dex, sdkVars, eventVars,
                 localVars>>

\* The status is read from the API server, not from the event.  An SSO that
\* is gone, or a list that failed, counts as not initialised.
IsSSOInitialized(o) ==
  /\ pc[o] = "IsSSOInitialized"
  /\ \/ /\ sso[key[o]].live /\ sso[key[o]].initialized
        /\ Reply(o, "ok")
     \/ /\ ~(sso[key[o]].live /\ sso[key[o]].initialized)
        /\ Reply(o, "CreateClient")
     \/ Refused(o, "IsSSOInitialized", "CreateClient")
  /\ UNCHANGED <<sso, proxyVars, exposeVars, dex, sdkVars, eventVars,
                 localVars>>

\* Mutant: the first ingress of the namespace is taken, whatever its name.
FindAnyIngressHosts(o) ==
  /\ pc[o] = "FindIngressHosts"
  /\ \/ \E a \in Apps :
          /\ ingress[a] # None
          /\ redirect' = [redirect EXCEPT ![o] = ingress[a]]
          /\ Reply(o, "UpdateClient")
     \/ /\ \A a \in Apps : ingress[a] = None
        /\ Reply(o, "UndoClient")
        /\ UNCHANGED redirect
  /\ UNCHANGED <<sso, proxyVars, exposeVars, dex, sdkVars, eventVars, client,
                 fresh, app>>

\* The ingress is looked up by the app name; its host becomes the redirect.
FindIngressHosts(o) ==
  LET host == ingress[app[o]] IN
  /\ pc[o] = "FindIngressHosts"
  /\ \/ /\ host # None
        /\ redirect' = [redirect EXCEPT ![o] = host]
        /\ Reply(o, "UpdateClient")
     \/ /\ host = None
        /\ Reply(o, "UndoClient")
        /\ UNCHANGED redirect
     \/ /\ Refused(o, "FindIngressHosts", "UndoClient")
        /\ UNCHANGED redirect
  /\ UNCHANGED <<sso, proxyVars, exposeVars, dex, sdkVars, eventVars, client,
                 fresh, app>>

\* Mutant: the status is patched without a resource version.
StatusConflictIgnored(o) == ~sso[key[o]].live

\* The status is written on the event's copy, so the API server takes it only
\* if the resource has not been written or deleted since.
StatusConflict(o) ==
  ~sso[key[o]].live \/ sso[key[o]].rv # obj[o].rv

UpdateStatus(o) ==
  /\ pc[o] = "UpdateStatus"
  /\ \/ /\ ~StatusConflict(o)
        /\ sso' = [sso EXCEPT ![key[o]] =
                     [live |-> TRUE, uid |-> @.uid, rv |-> @.rv + 1,
                      initialized |-> TRUE, clientID |-> client[o]]]
        /\ Answered(o, "UpdateStatus", "ok", "UndoClient")
     \/ /\ StatusConflict(o)
        /\ Reply(o, "UndoClient")
        /\ UNCHANGED sso
     \/ /\ Refused(o, "UpdateStatus", "UndoClient")
        /\ UNCHANGED sso
  /\ UNCHANGED <<proxyVars, exposeVars, dex, sdkVars, eventVars, localVars>>

\* deleteClient after a failed initialisation; its caller fails either way.
UndoClient(o) == Delete(o, "UndoClient", client[o], "err", "err")

\* Mutant: the cleanup deletes the client of the call, which has none.
RetireOwnClient(o) == Delete(o, "DeleteClient", client[o], "ok", "err")

\* The last call of the cleanup: the client the event's status names.
RetireClient(o) == Delete(o, "DeleteClient", obj[o].clientID, "ok", "err")

Handle(o) ==
  \/ EnsureClusterRoleBinding(o)
  \/ CleanupSSO(o)
  \/ RetireClient(o)
  \/ IsSSOInitialized(o)
  \/ CreateClient(o)
  \/ Deploy(o)
  \/ ExposeSSO(o)
  \/ FindIngressHosts(o)
  \/ UpdateClient(o)
  \/ Update(o)
  \/ UpdateStatus(o)
  \/ UndoClient(o)

----------------------------------------------------------------------------
(* The user and the garbage collector *)

CreateSSO(s) ==
  /\ ~sso[s].live /\ sso[s].rv < MaxRV /\ sso[s].uid < MaxUid
  /\ sso' = [sso EXCEPT ![s] = [live |-> TRUE, uid |-> @.uid + 1,
                                rv |-> @.rv + 1, initialized |-> FALSE,
                                clientID |-> None]]
  /\ UNCHANGED <<proxyVars, exposeVars, dex, sdkVars, handlerVars, faults>>

EditSSO(s) ==
  /\ s \in Editable /\ sso[s].live /\ sso[s].rv < MaxRV
  /\ sso' = [sso EXCEPT ![s].rv = @ + 1]
  /\ UNCHANGED <<proxyVars, exposeVars, dex, sdkVars, handlerVars, faults>>

DeleteSSO(s) ==
  /\ s \in Deletable /\ sso[s].live /\ sso[s].rv < MaxRV
  /\ sso' = [sso EXCEPT ![s] = [live |-> FALSE, uid |-> @.uid,
                                rv |-> @.rv + 1,
                                initialized |-> @.initialized,
                                clientID |-> @.clientID]]
  /\ UNCHANGED <<proxyVars, exposeVars, dex, sdkVars, handlerVars, faults>>

\* With skipExposeService the user makes the ingress of the proxy.
CreateIngress(s) ==
  /\ s \in SkipExpose /\ sso[s].live
  /\ \E a \in getAppName(s) :
       ingress[a] = None /\ ingress' = [ingress EXCEPT ![a] = s]
  /\ UNCHANGED <<sso, proxyVars, configMap, job, stray, dex, sdkVars, handlerVars,
                 faults>>

User(s) == CreateSSO(s) \/ EditSSO(s) \/ DeleteSSO(s) \/ CreateIngress(s)

\* Objects whose owner is gone are collected, one at a time.
Collect(s) ==
  /\ \/ /\ secret[s] # None /\ OwnerGone(s, secret[s].owner)
        /\ secret' = [secret EXCEPT ![s] = None]
        /\ UNCHANGED <<deployment, service, job, configMap>>
     \/ /\ deployment[s] # None /\ OwnerGone(s, deployment[s].owner)
        /\ deployment' = [deployment EXCEPT ![s] = None]
        /\ UNCHANGED <<secret, service, job, configMap>>
     \/ /\ service[s] # None /\ OwnerGone(s, service[s].owner)
        /\ service' = [service EXCEPT ![s] = None]
        /\ UNCHANGED <<secret, deployment, job, configMap>>
     \/ /\ job[s]["expose"] # None /\ OwnerGone(s, job[s]["expose"].owner)
        /\ job' = [job EXCEPT ![s]["expose"] = None]
        /\ UNCHANGED <<secret, deployment, service, configMap>>
     \/ /\ configMap # None /\ configMap.service = s
        /\ OwnerGone(s, configMap.owner)
        /\ configMap' = None
        /\ UNCHANGED <<secret, deployment, service, job>>
  /\ UNCHANGED <<sso, pod, stray, ingress, dex, sdkVars, handlerVars, faults>>

\* What the controllers of the cluster do on their own.
Controllers(s) ==
  \/ StartPod(s) \/ StopPod(s)
  \/ ExposeJobRuns(s) \/ CleanupJobRuns(s)
  \/ \E k \in JobKinds : JobFails(s, k)
  \/ Collect(s)

----------------------------------------------------------------------------
(* Specification *)

Next ==
  \/ \E s \in SSOs : User(s) \/ Controllers(s)
  \/ \E o \in Operators : Handle(o) \/ Return(o) \/ Crash(o) \/ Panic(o)
  \/ \E o \in Operators, s \in SSOs : Observe(o, s) \/ Begin(o, s)

Spec == Init /\ [][Next]_vars

\* A call in progress ends, and the controllers and the informer keep up.  The
\* work queue is first in, first out, so a key that keeps being queued is
\* taken.  Nothing is asked of the user, and faults need not happen.  Each
\* subscript is what every step of its action changes.
Fairness ==
  /\ \A o \in Operators : WF_pc(Handle(o) \/ Return(o))
  /\ \A o \in Operators, s \in SSOs :
       WF_cache(Observe(o, s)) /\ SF_pc(Begin(o, s))
  /\ \A s \in SSOs :
       /\ WF_pod(StartPod(s)) /\ WF_pod(StopPod(s))
       /\ WF_exposeVars(ExposeJobRuns(s)) /\ WF_exposeVars(CleanupJobRuns(s))
       /\ WF_<<proxyVars, exposeVars>>(Collect(s))

FairSpec == Spec /\ Fairness

----------------------------------------------------------------------------
(* Properties *)

\* The steps of Handle between CreateClient and the status update, at which
\* the handler holds a client that no status names yet.
InFlight == {"CreateSecret", "CreateDeployment", "CreateService",
             "WaitForService", "WaitForPods", "CreateConfigMap", "CreateJob",
             "DeleteStaleJob", "WaitForJob", "DeleteJob", "DeleteConfigMap",
             "FindIngressHosts", "UpdateClient", "UpdateSecret",
             "UpdateDeployment", "WaitForRollout", "UpdateStatus"}
Labels == InFlight \cup {"idle", "EnsureClusterRoleBinding",
                         "IsSSOInitialized", "CreateClient", "UndoClient",
                         "DeleteClient", "ok", "err"}

\* Every variable holds a value of its type.
TypeOK ==
  /\ sso \in [SSOs -> SSOObject]
  /\ secret \in [SSOs -> Secret \cup {None}]
  /\ deployment \in [SSOs -> Deployment \cup {None}]
  /\ service \in [SSOs -> Service \cup {None}]
  /\ pod \in [SSOs -> Pod \cup {None}]
  /\ configMap \in ConfigMap \cup {None}
  /\ job \in [SSOs -> [JobKinds -> Job \cup {None}]]
  /\ stray \in [SSOs -> SUBSET JobKinds]
  /\ ingress \in [Apps -> SSOs \cup {None}]
  /\ dex \in [ClientIds -> Redirects \cup {None}]
  /\ cache \in [Operators -> [SSOs -> SSOObject]]
  /\ tries \in [Operators -> [SSOs -> Nat]]
  /\ pc \in [Operators -> Labels]
  /\ key \in [Operators -> SSOs \cup {None}]
  /\ obj \in [Operators -> SSOObject]
  /\ client \in [Operators -> MaybeId]
  /\ redirect \in [Operators -> Redirects]
  /\ fresh \in [Operators -> BOOLEAN]
  /\ app \in [Operators -> Apps \cup {None}]
  /\ faults \in 0 .. MaxFaults

\* A handler that is past CreateClient and not cleaning up holds a client.
HoldsClient(o) == pc[o] \in InFlight /\ Kind(o) = "expose"

\* Whatever other operators do, fail at or clean up, the client a Handle call
\* works with stays registered until that call publishes or deletes it: the
\* NotFound branch of UpdateClient cannot be taken.
HeldClientRegistered ==
  \A o \in Operators : HoldsClient(o) => Registered(client[o])

\* A status names the client, and a Handle call answers for it: it will publish
\* or delete it.
Names(s, c)   == sso[s].initialized /\ sso[s].clientID = c
Answers(o, c) == client[o] = c /\ (HoldsClient(o) \/ pc[o] = "UndoClient")
Traced(c) ==
  (\E s \in SSOs : Names(s, c)) \/ (\E o \in Operators : Answers(o, c))

\* Every client registered in dex can be traced: the status of its SSO names
\* it (the last status, if the SSO is deleted), or a Handle call holds it and
\* will publish or delete it.
ClientsTraced == \A c \in ClientIds : Registered(c) => Traced(c)

\* What a fault can cost: each refused call, lost reply or crash leaves at most
\* one more client in dex that nothing traces, also when the call that fails
\* is the status list and a later Handle call initialises the SSO once more.
Untraced == {c \in ClientIds : Registered(c) /\ ~Traced(c)}
OneClientPerFault == Cardinality(Untraced) <= faults

\* status.initialized says that dex and the proxy are configured: the client
\* it names is registered with this SSO's host, the secret carries that client
\* and that host, and the deployment is set to roll out that secret.
Configured(s) ==
  LET c == sso[s].clientID IN
  /\ Registered(c) /\ dex[c] = s
  /\ secret[s] # None
  /\ secret[s].config = [client |-> c, redirect |-> s]
  /\ deployment[s] # None /\ deployment[s].version = secret[s].config
InitializedIsConfigured ==
  \A s \in SSOs : sso[s].live /\ sso[s].initialized => Configured(s)

\* An initialised SSO can be reached: its service selects the pods of its
\* deployment, which takes one app name in the labels of both although several
\* Handle calls may have created them, and the ingress of that name routes to
\* the service.
Reachable(s) ==
  /\ service[s] # None /\ deployment[s] # None
  /\ service[s].app = deployment[s].app
  /\ ingress[service[s].app] = s
InitializedIsReachable ==
  \A s \in SSOs : sso[s].live /\ sso[s].initialized => Reachable(s)

\* Every object of a proxy belongs to an incarnation that its SSO has or had,
\* also one that a Handle call with an outdated copy creates or replaces after
\* the SSO was deleted, or created again: nothing remains that the garbage
\* collector may never take.
Owned(s, object) == object # None => object.owner \in 1 .. sso[s].uid
ProxyIsOwned ==
  \A s \in SSOs :
    Owned(s, secret[s]) /\ Owned(s, deployment[s]) /\ Owned(s, service[s])

\* Once an SSO is initialised, no later Handle call of any operator replaces
\* the client its status names or takes the status back.
StatusKept(s) ==
  /\ sso[s].live /\ sso'[s].live /\ sso'[s].uid = sso[s].uid
  /\ sso[s].initialized
  => sso'[s].initialized /\ sso'[s].clientID = sso[s].clientID
StatusStable == [][\A s \in SSOs : StatusKept(s)]_vars

\* An SSO that is not deleted is eventually initialised.
EventuallyInitialized ==
  \A s \in SSOs : sso[s].live ~> (sso[s].initialized \/ ~sso[s].live)

\* The proxy pod of an initialised SSO eventually runs the configuration with
\* the client the status names, unless the SSO is deleted.
EventuallyServed ==
  \A s \in SSOs :
    sso[s].live /\ sso[s].initialized ~>
      \/ ~sso[s].live
      \/ /\ pod[s] # None
         /\ pod[s].config = [client |-> sso[s].clientID, redirect |-> s]

\* When an SSO is deleted its proxy goes, although the operator may be down at
\* that moment and never hear of it, or still be creating the proxy for a copy
\* of the SSO: the owner references leave that to the garbage collector.
Collected(s) ==
  secret[s] = None /\ deployment[s] = None /\ service[s] = None /\ pod[s] = None
DeletedIsCollected ==
  \A s \in SSOs :
    (~sso[s].live /\ sso[s].uid > 0) ~> (sso[s].live \/ Collected(s))

\* When an initialised SSO is deleted, its client, its ingress and its proxy
\* are eventually removed.
CleanedUp(s) ==
  /\ \A c \in ClientIds : sso[s].clientID = c => ~Registered(c)
  /\ \A a \in Apps : ingress[a] # s
  /\ Collected(s)
DeletedIsCleanedUp ==
  \A s \in SSOs :
    (~sso[s].live /\ sso[s].initialized) ~> (sso[s].live \/ CleanedUp(s))

\* The bound on the client ids holds a Handle call up.
OutOfIds == Unused = {} /\ \E o \in Operators : pc[o] = "CreateClient"

\* The same for an SSO that is not exposed and of which an operator has a copy
\* when it is deleted, unless a fault happens after that: neither a Handle call
\* that is still at work on the SSO nor what an earlier crash or lost reply has
\* left behind gets into the way of Cleanup.  (If the SSO is exposed the config
\* map that they leave does: the check of Cleanup is inverted.)
KnownDeletedIsCleanedUp ==
  \A s \in SkipExpose : \A n \in 0 .. MaxFaults :
    (/\ ~sso[s].live /\ sso[s].initialized /\ faults = n
     /\ \E o \in Operators : cache[o][s].live)
    ~> (sso[s].live \/ CleanedUp(s) \/ faults > n \/ OutOfIds)

\* When an SSO is deleted, initialised or not, its service does not stay
\* exposed by an ingress.
DeletedIsUnexposed ==
  \A s \in SSOs :
    (~sso[s].live /\ sso[s].uid > 0) ~>
      (sso[s].live \/ \A a \in Apps : ingress[a] # s)
=============================================================================
