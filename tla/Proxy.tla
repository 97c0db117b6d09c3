------------------------------- MODULE Proxy -------------------------------
(***************************************************************************)
(* pkg/proxy/proxy.go: Deploy and Update, and what the cluster makes of    *)
(* the deployment.  An object that already exists is kept as it is by      *)
(* Deploy; a step after CreateClient that fails ends in deleteClient.      *)
(***************************************************************************)
EXTENDS Cluster

\* Mutant: client.RedirectUris is not set before Update renders the secret.
proxyConfigStale(o) == [client |-> client[o], redirect |-> FakeURL]

\* The secret Deploy or Update renders, and the SECRET_VERSION it hashes to.
proxyConfig(o) == [client |-> client[o], redirect |-> redirect[o]]

\* Deploy: look up the upstream service, render the configuration and create
\* the secret.  An upstream that is missing or an issuer that is not https is
\* a refusal of this step; an upstream without ports is a Panic.
CreateSecret(o) ==
  /\ pc[o] = "CreateSecret"
  /\ \/ /\ secret[key[o]] = None
        /\ app' \in {[app EXCEPT ![o] = a] : a \in getAppName(key[o])}
        /\ secret' = [secret EXCEPT ![key[o]] =
                        [config |-> proxyConfig(o), owner |-> obj[o].uid]]
        /\ fresh' = [fresh EXCEPT ![o] = TRUE]
        /\ Answered(o, "CreateSecret", "CreateDeployment", "UndoClient")
     \/ /\ secret[key[o]] # None
        /\ app' \in {[app EXCEPT ![o] = a] : a \in getAppName(key[o])}
        /\ Reply(o, "CreateDeployment")
        /\ UNCHANGED <<secret, fresh>>
     \/ /\ Refused(o, "CreateSecret", "UndoClient")
        /\ UNCHANGED <<secret, fresh, app>>
  /\ UNCHANGED <<sso, deployment, service, pod, exposeVars, dex, sdkVars,
                 eventVars, client, redirect>>

\* Mutant: the deployment is created without an owner reference.
CreateDeploymentUnowned(o) ==
  /\ pc[o] = "CreateDeployment"
  /\ deployment' = IF deployment[key[o]] # None THEN deployment
                   ELSE [deployment EXCEPT ![key[o]] =
                           [version |-> proxyConfig(o), app |-> app[o],
                            owner |-> NoOwner]]
  /\ Reply(o, "CreateService")
  /\ UNCHANGED <<sso, secret, service, pod, exposeVars, dex, sdkVars,
                 eventVars, localVars>>

\* Deploy: a deployment that already exists is kept, whatever its version.
CreateDeployment(o) ==
  /\ pc[o] = "CreateDeployment"
  /\ \/ /\ deployment[key[o]] = None
        /\ deployment' = [deployment EXCEPT ![key[o]] =
                            [version |-> proxyConfig(o), app |-> app[o],
                             owner |-> obj[o].uid]]
        /\ Answered(o, "CreateDeployment", "CreateService", "UndoClient")
     \/ /\ deployment[key[o]] # None
        /\ Reply(o, "CreateService")
        /\ UNCHANGED deployment
     \/ /\ Refused(o, "CreateDeployment", "UndoClient")
        /\ UNCHANGED deployment
  /\ UNCHANGED <<sso, secret, service, pod, exposeVars, dex, sdkVars,
                 eventVars, localVars>>

CreateService(o) ==
  /\ pc[o] = "CreateService"
  /\ \/ /\ service[key[o]] = None
        /\ service' = [service EXCEPT ![key[o]] =
                         [app |-> app[o], owner |-> obj[o].uid]]
        /\ Answered(o, "CreateService", "WaitForService", "UndoClient")
     \/ /\ service[key[o]] # None
        /\ Reply(o, "WaitForService")
        /\ UNCHANGED service
     \/ /\ Refused(o, "CreateService", "UndoClient")
        /\ UNCHANGED service
  /\ UNCHANGED <<sso, secret, deployment, pod, exposeVars, dex, sdkVars,
                 eventVars, localVars>>

WaitForService(o) ==
  /\ pc[o] = "WaitForService"
  /\ \/ service[key[o]] # None /\ Reply(o, "WaitForPods")
     \/ service[key[o]] = None /\ Reply(o, "UndoClient")
     \/ Refused(o, "WaitForService", "UndoClient")
  /\ UNCHANGED <<sso, proxyVars, exposeVars, dex, sdkVars, eventVars,
                 localVars>>

\* No pod can become ready without its deployment and its secret volume.
PodsStarve(s) ==
  pod[s] = None /\ (deployment[s] = None \/ secret[s] = None)

\* Poll for a ready pod labelled with the SSO, whatever its version; time out
\* when there can be none, or as a fault while it is slow to come.
WaitForPodsWithLabelRunning(o, label, next) ==
  /\ pc[o] = label
  /\ \/ pod[key[o]] # None /\ Reply(o, next)
     \/ PodsStarve(key[o]) /\ Reply(o, "UndoClient")
     \/ Refused(o, label, "UndoClient")
  /\ UNCHANGED <<sso, proxyVars, exposeVars, dex, sdkVars, eventVars,
                 localVars>>

\* A SkipExpose SSO goes from Deploy straight to the ingress lookup.
AfterDeploy(s) ==
  IF s \in SkipExpose THEN "FindIngressHosts" ELSE "CreateConfigMap"

Deploy(o) ==
  \/ CreateSecret(o)
  \/ CreateDeployment(o)
  \/ CreateService(o)
  \/ WaitForService(o)
  \/ WaitForPodsWithLabelRunning(o, "WaitForPods", AfterDeploy(key[o]))

\* The version this handler knows is the one its own Create returned; the
\* contents it wrote tell whether the secret was written since.
SecretConflict(o) ==
  /\ fresh[o] /\ secret[key[o]] # None
  /\ secret[key[o]].config # [client |-> client[o], redirect |-> FakeURL]

\* Update: replace the whole secret, owner reference included.  A secret this
\* handler did not create is replaced whatever its version.
UpdateSecret(o) ==
  /\ pc[o] = "UpdateSecret"
  /\ \/ /\ secret[key[o]] # None /\ ~SecretConflict(o)
        /\ secret' = [secret EXCEPT ![key[o]] =
                        [config |-> proxyConfig(o), owner |-> obj[o].uid]]
        /\ Answered(o, "UpdateSecret", "UpdateDeployment", "UndoClient")
     \/ /\ secret[key[o]] = None \/ SecretConflict(o)
        /\ Reply(o, "UndoClient")
        /\ UNCHANGED secret
     \/ /\ Refused(o, "UpdateSecret", "UndoClient")
        /\ UNCHANGED secret
  /\ UNCHANGED <<sso, deployment, service, pod, exposeVars, dex, sdkVars,
                 eventVars, localVars>>

\* Update: set SECRET_VERSION in the listed deployment of that name, which
\* keeps its owner.  If none is listed there is nothing to do and no error.
UpdateDeployment(o) ==
  /\ pc[o] = "UpdateDeployment"
  /\ \/ /\ deployment[key[o]] # None
        /\ deployment' =
             [deployment EXCEPT ![key[o]].version = proxyConfig(o)]
        /\ Answered(o, "UpdateDeployment", "WaitForRollout", "UndoClient")
     \/ /\ deployment[key[o]] = None
        /\ Reply(o, "WaitForRollout")
        /\ UNCHANGED deployment
     \/ /\ Refused(o, "UpdateDeployment", "UndoClient")
        /\ UNCHANGED deployment
  /\ UNCHANGED <<sso, secret, service, pod, exposeVars, dex, sdkVars,
                 eventVars, localVars>>

Update(o) ==
  \/ UpdateSecret(o)
  \/ UpdateDeployment(o)
  \/ WaitForPodsWithLabelRunning(o, "WaitForRollout", "UpdateStatus")

----------------------------------------------------------------------------
(* The cluster's side *)

\* Mutant: SECRET_VERSION is not part of the pod template.
StartPodOnce(s) ==
  /\ deployment[s] # None /\ secret[s] # None /\ pod[s] = None
  /\ pod' = [pod EXCEPT ![s] = [version |-> deployment[s].version,
                                config |-> secret[s].config]]
  /\ UNCHANGED <<sso, secret, deployment, service, exposeVars, dex, sdkVars,
                 handlerVars, faults>>

\* The deployment controller starts the pod, or replaces it when the
\* template's SECRET_VERSION changed; it reads the secret as it starts.
StartPod(s) ==
  /\ deployment[s] # None /\ secret[s] # None
  /\ ~(pod[s] # None /\ pod[s].version = deployment[s].version)
  /\ pod' = [pod EXCEPT ![s] = [version |-> deployment[s].version,
                                config |-> secret[s].config]]
  /\ UNCHANGED <<sso, secret, deployment, service, exposeVars, dex, sdkVars,
                 handlerVars, faults>>

\* A pod whose deployment is gone terminates.
StopPod(s) ==
  /\ deployment[s] = None /\ pod[s] # None
  /\ pod' = [pod EXCEPT ![s] = None]
  /\ UNCHANGED <<sso, secret, deployment, service, exposeVars, dex, sdkVars,
                 handlerVars, faults>>
=============================================================================
