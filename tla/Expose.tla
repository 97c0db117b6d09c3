------------------------------ MODULE Expose -------------------------------
(***************************************************************************)
(* pkg/proxy/expose.go: Expose and Cleanup run the exposecontroller as a   *)
(* Job.  Both mount the config map named "expose-configmap", of which      *)
(* there is one per namespace, whichever SSO it was rendered for.          *)
(***************************************************************************)
EXTENDS Cluster

\* Mutant: a failing Expose is returned without deleteClient.
OnErrorWithoutUndo(k) == "err"

\* Expose fails into deleteClient, Cleanup straight back to the SDK.
OnError(k) == IF k = "expose" THEN "UndoClient" ELSE "err"

\* Expose runs on the initialisation path, Cleanup for a deleted SSO that was
\* initialised.
Kind(o) ==
  IF ~obj[o].live /\ obj[o].initialized THEN "cleanup" ELSE "expose"

\* Only Expose sets owner references.
JobOwner(o, k) == IF k = "expose" THEN obj[o].uid ELSE NoOwner

\* Expose keeps a config map that already exists.
CreateConfigMap(o) ==
  /\ pc[o] = "CreateConfigMap" /\ Kind(o) = "expose"
  /\ \/ /\ configMap = None
        /\ configMap' = [service |-> key[o],
                         owner |-> JobOwner(o, "expose")]
        /\ Answered(o, "CreateConfigMap", "CreateJob", "UndoClient")
     \/ /\ configMap # None
        /\ Reply(o, "CreateJob")
        /\ UNCHANGED configMap
     \/ /\ Refused(o, "CreateConfigMap", "UndoClient")
        /\ UNCHANGED configMap
  /\ UNCHANGED <<sso, proxyVars, job, stray, ingress, dex, sdkVars, eventVars,
                 localVars>>

\* Cleanup gives up when the config map already exists, and ignores every
\* other error.
CleanupConfigMap(o) ==
  /\ pc[o] = "CreateConfigMap" /\ Kind(o) = "cleanup"
  /\ \/ /\ configMap = None
        /\ configMap' = [service |-> key[o],
                         owner |-> JobOwner(o, "cleanup")]
        /\ Answered(o, "CleanupConfigMap", "CreateJob", "CreateJob")
     \/ /\ configMap # None
        /\ Reply(o, "err")
        /\ UNCHANGED configMap
     \/ /\ Refused(o, "CleanupConfigMap", "CreateJob")
        /\ UNCHANGED configMap
  /\ UNCHANGED <<sso, proxyVars, job, stray, ingress, dex, sdkVars, eventVars,
                 localVars>>

\* A job that already exists is deleted, and this attempt fails.
CreateJob(o, k) ==
  /\ pc[o] = "CreateJob" /\ Kind(o) = k
  /\ \/ /\ job[key[o]][k] = None
        /\ job' = [job EXCEPT ![key[o]][k] =
                     [state |-> "running", owner |-> JobOwner(o, k)]]
        /\ Answered(o, "CreateJob", "WaitForJob", OnError(k))
     \/ /\ job[key[o]][k] # None
        /\ Reply(o, "DeleteStaleJob")
        /\ UNCHANGED job
     \/ /\ Refused(o, "CreateJob", OnError(k))
        /\ UNCHANGED job
  /\ UNCHANGED <<sso, proxyVars, configMap, stray, ingress, dex, sdkVars,
                 eventVars, localVars>>

\* Mutant: the job that exists is reported, and left.
DeleteStaleJobForgotten(o, k) ==
  /\ pc[o] = "DeleteStaleJob" /\ Kind(o) = k
  /\ Reply(o, OnError(k))
  /\ UNCHANGED <<sso, proxyVars, exposeVars, dex, sdkVars, eventVars,
                 localVars>>

\* The stale job is deleted without a propagation policy, for which the API
\* of batch/v1 orphans the pods: one that runs is left to itself.
DeleteStaleJob(o, k) ==
  LET running == job[key[o]][k] # None /\ job[key[o]][k].state = "running" IN
  /\ pc[o] = "DeleteStaleJob" /\ Kind(o) = k
  /\ \/ /\ job' = [job EXCEPT ![key[o]][k] = None]
        /\ stray' = IF running THEN [stray EXCEPT ![key[o]] = @ \cup {k}]
                               ELSE stray
        /\ Reply(o, OnError(k))
     \/ /\ Refused(o, "DeleteStaleJob", OnError(k))
        /\ UNCHANGED <<job, stray>>
  /\ UNCHANGED <<sso, proxyVars, configMap, ingress, dex, sdkVars, eventVars,
                 localVars>>

\* A job that is gone, or whose pod cannot mount the config map, never ends.
JobStarves(s, k) ==
  \/ job[s][k] = None
  \/ job[s][k] # None /\ job[s][k].state = "running" /\ configMap = None

\* Poll until the job completes; fail when it failed, or at the timeout.
WaitForJobComplete(o, k) ==
  /\ pc[o] = "WaitForJob" /\ Kind(o) = k
  /\ \/ /\ job[key[o]][k] # None /\ job[key[o]][k].state = "complete"
        /\ Reply(o, "DeleteJob")
     \/ /\ job[key[o]][k] # None /\ job[key[o]][k].state = "failed"
        /\ Reply(o, OnError(k))
     \/ JobStarves(key[o], k) /\ Reply(o, OnError(k))
     \/ Refused(o, "WaitForJob", OnError(k))
  /\ UNCHANGED <<sso, proxyVars, exposeVars, dex, sdkVars, eventVars,
                 localVars>>

DeleteJob(o, k) ==
  /\ pc[o] = "DeleteJob" /\ Kind(o) = k
  /\ \/ /\ job[key[o]][k] # None
        /\ job' = [job EXCEPT ![key[o]][k] = None]
        /\ Answered(o, "DeleteJob", "DeleteConfigMap", OnError(k))
     \/ /\ job[key[o]][k] = None
        /\ Reply(o, OnError(k))
        /\ UNCHANGED job
     \/ /\ Refused(o, "DeleteJob", OnError(k))
        /\ UNCHANGED job
  /\ UNCHANGED <<sso, proxyVars, configMap, stray, ingress, dex, sdkVars,
                 eventVars, localVars>>

\* Mutant: the config map is left behind.
DeleteConfigMapForgotten(o, k) ==
  /\ pc[o] = "DeleteConfigMap" /\ Kind(o) = k
  /\ Reply(o, IF k = "expose" THEN "FindIngressHosts" ELSE "DeleteClient")
  /\ UNCHANGED <<sso, proxyVars, exposeVars, dex, sdkVars, eventVars,
                 localVars>>

\* The config map is deleted by name, whoever rendered it.
DeleteConfigMap(o, k) ==
  /\ pc[o] = "DeleteConfigMap" /\ Kind(o) = k
  /\ \/ /\ configMap # None
        /\ configMap' = None
        /\ Answered(o, "DeleteConfigMap",
                    IF k = "expose" THEN "FindIngressHosts"
                                    ELSE "DeleteClient",
                    OnError(k))
     \/ /\ configMap = None
        /\ Reply(o, OnError(k))
        /\ UNCHANGED configMap
     \/ /\ Refused(o, "DeleteConfigMap", OnError(k))
        /\ UNCHANGED configMap
  /\ UNCHANGED <<sso, proxyVars, job, stray, ingress, dex, sdkVars, eventVars,
                 localVars>>

RunsJob(o, k) ==
  \/ CreateJob(o, k)
  \/ DeleteStaleJob(o, k)
  \/ WaitForJobComplete(o, k)
  \/ DeleteJob(o, k)
  \/ DeleteConfigMap(o, k)

ExposeSSO(o)  == CreateConfigMap(o) \/ RunsJob(o, "expose")
CleanupSSO(o) == CleanupConfigMap(o) \/ RunsJob(o, "cleanup")

----------------------------------------------------------------------------
(* The exposecontroller *)

\* The pod of a job, or the stray one of a job that was deleted, mounts the
\* config map and runs to its end.
PodRuns(s, k) ==
  /\ configMap # None
  /\ \/ /\ job[s][k] # None /\ job[s][k].state = "running"
        /\ job' = [job EXCEPT ![s][k].state = "complete"]
        /\ UNCHANGED stray
     \/ /\ k \in stray[s]
        /\ stray' = [stray EXCEPT ![s] = @ \ {k}]
        /\ UNCHANGED job

\* An expose job creates the ingress of the service its config map names, if
\* that service exists, under the name in the service's annotation.
ExposeJobRuns(s) ==
  LET t == configMap.service IN
  /\ PodRuns(s, "expose")
  /\ ingress' = IF service[t] # None
                THEN [ingress EXCEPT ![service[t].app] = t] ELSE ingress
  /\ UNCHANGED <<sso, proxyVars, configMap, dex, sdkVars, handlerVars,
                 faults>>

\* A cleanup job removes the ingress of the service its filter names.
CleanupJobRuns(s) ==
  /\ PodRuns(s, "cleanup")
  /\ ingress' = [a \in Apps |-> IF ingress[a] = s THEN None ELSE ingress[a]]
  /\ UNCHANGED <<sso, proxyVars, configMap, dex, sdkVars, handlerVars,
                 faults>>

JobFails(s, k) ==
  /\ job[s][k] # None /\ job[s][k].state = "running"
  /\ "RunJob" \in FailingCalls /\ Fault
  /\ job' = [job EXCEPT ![s][k].state = "failed"]
  /\ UNCHANGED <<sso, proxyVars, configMap, stray, ingress, dex, sdkVars,
                 handlerVars>>
=============================================================================
