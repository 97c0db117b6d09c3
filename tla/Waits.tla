------------------------------- MODULE Waits -------------------------------
(***************************************************************************)
(* pkg/kubernetes/wait.go: the helpers that wait for an object of the      *)
(* cluster while the object goes on changing and the API server may fail.  *)
(* All but one poll: a closure looks at the object and says whether the    *)
(* wait is over, in vain, or to be continued until the timer ends.  One    *)
(* follows a watch, whose events arrive after the changes they report.     *)
(***************************************************************************)
EXTENDS Naturals, Sequences

CONSTANTS
  Helpers,     \* the helpers to be modelled
  Pods,        \* the pods that match a label
  None,        \* an object that does not exist, or a wait that goes on
  MaxPolls,    \* bound: polls before the timer of a wait ends
  MaxErrors,   \* bound: errors of the API server in a wait
  MaxEvents,   \* bound: events that a watch has not delivered yet
  MaxVersion   \* bound: generations of a deployment

VARIABLES
  helper,  \* the helper that was called
  world,   \* the object it looks at
  events,  \* what a watch has not delivered yet
  phase,   \* WaitForPodReady polls twice, with a timer each
  left,    \* polls left before the timer ends
  errors,  \* errors of the API server so far
  last,    \* the answer of the last call
  held,    \* history: the condition was true at some time of the wait
  result   \* what the helper returned

vars == <<helper, world, events, phase, left, errors, last, held, result>>

----------------------------------------------------------------------------
(* The objects *)

Phases    == {"Pending", "Running", "Succeeded", "Failed", "Unknown"}
PodObject == {p \in [phase : Phases, ready : BOOLEAN] :
                p.ready => p.phase = "Running"}

\* The helpers are asked for one replica, and for two endpoints.
Replicas  == 1
expectNum == 2

DeploymentObject ==
  {d \in [generation : 1 .. MaxVersion, observed : 0 .. MaxVersion,
          replicas : 0 .. Replicas + 1] : d.observed <= d.generation}

OnePod   == {"WaitForPodReady", "WaitForPodComplete"}
Services == {"WaitForService", "WaitForServiceGone"}
Watches  == {"WaitForDeploymentToStabilize"}

AllHelpers == OnePod \cup Services \cup Watches \cup
              {"WaitForPodsWithLabelRunning", "WaitForJobComplete",
               "WaitForServiceEndpointsNum"}

ASSUME WaitsAssumption ==
  /\ Helpers \subseteq AllHelpers
  /\ MaxPolls \in Nat \ {0} /\ MaxErrors \in Nat
  /\ MaxEvents \in Nat \ {0} /\ MaxVersion \in Nat \ {0}

\* Nothing is neither an object nor what a helper returns.
ASSUME NoneAssumption ==
  /\ None \notin PodObject \cup DeploymentObject
  /\ None \notin {"ok", "failed", "timeout"}

Objects(h) ==
  CASE h \in OnePod -> PodObject \cup {None}
    [] h = "WaitForPodsWithLabelRunning" -> [Pods -> PodObject \cup {None}]
    [] h \in Services -> BOOLEAN
    [] h = "WaitForJobComplete" -> {None, {}, {"Complete"}, {"Failed"}}
    [] h = "WaitForServiceEndpointsNum" ->
         {None, <<>>, <<1>>, <<2>>, <<1, 1>>, <<2, 1>>}
    [] h \in Watches -> DeploymentObject \cup {None}

\* A pod that has ended stays so, until it is deleted.
PodChanges(p) ==
  IF p # None /\ p.phase \in {"Succeeded", "Failed"} THEN {None}
  ELSE PodObject \cup {None}

\* A job that has ended stays so, until it is deleted.
JobChanges(j) ==
  IF j = None THEN {{}}
  ELSE IF j = {} THEN {None, {"Complete"}, {"Failed"}} ELSE {None}

\* The user edits the deployment, its controller follows.
DeploymentChanges(d) ==
  IF d = None THEN {[generation |-> 1, observed |-> 0, replicas |-> 0]}
  ELSE {None, [d EXCEPT !.observed = d.generation]}
       \cup {[d EXCEPT !.generation = v] : v \in d.generation .. MaxVersion}
       \cup {[d EXCEPT !.replicas = n] : n \in 0 .. Replicas + 1}

Changes(h, w) ==
  CASE h \in OnePod -> PodChanges(w)
    [] h = "WaitForPodsWithLabelRunning" ->
         UNION {{[w EXCEPT ![p] = q] : q \in PodChanges(w[p])} : p \in Pods}
    [] h = "WaitForJobComplete" -> JobChanges(w)
    [] h \in Watches -> DeploymentChanges(w)
    [] OTHER -> Objects(h)

----------------------------------------------------------------------------
(* The closures: what one look at the object says *)

\* What a call may fail with.  Some of it passes (a server that is busy, down or
\* cut off), some does not (a call that is not allowed).
Errors == {"Timeout", "ServerTimeout", "TooManyRequests", "InternalError",
           "ServiceUnavailable", "ConnectionRefused", "Forbidden"}

\* Mutant: only timeouts are retried.
IsRetryableAPIErrorTimeouts(reply) == reply \in {"Timeout", "ServerTimeout"}

IsRetryableAPIError(reply) ==
  reply \in {"Timeout", "ServerTimeout", "TooManyRequests", "InternalError"}

\* The second phase of WaitForPodReady; any error counts as "not found".
podReady(reply, pod) ==
  IF reply \in Errors \/ pod = None THEN "fail" ELSE
  CASE pod.phase = "Running" -> IF pod.ready THEN "done" ELSE "again"
    [] pod.phase \in {"Succeeded", "Failed"} -> "fail"
    [] pod.phase \in {"Unknown", "Pending"}  -> "again"

podComplete(reply, pod) ==
  IF reply \in Errors \/ pod = None THEN "again" ELSE
  CASE pod.phase = "Succeeded" -> "done"
    [] pod.phase = "Failed"    -> "fail"
    [] pod.phase \in {"Running", "Unknown", "Pending"} -> "again"

\* Mutant: a list without pods is not looked at more closely.
podsRunningEmpty(reply, pods) ==
  LET found == {p \in Pods : pods[p] # None} IN
  IF /\ reply \notin Errors
     /\ \A p \in found : pods[p].phase = "Running" /\ pods[p].ready
  THEN "done" ELSE "again"

podsRunning(reply, pods) ==
  LET found == {p \in Pods : pods[p] # None} IN
  IF /\ reply \notin Errors /\ found # {}
     /\ \A p \in found : pods[p].phase = "Running" /\ pods[p].ready
  THEN "done" ELSE "again"

service(reply, found, exist) ==
  IF reply \in Errors
  THEN IF IsRetryableAPIError(reply) THEN "again" ELSE "fail"
  ELSE IF found = exist THEN "done" ELSE "again"

\* Mutant: a job that is not there is given up.
jobCompleteEager(reply, conditions) ==
  IF reply \in Errors
  THEN IF IsRetryableAPIError(reply) THEN "again" ELSE "fail"
  ELSE IF conditions = {} THEN "again"
  ELSE IF conditions = {"Complete"} THEN "done" ELSE "fail"

\* A job that is not there may still be created.
jobComplete(reply, conditions) ==
  IF reply \in Errors
  THEN IF IsRetryableAPIError(reply) THEN "again" ELSE "fail"
  ELSE IF conditions \in {None, {}} THEN "again"
  ELSE IF conditions \subseteq {"Complete"} THEN "done" ELSE "fail"

\* The addresses of every subset, one after the other.
countEndpointsNum(subsets) ==
  LET num[i \in 0 .. Len(subsets)] ==
        IF i = 0 THEN 0 ELSE num[i - 1] + subsets[i]
  IN num[Len(subsets)]

endpointsNum(reply, subsets) ==
  IF reply \in Errors THEN "fail"
  ELSE IF subsets # None /\ countEndpointsNum(subsets) = expectNum THEN "done"
  ELSE "again"

\* An event of the watch: the deployment as it was then.
deploymentStable(d) ==
  IF d = None THEN "fail"
  ELSE IF d.generation <= d.observed /\ d.replicas = Replicas THEN "done"
  ELSE "again"

Verdict(h, reply, w) ==
  CASE h = "WaitForPodReady"             -> podReady(reply, w)
    [] h = "WaitForPodComplete"          -> podComplete(reply, w)
    [] h = "WaitForPodsWithLabelRunning" -> podsRunning(reply, w)
    [] h = "WaitForService"              -> service(reply, w, TRUE)
    [] h = "WaitForServiceGone"          -> service(reply, w, FALSE)
    [] h = "WaitForJobComplete"          -> jobComplete(reply, w)
    [] h = "WaitForServiceEndpointsNum"  -> endpointsNum(reply, w)

----------------------------------------------------------------------------
(* The conditions that the helpers are said to wait for *)

Ready(pod) == pod # None /\ pod.phase = "Running" /\ pod.ready

Goal(h, w) ==
  CASE h = "WaitForPodReady"    -> Ready(w)
    [] h = "WaitForPodComplete" -> w # None /\ w.phase = "Succeeded"
    [] h = "WaitForPodsWithLabelRunning" ->
         /\ \E p \in Pods : w[p] # None
         /\ \A p \in Pods : w[p] = None \/ Ready(w[p])
    [] h = "WaitForService"     -> w
    [] h = "WaitForServiceGone" -> ~w
    [] h = "WaitForJobComplete" -> w = {"Complete"}
    [] h = "WaitForServiceEndpointsNum" -> w = <<2>> \/ w = <<1, 1>>
    [] h \in Watches ->
         w # None /\ w.observed = w.generation /\ w.replicas = Replicas

----------------------------------------------------------------------------
(* Specification *)

Init ==
  /\ helper \in Helpers
  /\ world \in Objects(helper)
  /\ events = IF helper \in Watches /\ world # None THEN <<world>> ELSE <<>>
  /\ phase = IF helper = "WaitForPodReady" THEN 1 ELSE 2
  /\ left = MaxPolls
  /\ errors = 0
  /\ last = "ok"
  /\ held = Goal(helper, world)
  /\ result = None

\* The object changes, and the watch will tell.
Change ==
  /\ result = None
  /\ Len(events) < MaxEvents
  /\ world' \in Changes(helper, world)
  /\ events' = IF helper \in Watches THEN Append(events, world') ELSE events
  /\ held' = (held \/ Goal(helper, world'))
  /\ UNCHANGED <<helper, phase, left, errors, last, result>>

\* The API server answers, or the call fails.
Answer ==
  \/ last' = "ok" /\ UNCHANGED errors
  \/ last' \in Errors /\ errors < MaxErrors /\ errors' = errors + 1

\* Mutant: one timer for both phases.
WaitForPodScheduledOneTimer ==
  /\ helper = "WaitForPodReady" /\ phase = 1 /\ result = None
  /\ Answer
  /\ left' = left - 1
  /\ phase' = IF last' = "ok" /\ world # None THEN 2 ELSE 1
  /\ result' = IF phase' = 1 /\ left = 1 THEN "timeout" ELSE None
  /\ UNCHANGED <<helper, world, events, held>>

\* The first phase of WaitForPodReady: the pod is to be there.
WaitForPodScheduled ==
  /\ helper = "WaitForPodReady" /\ phase = 1 /\ result = None
  /\ Answer
  /\ \/ /\ last' = "ok" /\ world # None
        /\ phase' = 2 /\ left' = MaxPolls
        /\ UNCHANGED result
     \/ /\ last' # "ok" \/ world = None
        /\ left' = left - 1
        /\ result' = IF left = 1 THEN "timeout" ELSE None
        /\ UNCHANGED phase
  /\ UNCHANGED <<helper, world, events, held>>

\* One poll.  The closure is run once more when the timer has ended.
Poll ==
  /\ helper \notin Watches /\ phase = 2 /\ result = None
  /\ Answer
  /\ left' = left - 1
  /\ LET v == Verdict(helper, last', world) IN
     result' = CASE v = "done" -> "ok"
                 [] v = "fail" -> "failed"
                 [] v = "again" -> IF left = 1 THEN "timeout" ELSE None
  /\ UNCHANGED <<helper, world, events, phase, held>>

\* Opening the watch fails, an event arrives, or the timer ends first.
WaitForDeploymentToStabilize ==
  /\ helper \in Watches /\ result = None
  /\ \/ /\ events # <<>>
        /\ events' = Tail(events)
        /\ result' = CASE deploymentStable(Head(events)) = "done" -> "ok"
                       [] deploymentStable(Head(events)) = "fail" -> "failed"
                       [] OTHER -> None
        /\ UNCHANGED <<last, errors>>
     \/ /\ Answer /\ last' # "ok"
        /\ result' = "failed"
        /\ UNCHANGED events
     \/ /\ result' = "timeout"
        /\ UNCHANGED <<events, last, errors>>
  /\ UNCHANGED <<helper, world, phase, left, held>>

Wait == WaitForPodScheduled \/ Poll \/ WaitForDeploymentToStabilize
Next == Change \/ Wait
Spec == Init /\ [][Next]_vars

\* The timer of a wait goes on.
FairSpec == Spec /\ WF_vars(Wait)

----------------------------------------------------------------------------
(* Properties *)

\* Every variable holds a value of its type.
TypeOK ==
  /\ helper \in Helpers /\ world \in Objects(helper)
  /\ events \in Seq(DeploymentObject \cup {None}) /\ Len(events) <= MaxEvents
  /\ phase \in 1 .. 2 /\ left \in 0 .. MaxPolls /\ errors \in 0 .. MaxErrors
  /\ last \in {"ok"} \cup Errors /\ held \in BOOLEAN
  /\ result \in {None, "ok", "failed", "timeout"}

\* A helper returns success at a moment at which what it waits for is so: the
\* caller may take the wait for one step.  That of a watch has been so since
\* the call.
SuccessIsEarned ==
  [][result = None /\ result' = "ok" =>
       IF helper \in Watches THEN held ELSE Goal(helper, world)]_vars

\* The errors that end a wait: to the two helpers of Deploy and Expose that
\* tell errors apart all but those with which the server asks to try again, to
\* the others, if they look at errors, any.
Decisive(h) ==
  IF h \in {"WaitForPodComplete", "WaitForPodsWithLabelRunning"} THEN {}
  ELSE IF h \in Services \cup {"WaitForJobComplete"}
  THEN {"ServiceUnavailable", "ConnectionRefused", "Forbidden"}
  ELSE Errors

\* What is waited for is not so and can only come true if the object is deleted
\* and created again, or the object has been deleted during the wait.
InVain ==
  \/ ~Goal(helper, world) /\ Changes(helper, world) \subseteq {None}
  \/ helper = "WaitForPodReady" /\ phase = 2 /\ world = None
  \/ helper \in Watches /\ events # <<>> /\ Head(events) = None

\* No helper gives up before its timer ends while what it waits for may still
\* come true by itself, a job that is yet to be created included, unless an
\* error stops it.  Such an error may well pass: a refused connection or a 503
\* ends the wait for a service or a job, a busy server or a timeout does not.
GivesUpOnlyInVain ==
  [][result = None /\ result' = "failed" =>
       last' \in Decisive(helper) \/ InVain]_vars

\* Once what a poll waits for is so and stays so, it is seen before the timer
\* ends although the API server fails for some polls more, as long as its
\* errors are fewer than the polls that are left and none ends the wait.
SteadyIsSeen ==
  (/\ helper \notin Watches /\ result = None
   /\ Goal(helper, world) /\ left > MaxErrors - errors)
  ~> (\/ result = "ok" \/ ~Goal(helper, world)
      \/ result = "failed" /\ last \in Decisive(helper))
=============================================================================
