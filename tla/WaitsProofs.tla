---------------------------- MODULE WaitsProofs ----------------------------
(***************************************************************************)
(* What the helpers of wait.go return, for any number of polls, errors,    *)
(* events, generations and pods: every answer is of its type, no wait is   *)
(* given up while it may succeed, and success is earned.                   *)
(***************************************************************************)
EXTENDS Waits, TLAPS

----------------------------------------------------------------------------
(* The objects and the closures *)

\* The object that each helper looks at.
LEMMA ObjectsOf ==
  ASSUME NEW h
  PROVE  /\ h \in OnePod => Objects(h) = PodObject \cup {None}
         /\ h = "WaitForPodsWithLabelRunning" =>
              Objects(h) = [Pods -> PodObject \cup {None}]
         /\ h \in Services => Objects(h) = BOOLEAN
         /\ h = "WaitForJobComplete" =>
              Objects(h) = {None, {}, {"Complete"}, {"Failed"}}
         /\ h = "WaitForServiceEndpointsNum" =>
              Objects(h) = {None, <<>>, <<1>>, <<2>>, <<1, 1>>, <<2, 1>>}
         /\ h \in Watches => Objects(h) = DeploymentObject \cup {None}
BY DEF Objects, OnePod, Services, Watches

\* How the cluster changes the object of each helper.
LEMMA ChangesOf ==
  ASSUME NEW h, NEW w
  PROVE  /\ h \in OnePod => Changes(h, w) = PodChanges(w)
         /\ h = "WaitForPodsWithLabelRunning" =>
              Changes(h, w) =
                UNION {{[w EXCEPT ![p] = q] : q \in PodChanges(w[p])} :
                         p \in Pods}
         /\ h = "WaitForJobComplete" => Changes(h, w) = JobChanges(w)
         /\ h \in Watches => Changes(h, w) = DeploymentChanges(w)
         /\ h \in Services \cup {"WaitForServiceEndpointsNum"} =>
              Changes(h, w) = Objects(h)
BY DEF Changes, OnePod, Services, Watches

\* The cluster turns an object into one that the helper can meet.
LEMMA ChangesAreObjects ==
  ASSUME NEW h \in Helpers, NEW w \in Objects(h), NEW v \in Changes(h, w)
  PROVE  v \in Objects(h)
<1>1. CASE h \in OnePod
  BY <1>1, ObjectsOf, ChangesOf DEF PodChanges
<1>2. CASE h = "WaitForPodsWithLabelRunning"
  <2>1. w \in [Pods -> PodObject \cup {None}]
    BY <1>2, ObjectsOf
  <2>2. PICK p \in Pods :
               \E q \in PodChanges(w[p]) : v = [w EXCEPT ![p] = q]
    BY <1>2, ChangesOf
  <2>3. PodChanges(w[p]) \subseteq PodObject \cup {None}
    BY DEF PodChanges
  <2>4. v \in [Pods -> PodObject \cup {None}]
    BY <2>1, <2>2, <2>3
  <2> QED BY <1>2, <2>4, ObjectsOf
<1>3. CASE h = "WaitForJobComplete"
  BY <1>3, ObjectsOf, ChangesOf DEF JobChanges
<1>4. CASE h \in Watches
  <2>1. w \in DeploymentObject \cup {None} /\ v \in DeploymentChanges(w)
    BY <1>4, ObjectsOf, ChangesOf
  <2>2. v \in DeploymentObject \cup {None}
    BY <2>1, WaitsAssumption
    DEF DeploymentChanges, DeploymentObject, Replicas
  <2> QED BY <1>4, <2>2, ObjectsOf
<1>5. CASE h \in Services \cup {"WaitForServiceEndpointsNum"}
  BY <1>5, ChangesOf
<1> QED
  BY WaitsAssumption, <1>1, <1>2, <1>3, <1>4, <1>5 DEF AllHelpers

\* Each closure ends the wait, fails or asks for another poll.
LEMMA ClosuresDecide ==
  ASSUME NEW h \in Helpers \ Watches, NEW w \in Objects(h), NEW reply
  PROVE  Verdict(h, reply, w) \in {"done", "fail", "again"}
<1>1. CASE h \in OnePod
  <2>1. w = None \/ w.phase \in Phases
    BY <1>1, ObjectsOf DEF PodObject
  <2> QED
    BY <1>1, <2>1 DEF Verdict, OnePod, podReady, podComplete, Phases
<1>2. CASE h = "WaitForPodsWithLabelRunning"
  BY <1>2 DEF Verdict, podsRunning
<1>3. CASE h \in Services
  BY <1>3 DEF Verdict, Services, service
<1>4. CASE h = "WaitForJobComplete"
  BY <1>4 DEF Verdict, jobComplete
<1>5. CASE h = "WaitForServiceEndpointsNum"
  BY <1>5 DEF Verdict, endpointsNum
<1> QED
  BY WaitsAssumption, <1>1, <1>2, <1>3, <1>4, <1>5 DEF AllHelpers

\* The loop over the subsets of an endpoints object adds their addresses up.
LEMMA CountAddsUp ==
  ASSUME NEW s \in Seq(Nat), Len(s) \in {1, 2}
  PROVE  countEndpointsNum(s) = IF Len(s) = 1 THEN s[1] ELSE s[1] + s[2]
<1> DEFINE D == 0 .. Len(s)
           sum == [i \in D |-> CASE i = 0 -> 0
                                 [] i = 1 -> s[1]
                                 [] OTHER -> s[1] + s[2]]
           num[i \in D] == IF i = 0 THEN 0 ELSE num[i - 1] + s[i]
<1>1. s[1] \in Nat /\ (Len(s) = 2 => s[2] \in Nat)
  OBVIOUS
<1>2. sum = [i \in D |-> IF i = 0 THEN 0 ELSE sum[i - 1] + s[i]]
  <2> SUFFICES ASSUME NEW i \in D
               PROVE  sum[i] = IF i = 0 THEN 0 ELSE sum[i - 1] + s[i]
    OBVIOUS
  <2> QED BY <1>1
<1>3. num = [i \in D |-> IF i = 0 THEN 0 ELSE num[i - 1] + s[i]]
  <2> HIDE DEF sum
  <2> QED BY <1>2
<1>4. num[0] = 0 /\ num[1] = s[1] /\ (Len(s) = 2 => num[2] = num[1] + s[2])
  <2> HIDE DEF num
  <2> QED BY <1>1, <1>3
<1>5. countEndpointsNum(s) = num[Len(s)]
  BY DEF countEndpointsNum
<1> HIDE DEF num
<1> QED BY <1>1, <1>4, <1>5

\* A closure that ends the wait has seen what the helper is to wait for.
LEMMA DoneIsEarned ==
  ASSUME NEW h \in Helpers \ Watches, NEW w \in Objects(h), NEW reply,
         Verdict(h, reply, w) = "done"
  PROVE  Goal(h, w)
<1>1. CASE h \in OnePod
  <2>1. w = None \/ w.phase \in Phases
    BY <1>1, ObjectsOf DEF PodObject
  <2> QED
    BY <1>1, <2>1
    DEF Verdict, Goal, Ready, OnePod, podReady, podComplete, Phases
<1>2. CASE h = "WaitForPodsWithLabelRunning"
  <2>1. podsRunning(reply, w) = "done"
    BY <1>2 DEF Verdict
  <2> QED BY <1>2, <2>1 DEF Goal, Ready, podsRunning
<1>3. CASE h \in Services
  BY <1>3, ObjectsOf DEF Verdict, Goal, Services, service
<1>4. CASE h = "WaitForJobComplete"
  BY <1>4, ObjectsOf DEF Verdict, Goal, jobComplete
<1>5. CASE h = "WaitForServiceEndpointsNum"
  <2>1. w # None /\ countEndpointsNum(w) = 2
    BY <1>5 DEF Verdict, endpointsNum, expectNum
  <2>2. w \in {<<>>, <<1>>, <<2>>, <<1, 1>>, <<2, 1>>}
    BY <1>5, <2>1, ObjectsOf
  <2>3. w # <<>>
    <3> SUFFICES countEndpointsNum(<<>>) = 0
      BY <2>1
    <3> DEFINE num[i \in 0 .. 0] == IF i = 0 THEN 0 ELSE num[i - 1] + <<>>[i]
    <3>1. countEndpointsNum(<<>>) = num[0]
      BY DEF countEndpointsNum
    <3>2. num = [i \in 0 .. 0 |-> 0]
      OBVIOUS
    <3> QED BY <3>1, <3>2
  <2>4. countEndpointsNum(<<1>>) = 1
    BY CountAddsUp, <<1>> \in Seq(Nat), Len(<<1>>) = 1
  <2>5. countEndpointsNum(<<2, 1>>) = 3
    <3> DEFINE s == <<2, 1>>
    <3>1. s \in Seq(Nat) /\ Len(s) = 2 /\ s[1] = 2 /\ s[2] = 1
      OBVIOUS
    <3> HIDE DEF s
    <3>2. countEndpointsNum(s) = s[1] + s[2]
      BY <3>1, CountAddsUp
    <3>3. countEndpointsNum(s) = 3
      BY <3>1, <3>2
    <3> QED BY <3>3 DEF s
  <2> QED BY <1>5, <2>1, <2>2, <2>3, <2>4, <2>5 DEF Goal
<1> QED
  BY WaitsAssumption, <1>1, <1>2, <1>3, <1>4, <1>5 DEF AllHelpers

----------------------------------------------------------------------------
(* The inductive invariant *)

\* A wait that goes on has polls left.
Going == result = None => left > 0

\* What a watch has yet to deliver was so at some time of the wait.
Heard ==
  helper \in Watches =>
    \A i \in 1 .. Len(events) : Goal(helper, events[i]) => held

\* A watch delivers a deployment that is stable, or not: never anything else.
LEMMA StableIsGoal ==
  ASSUME NEW h \in Watches, NEW d \in DeploymentObject \cup {None},
         deploymentStable(d) = "done"
  PROVE  Goal(h, d)
<1>1. d # None /\ d.generation <= d.observed /\ d.replicas = Replicas
  BY DEF deploymentStable
<1>2. d.observed <= d.generation /\ d.generation \in Nat /\ d.observed \in Nat
  BY <1>1, WaitsAssumption DEF DeploymentObject
<1>3. d.observed = d.generation
  BY <1>1, <1>2
<1> QED BY <1>1, <1>3 DEF Goal, Watches, OnePod

\* A goal is true or false.
LEMMA GoalIsBoolean ==
  ASSUME NEW h \in Helpers, NEW w \in Objects(h)
  PROVE  Goal(h, w) \in BOOLEAN
<1>1. CASE h \in OnePod
  BY <1>1 DEF Goal, OnePod, Ready
<1>2. CASE h = "WaitForPodsWithLabelRunning"
  BY <1>2 DEF Goal
<1>3. CASE h \in Services
  BY <1>3, ObjectsOf DEF Goal, Services
<1>4. CASE h = "WaitForJobComplete"
  BY <1>4 DEF Goal
<1>5. CASE h = "WaitForServiceEndpointsNum"
  BY <1>5 DEF Goal
<1>6. CASE h \in Watches
  BY <1>6 DEF Goal, Watches
<1> QED
  BY WaitsAssumption, <1>1, <1>2, <1>3, <1>4, <1>5, <1>6 DEF AllHelpers

\* Every wait starts well.
LEMMA InitEstablishes == Init => TypeOK /\ Going /\ Heard
<1> SUFFICES ASSUME Init PROVE TypeOK /\ Going /\ Heard
  OBVIOUS
<1>1. held \in BOOLEAN
  BY GoalIsBoolean DEF Init
<1>2. helper \in Watches => world \in DeploymentObject \cup {None}
  BY ObjectsOf DEF Init
<1>3. /\ events \in Seq(DeploymentObject \cup {None})
      /\ Len(events) <= MaxEvents
  <2>1. CASE events = <<>>
    BY <2>1, WaitsAssumption
  <2>2. CASE helper \in Watches /\ events = <<world>>
    BY <1>2, <2>2, WaitsAssumption
  <2> QED BY <2>1, <2>2 DEF Init
<1>4. TypeOK
  BY <1>1, <1>3, WaitsAssumption DEF Init, TypeOK
<1>5. Going
  BY WaitsAssumption DEF Init, Going
<1>6. Heard
  <2> SUFFICES ASSUME helper \in Watches, NEW i \in 1 .. Len(events),
                      Goal(helper, events[i])
               PROVE  held
    BY DEF Heard
  <2>1. events = <<world>>
    BY DEF Init
  <2>2. events[i] = world
    BY <2>1
  <2> QED BY <2>2 DEF Init
<1> QED BY <1>4, <1>5, <1>6

\* The answer of a call is of its type.
LEMMA AnswersAreTyped ==
  ASSUME TypeOK, Answer
  PROVE  last' \in {"ok"} \cup Errors /\ errors' \in 0 .. MaxErrors
BY WaitsAssumption DEF TypeOK, Answer

\* The object's change keeps the invariant: the watch will tell what is so now.
LEMMA ChangePreserves ==
  TypeOK /\ Going /\ Heard /\ Change => TypeOK' /\ Going' /\ Heard'
<1> SUFFICES ASSUME TypeOK, Going, Heard, Change
             PROVE  TypeOK' /\ Going' /\ Heard'
  OBVIOUS
<1>1. world' \in Objects(helper)
  BY ChangesAreObjects DEF TypeOK, Change
<1>2. held' \in BOOLEAN
  BY <1>1, GoalIsBoolean DEF TypeOK, Change
<1>3. helper \in Watches => world' \in DeploymentObject \cup {None}
  BY <1>1, ObjectsOf
<1>4. /\ events' \in Seq(DeploymentObject \cup {None})
      /\ Len(events') <= MaxEvents
  BY <1>3, WaitsAssumption DEF TypeOK, Change
<1>5. TypeOK'
  BY <1>1, <1>2, <1>4 DEF TypeOK, Change
<1>6. Going'
  BY DEF Going, Change
<1>7. Heard'
  <2> SUFFICES ASSUME helper' \in Watches, NEW i \in 1 .. Len(events'),
                      Goal(helper', events'[i])
               PROVE  held'
    BY DEF Heard
  <2>1. helper' = helper /\ events' = Append(events, world')
    BY DEF Change
  <2>2. CASE i = Len(events')
    <3>1. events'[i] = world'
      BY <2>1, <2>2 DEF TypeOK
    <3> QED BY <2>1, <3>1 DEF Change
  <2>3. CASE i # Len(events')
    <3>1. i \in 1 .. Len(events) /\ events'[i] = events[i]
      BY <2>1, <2>3 DEF TypeOK
    <3> QED BY <2>1, <3>1 DEF Heard, Change
  <2> QED BY <2>2, <2>3
<1> QED BY <1>5, <1>6, <1>7

\* The first poll of WaitForPodReady keeps the invariant.
LEMMA ScheduledPreserves ==
  TypeOK /\ Going /\ Heard /\ WaitForPodScheduled => TypeOK' /\ Going' /\ Heard'
<1> SUFFICES ASSUME TypeOK, Going, Heard, WaitForPodScheduled
             PROVE  TypeOK' /\ Going' /\ Heard'
  OBVIOUS
<1>1. left \in 1 .. MaxPolls
  BY WaitsAssumption DEF TypeOK, Going, WaitForPodScheduled
<1>2. left' \in 0 .. MaxPolls /\ phase' \in 1 .. 2
  BY <1>1, WaitsAssumption DEF TypeOK, WaitForPodScheduled
<1>3. result' \in {None, "ok", "failed", "timeout"}
  BY DEF WaitForPodScheduled
<1>4. TypeOK'
  BY <1>2, <1>3, AnswersAreTyped DEF TypeOK, WaitForPodScheduled
<1>5. Going'
  BY <1>1, WaitsAssumption, NoneAssumption DEF Going, WaitForPodScheduled
<1>6. Heard'
  BY DEF Heard, WaitForPodScheduled
<1> QED BY <1>4, <1>5, <1>6

\* A poll keeps the invariant.
LEMMA PollPreserves ==
  TypeOK /\ Going /\ Heard /\ Poll => TypeOK' /\ Going' /\ Heard'
<1> SUFFICES ASSUME TypeOK, Going, Heard, Poll
             PROVE  TypeOK' /\ Going' /\ Heard'
  OBVIOUS
<1>1. left \in 1 .. MaxPolls
  BY WaitsAssumption DEF TypeOK, Going, Poll
<1>2. left' \in 0 .. MaxPolls
  BY <1>1, WaitsAssumption DEF Poll
<1> DEFINE v == Verdict(helper, last', world)
<1>3. v \in {"done", "fail", "again"}
  BY ClosuresDecide DEF TypeOK, Poll
<1>4. /\ v = "done" => result' = "ok"
      /\ v = "fail" => result' = "failed"
      /\ v = "again" => result' = IF left = 1 THEN "timeout" ELSE None
  <2> HIDE DEF v
  <2>1. result' = CASE v = "done" -> "ok"
                    [] v = "fail" -> "failed"
                    [] v = "again" -> IF left = 1 THEN "timeout" ELSE None
    BY DEF Poll, v
  <2> QED BY <2>1
<1> HIDE DEF v
<1>5. TypeOK'
  BY <1>2, <1>3, <1>4, AnswersAreTyped DEF TypeOK, Poll
<1>6. Going'
  <2>1. left' = left - 1
    BY DEF Poll
  <2>2. result' = None => left # 1
    BY <1>3, <1>4, NoneAssumption
  <2> QED BY <1>1, <2>1, <2>2 DEF Going
<1>7. Heard'
  BY DEF Heard, Poll
<1> QED BY <1>5, <1>6, <1>7

\* A step of the watch keeps the invariant.
LEMMA WatchPreserves ==
  TypeOK /\ Going /\ Heard /\ WaitForDeploymentToStabilize =>
    TypeOK' /\ Going' /\ Heard'
<1> SUFFICES ASSUME TypeOK, Going, Heard, WaitForDeploymentToStabilize
             PROVE  TypeOK' /\ Going' /\ Heard'
  OBVIOUS
<1>1. events' = events \/ (events # <<>> /\ events' = Tail(events))
  BY DEF WaitForDeploymentToStabilize
<1>2. /\ events' \in Seq(DeploymentObject \cup {None})
      /\ Len(events') <= MaxEvents
  BY <1>1, WaitsAssumption DEF TypeOK
<1>3. result' \in {None, "ok", "failed", "timeout"}
  BY DEF WaitForDeploymentToStabilize
<1>4. last' \in {"ok"} \cup Errors /\ errors' \in 0 .. MaxErrors
  BY AnswersAreTyped DEF TypeOK, WaitForDeploymentToStabilize
<1>5. TypeOK'
  BY <1>2, <1>3, <1>4 DEF TypeOK, WaitForDeploymentToStabilize
<1>6. Going'
  BY DEF Going, WaitForDeploymentToStabilize
<1>7. Heard'
  <2> SUFFICES ASSUME helper' \in Watches, NEW i \in 1 .. Len(events'),
                      Goal(helper', events'[i])
               PROVE  held'
    BY DEF Heard
  <2>1. helper' = helper /\ held' = held
    BY DEF WaitForDeploymentToStabilize
  <2>2. CASE events' = events
    BY <2>1, <2>2 DEF Heard
  <2>3. CASE events # <<>> /\ events' = Tail(events)
    <3>1. i + 1 \in 1 .. Len(events) /\ events'[i] = events[i + 1]
      BY <2>3 DEF TypeOK
    <3> QED BY <2>1, <3>1 DEF Heard
  <2> QED BY <1>1, <2>2, <2>3
<1> QED BY <1>5, <1>6, <1>7

\* The invariant holds at every step of every wait.
LEMMA WaitsInvariant == Spec => [](TypeOK /\ Going /\ Heard)
<1>1. TypeOK /\ Going /\ Heard /\ [Next]_vars => TypeOK' /\ Going' /\ Heard'
  <2> SUFFICES ASSUME TypeOK, Going, Heard, [Next]_vars
               PROVE  TypeOK' /\ Going' /\ Heard'
    OBVIOUS
  <2>1. CASE UNCHANGED vars
    BY <2>1 DEF vars, TypeOK, Going, Heard
  <2> QED
    BY <2>1, ChangePreserves, ScheduledPreserves, PollPreserves, WatchPreserves
    DEF Next, Wait
<1> QED BY <1>1, InitEstablishes, PTL DEF Spec

----------------------------------------------------------------------------
(* What the helpers return *)

\* Every variable of a wait holds a value of its type at every step of any of
\* the helpers of wait.go; in particular a timer is never started twice, and no
\* poll follows the last.
THEOREM WaitsTypeCorrect == Spec => []TypeOK
BY WaitsInvariant, PTL

\* A closure fails only for an error that ends the wait, or an object that can
\* no longer become what the helper waits for unless it is created anew.
LEMMA FailureIsFinal ==
  ASSUME NEW h \in Helpers \ Watches, NEW w \in Objects(h),
         NEW reply \in {"ok"} \cup Errors, Verdict(h, reply, w) = "fail"
  PROVE  \/ reply \in Decisive(h)
         \/ ~Goal(h, w) /\ Changes(h, w) \subseteq {None}
         \/ h = "WaitForPodReady" /\ w = None
<1>1. CASE h = "WaitForPodReady"
  <2>1. podReady(reply, w) = "fail" /\ (w = None \/ w.phase \in Phases)
    BY <1>1, ObjectsOf DEF Verdict, OnePod, PodObject
  <2>2. CASE reply \in Errors
    BY <1>1, <2>2 DEF Decisive, Services
  <2>3. CASE reply \notin Errors /\ w # None
    <3>1. w.phase \in {"Succeeded", "Failed"}
      BY <2>1, <2>3 DEF podReady, Phases
    <3>2. ~Goal(h, w)
      BY <1>1, <3>1 DEF Goal, Ready
    <3>3. Changes(h, w) = {None}
      BY <1>1, <2>3, <3>1, ChangesOf DEF OnePod, PodChanges
    <3> QED BY <3>2, <3>3
  <2> QED BY <1>1, <2>2, <2>3
<1>2. CASE h = "WaitForPodComplete"
  <2>1. podComplete(reply, w) = "fail" /\ (w = None \/ w.phase \in Phases)
    BY <1>2, ObjectsOf DEF Verdict, OnePod, PodObject
  <2>2. w # None /\ w.phase = "Failed"
    BY <2>1 DEF podComplete, Phases
  <2>3. ~Goal(h, w)
    BY <1>2, <2>2 DEF Goal
  <2>4. Changes(h, w) = {None}
    BY <1>2, <2>2, ChangesOf DEF OnePod, PodChanges
  <2> QED BY <2>3, <2>4
<1>3. CASE h = "WaitForPodsWithLabelRunning"
  BY <1>3 DEF Verdict, podsRunning
<1>4. CASE h \in Services
  <2>1. reply \in Errors /\ ~IsRetryableAPIError(reply)
    BY <1>4 DEF Verdict, Services, service
  <2> QED
    BY <1>4, <2>1 DEF Decisive, Services, Errors, IsRetryableAPIError
<1>5. CASE h = "WaitForJobComplete"
  <2>1. jobComplete(reply, w) = "fail"
    BY <1>5 DEF Verdict
  <2>2. CASE reply \in Errors
    BY <1>5, <2>1, <2>2
    DEF jobComplete, Decisive, Errors, IsRetryableAPIError
  <2>3. CASE reply \notin Errors
    <3>1. w \notin {None, {}} /\ w # {"Complete"}
      BY <2>1, <2>3 DEF jobComplete
    <3>2. ~Goal(h, w)
      BY <1>5, <3>1 DEF Goal
    <3>3. Changes(h, w) = {None}
      BY <1>5, <3>1, ChangesOf DEF JobChanges
    <3> QED BY <3>2, <3>3
  <2> QED BY <2>2, <2>3
<1>6. CASE h = "WaitForServiceEndpointsNum"
  BY <1>6 DEF Verdict, endpointsNum, Decisive, Services
<1> QED
  BY WaitsAssumption, <1>1, <1>2, <1>3, <1>4, <1>5, <1>6
  DEF AllHelpers, OnePod

\* No helper gives up before its timer ends while what it waits for may still
\* come true by itself, unless an error that it does not wait out stops it,
\* whatever the order in which errors, changes and polls come.
THEOREM NoWaitIsGivenUpEarly == Spec => GivesUpOnlyInVain
<1>1. ASSUME TypeOK, [Next]_vars, result = None, result' = "failed"
      PROVE  last' \in Decisive(helper) \/ InVain
  <2>1. CASE UNCHANGED vars
    BY <1>1, <2>1, NoneAssumption DEF vars
  <2>2. CASE Change
    BY <1>1, <2>2, NoneAssumption DEF Change
  <2>3. CASE WaitForPodScheduled
    BY <1>1, <2>3, NoneAssumption DEF WaitForPodScheduled
  <2>4. CASE Poll
    <3>1. last' \in {"ok"} \cup Errors
      BY <1>1, <2>4, AnswersAreTyped DEF Poll
    <3> DEFINE v == Verdict(helper, last', world)
    <3>2. v \in {"done", "fail", "again"}
      BY <1>1, <2>4, ClosuresDecide DEF TypeOK, Poll
    <3>3. result' = CASE v = "done" -> "ok"
                      [] v = "fail" -> "failed"
                      [] v = "again" -> IF left = 1 THEN "timeout" ELSE None
      BY <2>4 DEF Poll
    <3>4. v = "fail"
      <4> HIDE DEF v
      <4> QED BY <1>1, <3>2, <3>3, NoneAssumption
    <3>5. \/ last' \in Decisive(helper)
          \/ ~Goal(helper, world) /\ Changes(helper, world) \subseteq {None}
          \/ helper = "WaitForPodReady" /\ world = None
      BY <1>1, <2>4, <3>1, <3>4, FailureIsFinal DEF TypeOK, Poll
    <3> QED BY <2>4, <3>5 DEF InVain, Poll
  <2>5. CASE WaitForDeploymentToStabilize
    <3>1. \/ events # <<>> /\ deploymentStable(Head(events)) = "fail"
          \/ last' \in Errors
      BY <1>1, <2>5, NoneAssumption DEF WaitForDeploymentToStabilize, Answer
    <3>2. CASE last' \in Errors
      BY <2>5, <3>2
      DEF WaitForDeploymentToStabilize, Watches, Decisive, Services
    <3>3. CASE events # <<>> /\ deploymentStable(Head(events)) = "fail"
      <4>1. Head(events) = None
        BY <3>3 DEF deploymentStable
      <4> QED BY <2>5, <3>3, <4>1 DEF InVain, WaitForDeploymentToStabilize
    <3> QED BY <3>1, <3>2, <3>3
  <2> QED BY <1>1, <2>1, <2>2, <2>3, <2>4, <2>5 DEF Next, Wait
<1> QED BY <1>1, WaitsTypeCorrect, PTL DEF Spec, GivesUpOnlyInVain

\* A helper returns success only when what it waits for is so, at the moment
\* it returns or, for the watch, at some time since the call: the caller may
\* take a wait for one step.
THEOREM SuccessMeansTheGoal == Spec => SuccessIsEarned
<1>1. ASSUME TypeOK, Heard, [Next]_vars, result = None, result' = "ok"
      PROVE  IF helper \in Watches THEN held ELSE Goal(helper, world)
  <2>1. CASE UNCHANGED vars
    BY <1>1, <2>1, NoneAssumption DEF vars
  <2>2. CASE Change
    BY <1>1, <2>2, NoneAssumption DEF Change
  <2>3. CASE WaitForPodScheduled
    BY <1>1, <2>3, NoneAssumption DEF WaitForPodScheduled
  <2>4. CASE Poll
    <3> DEFINE v == Verdict(helper, last', world)
    <3>1. v \in {"done", "fail", "again"}
      BY <1>1, <2>4, ClosuresDecide DEF TypeOK, Poll
    <3>2. result' = CASE v = "done" -> "ok"
                      [] v = "fail" -> "failed"
                      [] v = "again" -> IF left = 1 THEN "timeout" ELSE None
      BY <2>4 DEF Poll
    <3>3. v = "done"
      <4> HIDE DEF v
      <4> QED BY <1>1, <3>1, <3>2, NoneAssumption
    <3> QED BY <1>1, <2>4, <3>3, DoneIsEarned DEF TypeOK, Poll
  <2>5. CASE WaitForDeploymentToStabilize
    <3>1. events # <<>> /\ deploymentStable(Head(events)) = "done"
      BY <1>1, <2>5, NoneAssumption DEF WaitForDeploymentToStabilize
    <3>2. /\ Head(events) = events[1] /\ 1 \in 1 .. Len(events)
          /\ events[1] \in DeploymentObject \cup {None}
      BY <1>1, <3>1 DEF TypeOK
    <3>3. helper \in Watches
      BY <2>5 DEF WaitForDeploymentToStabilize
    <3>4. Goal(helper, events[1])
      BY <3>1, <3>2, <3>3, StableIsGoal
    <3> QED BY <1>1, <3>2, <3>3, <3>4 DEF Heard
  <2> QED BY <1>1, <2>1, <2>2, <2>3, <2>4, <2>5 DEF Next, Wait
<1> QED BY <1>1, WaitsInvariant, PTL DEF Spec, SuccessIsEarned
=============================================================================
