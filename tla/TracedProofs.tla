---------------------------- MODULE TracedProofs ----------------------------
(***************************************************************************)
(* No client is lost in dex: ClientsTraced of SSOOperator, for any number  *)
(* of operators, SSOs and client ids, under the conditions that Handle     *)
(* needs to account for the clients it creates; and what a fault can cost  *)
(* without most of them: OneClientPerFault.                                *)
(***************************************************************************)
EXTENDS SSOOperatorProofs, FiniteSetTheorems

\* The conditions: no process dies while it holds a client (by a crash, or
\* because an upstream has no ports), dex answers CreateClient and does not
\* refuse deleteClient, the status list does not fail, and no SSO is created
\* again under the name of a deleted one.
Accountable ==
  /\ ~MayCrash
  /\ \A s \in SSOs : \A u \in Upstream[s] : u.ports
  /\ "CreateClient" \notin LostReplies
  /\ "UndoClient" \notin FailingCalls
  /\ "IsSSOInitialized" \notin FailingCalls
  /\ MaxUid <= 1

\* An SSO that exists, or whose last status says initialised, was created.
CreatedInv ==
  \A s \in SSOs : sso[s].live \/ sso[s].initialized => sso[s].uid > 0

----------------------------------------------------------------------------
(* An SSO is created once *)

LEMMA InitCreated == Init => CreatedInv
BY DEF Init, CreatedInv, NoSSO

\* What a step does to the SSO resources.
LEMMA SSOSteps ==
  ASSUME TypeInv, [Next]_vars
  PROVE  \/ sso' = sso
         \/ \E o \in Operators : UpdateStatus(o)
         \/ \E s \in SSOs : CreateSSO(s) \/ EditSSO(s) \/ DeleteSSO(s)
<1>1. ASSUME NEW o \in Operators, Handle(o), ~UpdateStatus(o)
      PROVE  sso' = sso
  BY <1>1, DeployMoves, UpdateMoves, ExposeMoves, CleanupMoves, StartMoves
  DEF Handle, CreateClient, FindIngressHosts, UpdateClient, UndoClient,
      RetireClient, Delete
<1>2. ASSUME NEW s \in SSOs, CreateIngress(s) PROVE sso' = sso
  BY <1>2 DEF CreateIngress
<1> QED
  BY <1>1, <1>2, ControllersKeep DEF Next, vars, User, Return, Crash, Panic,
     Restart, Observe, Begin

\* A status update that the API server takes is of an SSO that exists and
\* names the client of the Handle call.
LEMMA StatusUpdate ==
  ASSUME TypeInv, NEW o \in Operators, UpdateStatus(o), sso' # sso
  PROVE  /\ key[o] \in SSOs /\ sso[key[o]].live
         /\ sso[key[o]].rv = obj[o].rv
         /\ sso'[key[o]].live = TRUE /\ sso'[key[o]].initialized = TRUE
         /\ sso'[key[o]].uid = sso[key[o]].uid
         /\ sso'[key[o]].clientID = client[o]
         /\ \A s \in SSOs \ {key[o]} : sso'[s] = sso[s]
<1>1. key[o] \in SSOs /\ sso \in [SSOs -> SSOObject]
  BY Known DEF UpdateStatus, TypeOK
<1> QED
  BY <1>1 DEF UpdateStatus, StatusConflict

\* What the user's writes keep of a status.
LEMMA UserKeeps ==
  ASSUME TypeInv, NEW s \in SSOs, EditSSO(s) \/ DeleteSSO(s)
  PROVE  /\ sso[s].live /\ sso'[s].uid = sso[s].uid
         /\ sso'[s].initialized = sso[s].initialized
         /\ sso'[s].clientID = sso[s].clientID
         /\ \A t \in SSOs \ {s} : sso'[t] = sso[t]
<1>1. sso \in [SSOs -> SSOObject] /\ sso[s] \in SSOObject
  BY DEF TypeInv, TypeOK
<1> QED
  BY <1>1 DEF EditSSO, DeleteSSO, SSOObject

LEMMA UserCreates ==
  ASSUME TypeInv, NEW s \in SSOs, CreateSSO(s)
  PROVE  /\ ~sso[s].live /\ sso[s].uid < MaxUid
         /\ sso'[s].live = TRUE /\ sso'[s].initialized = FALSE
         /\ sso'[s].uid = sso[s].uid + 1
         /\ \A t \in SSOs \ {s} : sso'[t] = sso[t]
BY DEF CreateSSO, TypeInv, TypeOK

LEMMA CreatedStep ==
  ASSUME TypeInv, CreatedInv, [Next]_vars
  PROVE  CreatedInv'
<1>1. \A s \in SSOs : sso[s].uid \in Nat
  BY DEF TypeInv, TypeOK, SSOObject
<1>2. CASE sso' = sso
  BY <1>2 DEF CreatedInv
<1>3. ASSUME NEW o \in Operators, UpdateStatus(o), sso' # sso
      PROVE  CreatedInv'
  BY <1>3, StatusUpdate DEF CreatedInv
<1>4. ASSUME NEW s \in SSOs, CreateSSO(s) PROVE CreatedInv'
  <2>1. /\ sso'[s].uid = sso[s].uid + 1
        /\ \A t \in SSOs \ {s} : sso'[t] = sso[t]
    BY <1>4, UserCreates
  <2>2. sso'[s].uid > 0
    BY <1>1, <2>1
  <2> QED
    BY <2>1, <2>2 DEF CreatedInv
<1>5. ASSUME NEW s \in SSOs, EditSSO(s) \/ DeleteSSO(s) PROVE CreatedInv'
  BY <1>5, UserKeeps DEF CreatedInv
<1> QED
  BY <1>2, <1>3, <1>4, <1>5, SSOSteps

----------------------------------------------------------------------------
(* A status that names a client keeps naming it *)

LEMMA NamingKept ==
  ASSUME Accountable, TypeInv, VersionInv, CreatedInv, [Next]_vars,
         NEW s \in SSOs, NEW c, Names(s, c)
  PROVE  Names(s, c)'
<1>1. CASE sso' = sso
  BY <1>1 DEF Names
<1>2. ASSUME NEW o \in Operators, UpdateStatus(o), sso' # sso
      PROVE  Names(s, c)'
  <2>1. pc[o] \in Deciding /\ Kind(o) = "expose"
    BY <1>2 DEF UpdateStatus, TypeInv, PathOK, InitOnly, Deciding, InFlight
  <2>2. ~sso[key[o]].initialized
    BY <1>2, <2>1, StatusUpdate DEF VersionInv
  <2> QED
    BY <1>2, <2>2, StatusUpdate DEF Names
<1>3. ASSUME NEW t \in SSOs, CreateSSO(t) PROVE Names(s, c)'
  <2>1. sso[t].uid = 0
    <3>1. sso[t].uid \in Nat /\ MaxUid \in Nat /\ MaxUid <= 1
      BY ConstantsAssumption DEF TypeInv, TypeOK, SSOObject, Accountable
    <3>2. sso[t].uid < MaxUid
      BY <1>3, UserCreates
    <3> QED
      BY <3>1, <3>2
  <2>2. s # t
    BY <2>1 DEF CreatedInv, Names
  <2> QED
    BY <1>3, <2>2, UserCreates DEF Names
<1>4. ASSUME NEW t \in SSOs, EditSSO(t) \/ DeleteSSO(t) PROVE Names(s, c)'
  BY <1>4, UserKeeps DEF Names
<1> QED
  BY <1>1, <1>2, <1>3, <1>4, SSOSteps

----------------------------------------------------------------------------
(* A Handle call answers for its client until it has published or deleted it *)

\* Where a Handle call goes from the steps at which it answers for a client.
LEMMA HoldingMoves ==
  ASSUME TypeInv, NEW o \in Operators, Handle(o),
         HoldsClient(o) \/ pc[o] = "UndoClient"
  PROVE  /\ client' = client /\ Kind(o)' = Kind(o)
         /\ \/ pc'[o] \in InFlight \cup {"UndoClient"} /\ Kind(o) = "expose"
            \/ UpdateStatus(o) /\ sso' # sso
            \/ UndoClient(o)
<1>1. pc \in [Operators -> Labels] /\ pc[o] # "CreateClient"
  BY DEF TypeInv, TypeOK, HoldsClient, InFlight
<1>2. Kind(o) = "expose" /\ ~CreateClient(o)
  BY <1>1 DEF CreateClient, TypeInv, PathOK, HoldsClient, InitOnly
<1>3. client' = client /\ obj' = obj
  BY <1>2, HandleMoves DEF Move
<1>4. Kind(o)' = Kind(o)
  BY <1>3 DEF Kind
<1>5. ASSUME NEW l \in InFlight \cup {"UndoClient"}, Goto(o, l)
      PROVE  pc'[o] \in InFlight \cup {"UndoClient"}
  BY <1>1, <1>5 DEF Goto
<1>6. CASE Deploy(o) \/ Update(o)
  <2>1. \E l \in InFlight \cup {"UndoClient"} : Goto(o, l)
    BY <1>6 DEF Deploy, Update, CreateSecret, CreateDeployment,
       CreateService, WaitForService, WaitForPodsWithLabelRunning,
       UpdateSecret, UpdateDeployment, AfterDeploy, Answered, Reply,
       Refused, InFlight
  <2> QED
    BY <1>2, <1>3, <1>4, <1>5, <2>1
<1>7. CASE ExposeSSO(o) \/ FindIngressHosts(o) \/ UpdateClient(o)
  <2>1. \E l \in InFlight \cup {"UndoClient"} : Goto(o, l)
    BY <1>7 DEF ExposeSSO, CreateConfigMap, RunsJob, CreateJob,
       DeleteStaleJob, WaitForJobComplete, DeleteJob, DeleteConfigMap,
       FindIngressHosts, UpdateClient, OnError, Answered, Reply, Refused,
       InFlight
  <2> QED
    BY <1>2, <1>3, <1>4, <1>5, <2>1
<1>8. CASE UpdateStatus(o)
  <2>1. \/ sso' # sso
        \/ pc'[o] \in {"ok", "UndoClient"} /\ ~StatusConflict(o)
        \/ pc'[o] = "UndoClient"
    BY <1>1, <1>8 DEF UpdateStatus, Answered, Reply, Refused, Goto
  <2>2. ~StatusConflict(o) /\ pc'[o] # "UndoClient" => sso' # sso
    <3>1. key[o] \in SSOs /\ sso \in [SSOs -> SSOObject]
      BY <1>8, Known DEF UpdateStatus, TypeOK
    <3>2. sso[key[o]].rv \in Nat
      BY <3>1 DEF SSOObject
    <3>3. ~StatusConflict(o) /\ pc'[o] # "UndoClient" =>
            sso'[key[o]].rv = sso[key[o]].rv + 1
      BY <1>1, <1>8, <3>1 DEF UpdateStatus, Refused, Goto
    <3> QED
      BY <3>2, <3>3
  <2> QED
    BY <1>2, <1>3, <1>4, <1>8, <2>1, <2>2
<1>9. ~EnsureClusterRoleBinding(o) /\ ~CleanupSSO(o) /\ ~RetireClient(o)
      /\ ~IsSSOInitialized(o)
  <2>1. ~CleanupSSO(o)
    BY <1>2 DEF CleanupSSO, CleanupConfigMap, RunsJob, CreateJob,
       DeleteStaleJob, WaitForJobComplete, DeleteJob, DeleteConfigMap
  <2> QED
    BY <2>1 DEF EnsureClusterRoleBinding, RetireClient, Delete,
       IsSSOInitialized, HoldsClient, InFlight
<1> QED
  BY <1>2, <1>3, <1>4, <1>6, <1>7, <1>8, <1>9 DEF Handle

\* Other calls keep what they answer for.
LEMMA AnswersElsewhere ==
  ASSUME TypeInv, NEW o \in Operators,
         \/ Handle(o) \/ Return(o)
         \/ \E s \in SSOs : Begin(o, s),
         NEW p \in Operators, p # o, NEW c, Answers(p, c)
  PROVE  Answers(p, c)'
<1>1. /\ pc \in [Operators -> Labels] /\ client \in [Operators -> MaybeId]
      /\ obj \in [Operators -> SSOObject]
  BY DEF TypeInv, TypeOK
<1>2. pc'[p] = pc[p] /\ client'[p] = client[p] /\ obj'[p] = obj[p]
  <2>1. CASE Handle(o)
    BY <1>1, <2>1, HandleMoves DEF Move, CreateClient, Reply, Refused, Goto,
       eventVars
  <2>2. CASE Return(o) \/ \E s \in SSOs : Begin(o, s)
    BY <1>1, <2>2 DEF Return, Begin, Goto, localVars
  <2> QED
    BY <2>1, <2>2
<1> QED
  BY <1>2 DEF Answers, HoldsClient, Kind

\* The call itself: an unpublished client that is still registered after the
\* step is one for which it still answers.
LEMMA AnswersHere ==
  ASSUME Accountable, TypeInv, NEW o \in Operators, Handle(o),
         NEW c \in ClientIds, Answers(o, c), Registered(c)'
  PROVE  Traced(c)'
<1>1. pc \in [Operators -> Labels] /\ dex \in [ClientIds -> Redirects \cup {None}]
  BY DEF TypeInv, TypeOK
<1>2. client' = client /\ Kind(o)' = Kind(o) /\ client[o] = c
  BY HoldingMoves DEF Answers
<1>3. CASE pc'[o] \in InFlight \cup {"UndoClient"} /\ Kind(o) = "expose"
  BY <1>2, <1>3 DEF Traced, Answers, HoldsClient
<1>4. CASE UpdateStatus(o) /\ sso' # sso
  <2>1. \E s \in SSOs : Names(s, c)'
    BY <1>2, <1>4, StatusUpdate DEF Names
  <2> QED
    BY <2>1 DEF Traced
<1>5. CASE UndoClient(o)
  <2>1. ~Registered(c)'
    BY <1>1, <1>2, <1>5
    DEF UndoClient, Delete, Refused, Registered, Accountable
  <2> QED
    BY <2>1
<1> QED
  BY <1>3, <1>4, <1>5, HoldingMoves DEF Answers

\* Only CreateClient registers a client, and it then answers for it.
LEMMA RegisteredBefore ==
  ASSUME Accountable, TypeInv, [Next]_vars, NEW c \in ClientIds, Registered(c)'
  PROVE  Registered(c) \/ Traced(c)'
<1>1. /\ pc \in [Operators -> Labels] /\ client \in [Operators -> MaybeId]
      /\ dex \in [ClientIds -> Redirects \cup {None}]
  BY DEF TypeInv, TypeOK
<1>2. CASE dex' = dex
  BY <1>2 DEF Registered
<1>3. ASSUME NEW o \in Operators, CreateClient(o)
      PROVE  Registered(c) \/ Traced(c)'
  <2>1. CASE dex'[c] = dex[c]
    BY <2>1 DEF Registered
  <2>2. CASE dex'[c] # dex[c]
    <3>1. client'[o] = c /\ pc'[o] = "CreateSecret"
      BY <1>1, <1>3, <2>2
      DEF CreateClient, NewId, Unused, Reply, Goto, Accountable
    <3>2. Kind(o)' = "expose"
      BY <1>3 DEF CreateClient, TypeInv, PathOK, InitOnly, Kind, eventVars
    <3> QED
      BY <3>1, <3>2 DEF Traced, Answers, HoldsClient, InFlight
  <2> QED
    BY <2>1, <2>2
<1>4. ASSUME NEW o \in Operators,
             UpdateClient(o) \/ UndoClient(o) \/ RetireClient(o)
      PROVE  Registered(c)
  BY <1>1, <1>4 DEF UpdateClient, UndoClient, RetireClient, Delete, Registered
<1>5. \/ dex' = dex
      \/ \E o \in Operators : \/ CreateClient(o) \/ UpdateClient(o)
                              \/ UndoClient(o) \/ RetireClient(o)
  BY DeployMoves, UpdateMoves, ExposeMoves, CleanupMoves, StartMoves,
     OtherSteps DEF Next, Handle, FindIngressHosts, UpdateStatus, vars,
     Return, Crash, Panic, Restart, Begin
<1> QED
  BY <1>2, <1>3, <1>4, <1>5

LEMMA NobodyDies ==
  ASSUME Accountable, TypeInv, NEW o \in Operators PROVE ~Crash(o) /\ ~Panic(o)
<1>1. pc[o] \in {"CreateSecret", "UpdateSecret"} => key[o] \in SSOs
  BY DEF TypeInv, PathOK
<1> QED
  BY <1>1 DEF Crash, Panic, Accountable

LEMMA TracedStep ==
  ASSUME Accountable, TypeInv, VersionInv, CreatedInv, ClientsTraced,
         [Next]_vars
  PROVE  ClientsTraced'
<1> SUFFICES ASSUME NEW c \in ClientIds, Registered(c)', Registered(c)
             PROVE  Traced(c)'
  BY RegisteredBefore DEF ClientsTraced
<1>1. Traced(c)
  BY DEF ClientsTraced
<1>2. CASE \E s \in SSOs : Names(s, c)
  BY <1>2, NamingKept DEF Traced
<1>3. ASSUME NEW p \in Operators, Answers(p, c) PROVE Traced(c)'
  <2>1. CASE UNCHANGED handlerVars
    BY <1>3, <2>1 DEF Traced, Answers, HoldsClient, Kind, handlerVars
  <2>2. ASSUME Return(p) \/ \E s \in SSOs : Begin(p, s) PROVE FALSE
    BY <1>3, <2>2 DEF Return, Begin, Answers, HoldsClient, InFlight
  <2>3. ASSUME NEW o \in Operators, o # p,
               \/ Handle(o) \/ Return(o)
               \/ \E s \in SSOs : Begin(o, s)
        PROVE  Traced(c)'
    BY <1>3, <2>3, AnswersElsewhere DEF Traced
  <2>4. CASE Handle(p)
    BY <1>3, <2>4, AnswersHere
  <2> QED
    BY <2>1, <2>2, <2>3, <2>4, OtherSteps, NobodyDies DEF Next, vars
<1> QED
  BY <1>1, <1>2, <1>3 DEF Traced

\* Every client that dex knows can be traced: the status of an SSO, the last
\* one if it is deleted, names it, or a Handle call is on its way to publish or
\* delete it.  It holds for any number of operators that overlap, whatever
\* other calls are refused and whatever other replies are lost.
THEOREM EveryClientIsTraced ==
  ASSUME Accountable
  PROVE  Spec => []ClientsTraced
<1> DEFINE Inv == TypeInv /\ VersionInv /\ CreatedInv /\ ClientsTraced
<1>1. Init => Inv
  <2>1. Init => ClientsTraced
    BY DEF Init, ClientsTraced, Registered
  <2> QED
    BY <2>1, InitType, InitVersion, InitCreated
<1>2. Inv /\ [Next]_vars => Inv'
  <2> SUFFICES ASSUME Inv, [Next]_vars PROVE Inv'
    OBVIOUS
  <2>1. TypeInv' /\ VersionInv'
    BY TypeStep, VersionStep DEF Accountable
  <2> QED
    BY <2>1, CreatedStep, TracedStep
<1> QED
  BY <1>1, <1>2, PTL DEF Spec

----------------------------------------------------------------------------
(* What a fault can cost *)

\* The conditions: nothing but a counted fault ends a process, and no SSO is
\* created again under the name of a deleted one.
Countable == MaxUid <= 1 /\ \A s \in SSOs : \A u \in Upstream[s] : u.ports

\* The first two parts of VersionInv, which hold of a failing status list too:
\* no copy of an SSO is ahead of the API server.
BehindInv ==
  /\ \A o \in Operators, s \in SSOs : cache[o][s].rv <= sso[s].rv
  /\ \A o \in Operators : pc[o] # "idle" => obj[o].rv <= sso[key[o]].rv

\* A Handle call is past the status list and has a copy of the present version,
\* so that the API server would take its status update.
Overwrites(o, s) ==
  /\ pc[o] \in Deciding /\ Kind(o) = "expose" /\ key[o] = s
  /\ sso[s].live /\ obj[o].rv = sso[s].rv
Contested(s) == \E o \in Operators : Overwrites(o, s)

\* A client that a contested status names is as good as untraced: the fault
\* has happened, the step that loses the name needs none.
Secured(c) ==
  \/ \E s \in SSOs : Names(s, c) /\ ~Contested(s)
  \/ \E o \in Operators : Answers(o, c)
Endangered == {c \in ClientIds : Registered(c) /\ ~Secured(c)}
CostInv    == IsFiniteSet(Endangered) /\ Cardinality(Endangered) <= faults

LEMMA UntracedIsEndangered == Untraced \subseteq Endangered
BY DEF Untraced, Endangered, Traced, Secured

\* Where copies of an SSO come from.
LEMMA CopyOrigins ==
  ASSUME TypeInv, [Next]_vars
  PROVE  /\ \A p \in Operators, s \in SSOs :
              \/ cache'[p][s] = cache[p][s]
              \/ cache'[p][s] = NoSSO
              \/ sso' = sso /\ cache'[p][s] = sso[s]
         /\ \A p \in Operators : pc'[p] # "idle" =>
              \/ pc[p] # "idle" /\ key'[p] = key[p] /\ obj'[p] = obj[p]
              \/ /\ key'[p] \in SSOs /\ sso' = sso
                 /\ obj'[p] = cache[p][key'[p]]
                 /\ pc'[p] = "EnsureClusterRoleBinding"
<1> DEFINE Copies ==
             /\ \A p \in Operators, s \in SSOs :
                  \/ cache'[p][s] = cache[p][s]
                  \/ cache'[p][s] = NoSSO
                  \/ sso' = sso /\ cache'[p][s] = sso[s]
             /\ \A p \in Operators : pc'[p] # "idle" =>
                  \/ pc[p] # "idle" /\ key'[p] = key[p] /\ obj'[p] = obj[p]
                  \/ /\ key'[p] \in SSOs /\ sso' = sso
                     /\ obj'[p] = cache[p][key'[p]]
                     /\ pc'[p] = "EnsureClusterRoleBinding"
<1>1. /\ cache \in [Operators -> [SSOs -> SSOObject]]
      /\ pc \in [Operators -> Labels] /\ obj \in [Operators -> SSOObject]
      /\ key \in [Operators -> SSOs \cup {None}]
  BY DEF TypeInv, TypeOK
<1>2. CASE UNCHANGED <<cache, key, obj, pc>>
  BY <1>2
<1>3. ASSUME NEW s \in SSOs, User(s) \/ Controllers(s) PROVE Copies
  <2>1. UNCHANGED <<handlerVars, cache>>
    BY <1>3, OtherSteps, ControllersKeep DEF User, CreateSSO, EditSSO,
       DeleteSSO, CreateIngress, sdkVars
  <2> QED
    BY <1>2, <2>1 DEF handlerVars
<1>4. ASSUME NEW o \in Operators, Handle(o) PROVE Copies
  <2>1. pc[o] # "idle" /\ UNCHANGED <<cache, key, obj>>
        /\ \A p \in Operators \ {o} : pc'[p] = pc[p]
    BY <1>1, <1>4, HandleMoves DEF Move, CreateClient, Goto, Reply, Refused,
       sdkVars, eventVars
  <2> QED
    BY <2>1
<1>5. ASSUME NEW o \in Operators, Return(o) \/ Restart(o) PROVE Copies
  <2>1. /\ pc' = [pc EXCEPT ![o] = "idle"]
        /\ key' = [key EXCEPT ![o] = None]
        /\ obj' = [obj EXCEPT ![o] = NoSSO]
        /\ \/ cache' = cache
           \/ cache' = [cache EXCEPT ![o] = [s \in SSOs |-> NoSSO]]
    BY <1>5 DEF Return, Restart, Goto
  <2> QED
    BY <1>1, <2>1
<1>6. ASSUME NEW o \in Operators, NEW s \in SSOs, Observe(o, s) PROVE Copies
  BY <1>1, <1>6 DEF Observe, handlerVars
<1>7. ASSUME NEW o \in Operators, NEW s \in SSOs, Begin(o, s) PROVE Copies
  BY <1>1, <1>7 DEF Begin, Goto, sdkVars
<1>8. UNCHANGED vars => UNCHANGED <<cache, key, obj, pc>>
  BY DEF vars, sdkVars, handlerVars
<1> QED
  BY <1>2, <1>3, <1>4, <1>5, <1>6, <1>7, <1>8 DEF Next, Crash, Panic

LEMMA InitBehind == Init => BehindInv
BY DEF Init, BehindInv, NoSSO

LEMMA WrittenStep == ASSUME TypeInv, [Next]_vars PROVE Written
BY SSOSteps, UpdateStatusWrites, UserWrites DEF Written, User

LEMMA BehindStep ==
  ASSUME TypeInv, BehindInv, [Next]_vars
  PROVE  BehindInv'
<1>1. /\ \A s \in SSOs : sso[s].rv \in Nat
      /\ \A p \in Operators : obj[p].rv \in Nat
      /\ \A p \in Operators, s \in SSOs : cache[p][s].rv \in Nat
  BY DEF TypeInv, TypeOK, SSOObject
<1>2. \A s \in SSOs : sso'[s].rv \in Nat /\ sso[s].rv <= sso'[s].rv
  BY <1>1, WrittenStep DEF Written
<1>3. ASSUME NEW p \in Operators, NEW s \in SSOs
      PROVE  cache'[p][s].rv <= sso'[s].rv
  <2>1. cache[p][s].rv <= sso[s].rv
    BY DEF BehindInv
  <2>2. NoSSO.rv = 0
    BY DEF NoSSO
  <2>3. CASE cache'[p][s] = cache[p][s]
    BY <1>1, <1>2, <2>1, <2>3
  <2>4. CASE cache'[p][s] = NoSSO
    BY <1>2, <2>2, <2>4
  <2>5. CASE sso' = sso /\ cache'[p][s] = sso[s]
    BY <1>1, <2>5
  <2> QED
    BY <2>3, <2>4, <2>5, CopyOrigins
<1>4. ASSUME NEW p \in Operators, pc'[p] # "idle"
      PROVE  obj'[p].rv <= sso'[key'[p]].rv
  <2>1. CASE pc[p] # "idle" /\ key'[p] = key[p] /\ obj'[p] = obj[p]
    <3>1. key[p] \in SSOs /\ obj[p].rv <= sso[key[p]].rv
      BY <2>1 DEF TypeInv, PathOK, BehindInv
    <3> QED
      BY <1>1, <1>2, <2>1, <3>1
  <2>2. CASE /\ key'[p] \in SSOs /\ sso' = sso
             /\ obj'[p] = cache[p][key'[p]]
    BY <2>2 DEF BehindInv
  <2> QED
    BY <1>4, <2>1, <2>2, CopyOrigins
<1> QED
  BY <1>3, <1>4 DEF BehindInv

\* A Handle call gets past the status list by looking at it.
LEMMA DecidingMoves ==
  ASSUME TypeInv, NEW o \in Operators, Handle(o),
         pc'[o] \in Deciding, Kind(o) = "expose"
  PROVE  pc[o] \in Deciding \/ IsSSOInitialized(o)
<1>1. pc \in [Operators -> Labels]
  BY DEF TypeInv, TypeOK
<1>2. ~EnsureClusterRoleBinding(o)
  BY <1>1 DEF EnsureClusterRoleBinding, Reply, Refused, Goto, Deciding,
     InFlight
<1>3. ~CleanupSSO(o)
  BY DEF CleanupSSO, CleanupConfigMap, RunsJob, CreateJob, DeleteStaleJob,
     WaitForJobComplete, DeleteJob, DeleteConfigMap
<1>4. ~RetireClient(o) /\ ~UndoClient(o)
  BY <1>1 DEF RetireClient, UndoClient, Delete, Answered, Reply, Refused,
     Goto, Deciding, InFlight
<1>5. CASE CreateClient(o) \/ FindIngressHosts(o) \/ UpdateClient(o)
           \/ UpdateStatus(o)
  BY <1>5 DEF CreateClient, FindIngressHosts, UpdateClient, UpdateStatus,
     Deciding, InFlight
<1>6. CASE Deploy(o) \/ Update(o)
  BY <1>6 DEF Deploy, Update, CreateSecret, CreateDeployment, CreateService,
     WaitForService, WaitForPodsWithLabelRunning, UpdateSecret,
     UpdateDeployment, Deciding, InFlight
<1>7. CASE ExposeSSO(o)
  BY <1>7 DEF ExposeSSO, CreateConfigMap, RunsJob, CreateJob,
     DeleteStaleJob, WaitForJobComplete, DeleteJob, DeleteConfigMap,
     Deciding, InFlight
<1> QED
  BY <1>2, <1>3, <1>4, <1>5, <1>6, <1>7 DEF Handle

\* Which operator a step belongs to.
LEMMA ActorSteps ==
  ASSUME TypeInv, [Next]_vars
  PROVE  \/ UNCHANGED handlerVars
         \/ \E o \in Operators :
              /\ \A p \in Operators \ {o} : pc'[p] = pc[p]
              /\ \/ Handle(o) \/ Return(o) \/ Crash(o) \/ Panic(o)
                 \/ \E s \in SSOs : Begin(o, s)
<1>1. pc \in [Operators -> Labels]
  BY DEF TypeInv, TypeOK
<1>2. ASSUME NEW o \in Operators, Handle(o)
      PROVE  \A p \in Operators \ {o} : pc'[p] = pc[p]
  BY <1>1, <1>2, HandleMoves DEF Move, CreateClient, Goto, Reply, Refused
<1>3. ASSUME NEW o \in Operators,
             \/ Return(o) \/ Crash(o) \/ Panic(o)
             \/ \E s \in SSOs : Begin(o, s)
      PROVE  \A p \in Operators \ {o} : pc'[p] = pc[p]
  BY <1>1, <1>3 DEF Return, Crash, Panic, Restart, Begin, Goto
<1> QED
  BY <1>2, <1>3, OtherSteps DEF Next, vars

\* No step makes a Handle call a rival for a status, but the status list.
LEMMA OverwritesBefore ==
  ASSUME TypeInv, BehindInv, [Next]_vars,
         NEW p \in Operators, NEW s \in SSOs, Overwrites(p, s)'
  PROVE  /\ sso'[s] = sso[s]
         /\ \/ Overwrites(p, s)
            \/ IsSSOInitialized(p) /\ key[p] = s
<1>1. /\ pc'[p] \in Deciding /\ Kind(p)' = "expose" /\ key'[p] = s
      /\ sso'[s].live /\ obj'[p].rv = sso'[s].rv
  BY DEF Overwrites
<1>2. pc'[p] # "idle" /\ pc'[p] # "EnsureClusterRoleBinding"
  BY <1>1 DEF Deciding, InFlight
<1>3. pc[p] # "idle" /\ key'[p] = key[p] /\ obj'[p] = obj[p]
  BY <1>2, CopyOrigins
<1>4. Kind(p)' = Kind(p)
  BY <1>3 DEF Kind
<1>5. sso'[s] = sso[s]
  <2>1. obj[p].rv <= sso[s].rv
    BY <1>1, <1>3 DEF BehindInv
  <2>2. sso[s].rv \in Nat /\ obj[p].rv \in Nat
    BY DEF TypeInv, TypeOK, SSOObject
  <2>3. sso'[s].rv # sso[s].rv + 1
    BY <1>1, <1>3, <2>1, <2>2
  <2> QED
    BY <2>3, WrittenStep DEF Written
<1>6. pc[p] \in Deciding \/ IsSSOInitialized(p)
  <2>1. CASE pc'[p] = pc[p]
    BY <1>1, <2>1
  <2>2. CASE Handle(p)
    BY <1>1, <1>4, <2>2, DecidingMoves
  <2>3. ASSUME pc'[p] # pc[p], ~Handle(p) PROVE FALSE
    <3>1. \/ Return(p) \/ Crash(p) \/ Panic(p)
          \/ \E t \in SSOs : Begin(p, t)
      BY <2>3, ActorSteps DEF handlerVars
    <3>2. pc \in [Operators -> Labels]
      BY DEF TypeInv, TypeOK
    <3> QED
      BY <1>2, <3>1, <3>2 DEF Return, Crash, Panic, Restart, Begin, Goto
  <2> QED
    BY <2>1, <2>2, <2>3
<1>7. sso[s].live /\ obj[p].rv = sso[s].rv
  BY <1>1, <1>3, <1>5
<1>8. key[p] = s /\ Kind(p) = "expose"
  BY <1>1, <1>3, <1>4
<1> QED
  BY <1>5, <1>6, <1>7, <1>8 DEF Overwrites

\* An uncontested status goes on naming its client, and becomes contested only
\* by a fault of the status list.
LEMMA UncontestedKept ==
  ASSUME Countable, TypeInv, BehindInv, CreatedInv, [Next]_vars,
         NEW s \in SSOs, NEW c, Names(s, c), ~Contested(s)
  PROVE  \/ Names(s, c)' /\ ~Contested(s)'
         \/ \E o \in Operators :
              /\ IsSSOInitialized(o) /\ key[o] = s /\ pc'[o] # pc[o]
              /\ faults' = faults + 1
<1>1. Names(s, c)'
  <2>1. CASE sso' = sso
    BY <2>1 DEF Names
  <2>2. ASSUME NEW o \in Operators, UpdateStatus(o), sso' # sso
        PROVE  Names(s, c)'
    <3>1. pc[o] \in Deciding /\ Kind(o) = "expose"
      BY <2>2 DEF UpdateStatus, TypeInv, PathOK, InitOnly, Deciding, InFlight
    <3>2. key[o] # s
      <4>1. sso[key[o]].live /\ obj[o].rv = sso[key[o]].rv
        BY <2>2, StatusUpdate
      <4>2. Overwrites(o, key[o])
        BY <3>1, <4>1 DEF Overwrites
      <4> QED
        BY <4>2 DEF Contested
    <3>3. sso'[s] = sso[s]
      BY <2>2, <3>2, StatusUpdate
    <3> QED
      BY <3>3 DEF Names
  <2>3. ASSUME NEW t \in SSOs, CreateSSO(t) PROVE Names(s, c)'
    <3>1. sso[t].uid \in Nat /\ MaxUid \in Nat /\ MaxUid <= 1
      BY ConstantsAssumption DEF TypeInv, TypeOK, SSOObject, Countable
    <3>2. sso[t].uid < MaxUid
      BY <2>3, UserCreates
    <3>3. sso[t].uid = 0
      BY <3>1, <3>2
    <3>4. s # t
      BY <3>3 DEF CreatedInv, Names
    <3> QED
      BY <2>3, <3>4, UserCreates DEF Names
  <2>4. ASSUME NEW t \in SSOs, EditSSO(t) \/ DeleteSSO(t) PROVE Names(s, c)'
    BY <2>4, UserKeeps DEF Names
  <2> QED
    BY <2>1, <2>2, <2>3, <2>4, SSOSteps
<1>2. ASSUME Contested(s)'
      PROVE  \E o \in Operators :
               /\ IsSSOInitialized(o) /\ key[o] = s /\ pc'[o] # pc[o]
               /\ faults' = faults + 1
  <2>1. PICK p \in Operators : Overwrites(p, s)'
    BY <1>2 DEF Contested
  <2>2. sso'[s] = sso[s] /\ IsSSOInitialized(p) /\ key[p] = s
    BY <2>1, OverwritesBefore DEF Contested
  <2>3. sso[s].live /\ sso[s].initialized /\ pc'[p] \in Deciding
    BY <2>1, <2>2 DEF Overwrites, Names
  <2>4. pc[p] = "IsSSOInitialized" /\ pc \in [Operators -> Labels]
    BY <2>2 DEF IsSSOInitialized, TypeInv, TypeOK
  <2>5. pc'[p] # pc[p] /\ pc'[p] # "ok"
    BY <2>3, <2>4 DEF Deciding, InFlight
  <2>6. faults' = faults + 1
    BY <2>2, <2>3, <2>4, <2>5
    DEF IsSSOInitialized, Reply, Refused, Fault, Goto
  <2> QED
    BY <2>2, <2>5, <2>6
<1> QED
  BY <1>1, <1>2

\* A Handle call answers for its client until it publishes or deletes it, or a
\* fault ends it.
LEMMA AnsweringKept ==
  ASSUME Countable, TypeInv, BehindInv, [Next]_vars,
         NEW o \in Operators, NEW c \in ClientIds, Answers(o, c),
         Registered(c)'
  PROVE  \/ Secured(c)'
         \/ /\ pc[o] \notin {"IsSSOInitialized", "CreateClient"}
            /\ client[o] = c /\ pc'[o] # pc[o] /\ faults' = faults + 1
<1>1. /\ pc \in [Operators -> Labels]
      /\ dex \in [ClientIds -> Redirects \cup {None}]
  BY DEF TypeInv, TypeOK
<1>2. client[o] = c /\ pc[o] \in InFlight \cup {"UndoClient"}
  BY DEF Answers, HoldsClient
<1>3. pc[o] \notin {"IsSSOInitialized", "CreateClient", "idle", "ok", "err"}
  BY <1>2 DEF InFlight
<1>4. CASE UNCHANGED handlerVars
  BY <1>4 DEF Secured, Answers, HoldsClient, Kind, handlerVars
<1>5. ASSUME NEW p \in Operators, p # o,
             \/ Handle(p) \/ Return(p)
             \/ \E s \in SSOs : Begin(p, s)
      PROVE  Secured(c)'
  BY <1>5, AnswersElsewhere DEF Secured
<1>6. ASSUME NEW p \in Operators, p # o, Crash(p) PROVE Secured(c)'
  <2>1. /\ client \in [Operators -> MaybeId]
        /\ obj \in [Operators -> SSOObject]
    BY DEF TypeInv, TypeOK
  <2>2. pc'[o] = pc[o] /\ client'[o] = client[o] /\ obj'[o] = obj[o]
    BY <1>1, <1>6, <2>1 DEF Crash, Restart, Goto
  <2> QED
    BY <2>2 DEF Secured, Answers, HoldsClient, Kind
<1>7. \A p \in Operators : ~Panic(p)
  <2>1. \A p \in Operators :
          pc[p] \in {"CreateSecret", "UpdateSecret"} => key[p] \in SSOs
    BY DEF TypeInv, PathOK
  <2> QED
    BY <2>1 DEF Panic, Countable
<1>8. ~Return(o) /\ \A s \in SSOs : ~Begin(o, s)
  BY <1>3 DEF Return, Begin
<1>9. CASE Crash(o)
  BY <1>1, <1>2, <1>3, <1>9 DEF Crash, Restart, Goto, Fault
<1>10. CASE Handle(o)
  <2>1. HoldsClient(o) \/ pc[o] = "UndoClient"
    BY DEF Answers
  <2>2. client' = client /\ Kind(o)' = Kind(o)
    BY <1>10, <2>1, HoldingMoves
  <2>3. CASE pc'[o] \in InFlight \cup {"UndoClient"} /\ Kind(o) = "expose"
    BY <1>2, <2>2, <2>3 DEF Secured, Answers, HoldsClient
  <2>4. CASE UpdateStatus(o) /\ sso' # sso
    <3>1. PICK s \in SSOs : s = key[o]
      BY <2>4, StatusUpdate
    <3>2. Names(s, c)'
      <4>1. sso'[s].initialized = TRUE /\ sso'[s].clientID = client[o]
        BY <2>4, <3>1, StatusUpdate
      <4> QED
        BY <1>2, <4>1 DEF Names
    <3>3. sso'[s] # sso[s]
      <4>1. sso[s].rv \in Nat /\ sso \in [SSOs -> SSOObject]
        BY DEF TypeInv, TypeOK, SSOObject
      <4>2. sso' = sso \/ sso'[s].rv = sso[s].rv + 1
        BY <2>4, <3>1, <4>1 DEF UpdateStatus
      <4> QED
        BY <2>4, <4>1, <4>2
    <3>4. ~Contested(s)'
      <4>1. \A p \in Operators : ~Overwrites(p, s)'
        BY <3>3, OverwritesBefore
      <4> QED
        BY <4>1 DEF Contested
    <3> QED
      BY <3>2, <3>4 DEF Secured
  <2>5. CASE UndoClient(o)
    <3>1. CASE Goto(o, "err") /\ Fault
      BY <1>1, <1>2, <1>3, <3>1 DEF Goto, Fault
    <3>2. CASE dex' = [dex EXCEPT ![c] = None] \/ ~Registered(c)
      BY <1>1, <2>5, <3>2
      DEF Registered, UndoClient, Delete, Refused
    <3> QED
      BY <1>2, <2>5, <3>1, <3>2 DEF UndoClient, Delete, Refused
  <2> QED
    BY <1>10, <2>1, <2>3, <2>4, <2>5, HoldingMoves
<1> QED
  BY <1>4, <1>5, <1>6, <1>7, <1>8, <1>9, <1>10, ActorSteps

\* A client that is new in dex belongs to the Handle call that created it,
\* unless the reply was lost.
LEMMA NewClient ==
  ASSUME TypeInv, [Next]_vars, NEW c \in ClientIds,
         Registered(c)', ~Registered(c)
  PROVE  \/ Secured(c)'
         \/ \E o \in Operators :
              /\ CreateClient(o) /\ pc'[o] # pc[o] /\ faults' = faults + 1
<1>1. /\ pc \in [Operators -> Labels] /\ client \in [Operators -> MaybeId]
      /\ dex \in [ClientIds -> Redirects \cup {None}]
  BY DEF TypeInv, TypeOK
<1>2. dex' # dex
  BY DEF Registered
<1>3. ASSUME NEW o \in Operators,
             UpdateClient(o) \/ UndoClient(o) \/ RetireClient(o)
      PROVE  FALSE
  BY <1>1, <1>3 DEF UpdateClient, UndoClient, RetireClient, Delete, Registered
<1>4. PICK o \in Operators : CreateClient(o)
  BY <1>2, <1>3, DeployMoves, UpdateMoves, ExposeMoves, CleanupMoves,
     StartMoves, OtherSteps DEF Next, Handle, FindIngressHosts,
     UpdateStatus, vars, Return, Crash, Panic, Restart, Begin
<1>5. CASE Goto(o, "err") /\ Fault
  BY <1>1, <1>4, <1>5 DEF CreateClient, Goto, Fault
<1>6. ASSUME NEW d \in NewId, dex' = [dex EXCEPT ![d] = FakeURL],
             client' = [client EXCEPT ![o] = d], Reply(o, "CreateSecret")
      PROVE  Secured(c)'
  <2>1. d = c
    BY <1>1, <1>6 DEF Registered, NewId, Unused
  <2>2. client'[o] = c /\ pc'[o] = "CreateSecret"
    BY <1>1, <1>6, <2>1 DEF Reply, Goto
  <2>3. Kind(o)' = "expose"
    BY <1>4 DEF CreateClient, TypeInv, PathOK, InitOnly, Kind, eventVars
  <2> QED
    BY <2>2, <2>3 DEF Secured, Answers, HoldsClient, InFlight
<1> QED
  BY <1>2, <1>4, <1>5, <1>6 DEF CreateClient, Refused

\* Faults are counted one by one.
LEMMA FaultsMove == ASSUME [Next]_vars PROVE faults' \in {faults, faults + 1}
<1>1. ASSUME NEW o \in Operators, Handle(o)
      PROVE  faults' \in {faults, faults + 1}
  <2>1. CASE Deploy(o) \/ Update(o)
    BY <2>1 DEF Deploy, Update, CreateSecret, CreateDeployment,
       CreateService, WaitForService, WaitForPodsWithLabelRunning,
       UpdateSecret, UpdateDeployment, Answered, Reply, Refused, Fault
  <2>2. CASE ExposeSSO(o) \/ CleanupSSO(o)
    BY <2>2 DEF ExposeSSO, CleanupSSO, CreateConfigMap, CleanupConfigMap,
       RunsJob, CreateJob, DeleteStaleJob, WaitForJobComplete, DeleteJob,
       DeleteConfigMap, Answered, Reply, Refused, Fault
  <2>3. CASE CreateClient(o) \/ UpdateClient(o) \/ UndoClient(o)
             \/ RetireClient(o)
    BY <2>3 DEF CreateClient, UpdateClient, UndoClient, RetireClient, Delete,
       Answered, Reply, Refused, Fault
  <2>4. CASE EnsureClusterRoleBinding(o) \/ IsSSOInitialized(o)
             \/ FindIngressHosts(o) \/ UpdateStatus(o)
    BY <2>4 DEF EnsureClusterRoleBinding, IsSSOInitialized,
       FindIngressHosts, UpdateStatus, Answered, Reply, Refused, Fault
  <2> QED
    BY <1>1, <2>1, <2>2, <2>3, <2>4 DEF Handle
<1>2. ASSUME NEW o \in Operators, Return(o) \/ Crash(o) \/ Panic(o)
      PROVE  faults' \in {faults, faults + 1}
  BY <1>2 DEF Return, Crash, Panic, Fault
<1>3. ASSUME NEW s \in SSOs, User(s) \/ Controllers(s)
      PROVE  faults' \in {faults, faults + 1}
  BY <1>3 DEF User, CreateSSO, EditSSO, DeleteSSO, CreateIngress,
     Controllers, StartPod, StopPod, ExposeJobRuns, CleanupJobRuns, JobFails,
     Collect, Fault
<1>4. ASSUME NEW o \in Operators, NEW s \in SSOs, Observe(o, s) \/ Begin(o, s)
      PROVE  faults' \in {faults, faults + 1}
  BY <1>4 DEF Observe, Begin
<1> QED
  BY <1>1, <1>2, <1>3, <1>4 DEF Next, vars

\* How a client that was secured, or not registered, becomes endangered: by a
\* fault of the operator that moves.
Loses(o, c) ==
  \/ IsSSOInitialized(o) /\ key[o] \in SSOs /\ sso[key[o]].clientID = c
  \/ CreateClient(o) /\ ~Registered(c) /\ Registered(c)'
  \/ pc[o] \notin {"IsSSOInitialized", "CreateClient"} /\ client[o] = c

LEMMA LossIsAFault ==
  ASSUME Countable, TypeInv, BehindInv, CreatedInv, [Next]_vars,
         NEW c \in ClientIds, Registered(c)', ~Secured(c)',
         ~Registered(c) \/ Secured(c)
  PROVE  /\ faults' = faults + 1
         /\ \E o \in Operators : pc'[o] # pc[o] /\ Loses(o, c)
<1>1. CASE ~Registered(c)
  BY <1>1, NewClient DEF Loses
<1>2. ASSUME NEW s \in SSOs, Names(s, c), ~Contested(s)
      PROVE  /\ faults' = faults + 1
             /\ \E o \in Operators : pc'[o] # pc[o] /\ Loses(o, c)
  <2>1. ~(Names(s, c)' /\ ~Contested(s)')
    BY DEF Secured
  <2> QED
    BY <1>2, <2>1, UncontestedKept DEF Loses, Names
<1>3. ASSUME NEW o \in Operators, Answers(o, c)
      PROVE  /\ faults' = faults + 1
             /\ \E p \in Operators : pc'[p] # pc[p] /\ Loses(p, c)
  BY <1>3, AnsweringKept DEF Loses
<1> QED
  BY <1>1, <1>2, <1>3 DEF Secured

\* No step endangers two clients.
LEMMA LossIsOne ==
  ASSUME TypeInv, [Next]_vars, NEW c \in ClientIds, NEW d \in ClientIds,
         NEW o \in Operators, pc'[o] # pc[o], Loses(o, c),
         NEW p \in Operators, pc'[p] # pc[p], Loses(p, d)
  PROVE  c = d
<1>1. p = o
  BY ActorSteps DEF handlerVars
<1>2. CASE IsSSOInitialized(o)
  <2>1. pc[o] = "IsSSOInitialized"
    BY <1>2 DEF IsSSOInitialized
  <2> QED
    BY <1>1, <2>1 DEF Loses, CreateClient
<1>3. CASE CreateClient(o)
  <2>1. pc[o] = "CreateClient"
    BY <1>3 DEF CreateClient
  <2>2. /\ ~Registered(c) /\ Registered(c)'
        /\ ~Registered(d) /\ Registered(d)'
    BY <1>1, <2>1 DEF Loses, IsSSOInitialized
  <2>3. dex \in [ClientIds -> Redirects \cup {None}]
    BY DEF TypeInv, TypeOK
  <2>4. dex'[c] # dex[c] /\ dex'[d] # dex[d]
    BY <2>2 DEF Registered
  <2> QED
    BY <1>3, <2>3, <2>4 DEF CreateClient
<1>4. CASE ~IsSSOInitialized(o) /\ ~CreateClient(o)
  BY <1>1, <1>4 DEF Loses
<1> QED
  BY <1>2, <1>3, <1>4

LEMMA InitCost == Init => CostInv
<1> SUFFICES ASSUME Init PROVE CostInv
  OBVIOUS
<1>1. Endangered = {} /\ faults = 0
  BY DEF Init, Endangered, Registered
<1> QED
  BY <1>1, FS_EmptySet DEF CostInv

LEMMA CostStep ==
  ASSUME Countable, TypeInv, BehindInv, CreatedInv, CostInv, [Next]_vars
  PROVE  CostInv'
<1> DEFINE New == Endangered' \ Endangered
<1>1. faults \in Nat /\ faults' \in {faults, faults + 1}
  BY FaultsMove, ConstantsAssumption DEF TypeInv, TypeOK
<1>2. \A c \in New : /\ c \in ClientIds /\ faults' = faults + 1
                     /\ \E o \in Operators : pc'[o] # pc[o] /\ Loses(o, c)
  BY LossIsAFault DEF Endangered
<1>3. IsFiniteSet(Endangered) /\ Cardinality(Endangered) <= faults
      /\ Cardinality(Endangered) \in Nat
  BY FS_CardinalityType DEF CostInv
<1>4. CASE New = {}
  <2>1. Endangered' \subseteq Endangered
    BY <1>4
  <2>2. IsFiniteSet(Endangered') /\ Cardinality(Endangered') <= Cardinality(Endangered)
    BY <1>3, <2>1, FS_Subset
  <2>3. Cardinality(Endangered') \in Nat
    BY <2>2, FS_CardinalityType
  <2>4. Cardinality(Endangered') <= faults'
    BY <1>1, <1>3, <2>2, <2>3
  <2> QED
    BY <2>2, <2>4 DEF CostInv
<1>5. ASSUME NEW x \in New PROVE CostInv'
  <2>1. \A c \in New : c = x
    BY <1>2, LossIsOne
  <2>2. Endangered' \subseteq Endangered \cup {x} /\ x \notin Endangered
    BY <2>1
  <2>3. /\ IsFiniteSet(Endangered \cup {x})
        /\ Cardinality(Endangered \cup {x}) = Cardinality(Endangered) + 1
    BY <1>3, <2>2, FS_AddElement
  <2>4. /\ IsFiniteSet(Endangered')
        /\ Cardinality(Endangered') <= Cardinality(Endangered \cup {x})
    BY <2>2, <2>3, FS_Subset
  <2>5. Cardinality(Endangered') \in Nat /\ faults' = faults + 1
    BY <1>2, <2>4, FS_CardinalityType
  <2>6. Cardinality(Endangered') <= faults'
    BY <1>1, <1>3, <2>3, <2>4, <2>5
  <2> QED
    BY <2>4, <2>6 DEF CostInv
<1> QED
  BY <1>4, <1>5

\* Whatever is refused, lost or killed, a fault leaves at most one client in
\* dex that no status names and no Handle call answers for: for any number of
\* operators that overlap, if the upstreams keep their ports and no SSO is
\* created twice.
THEOREM FaultsCostOneClient ==
  ASSUME Countable
  PROVE  Spec => []OneClientPerFault
<1> DEFINE Inv == TypeInv /\ BehindInv /\ CreatedInv /\ CostInv
<1>1. Init => Inv
  BY InitType, InitBehind, InitCreated, InitCost
<1>2. Inv /\ [Next]_vars => Inv'
  BY TypeStep, BehindStep, CreatedStep, CostStep
<1>3. Inv => OneClientPerFault
  <2> SUFFICES ASSUME Inv PROVE OneClientPerFault
    OBVIOUS
  <2>1. /\ IsFiniteSet(Untraced)
        /\ Cardinality(Untraced) <= Cardinality(Endangered)
    BY UntracedIsEndangered, FS_Subset DEF CostInv
  <2>2. Cardinality(Untraced) \in Nat /\ Cardinality(Endangered) \in Nat
        /\ faults \in Nat
    BY <2>1, FS_CardinalityType, ConstantsAssumption
    DEF CostInv, TypeInv, TypeOK
  <2> QED
    BY <2>1, <2>2 DEF CostInv, OneClientPerFault
<1> QED
  BY <1>1, <1>2, <1>3, PTL DEF Spec
=============================================================================
