------------------------------ MODULE Startup ------------------------------
(***************************************************************************)
(* main.go (Run), pkg/operator/operator.go (NewHandler),                   *)
(* pkg/operator/config.go and pkg/kubernetes/crds.go: how operator         *)
(* processes start, register the SSO resource definition and agree on the  *)
(* key that encrypts the session cookies of all proxies.  A startup step   *)
(* that fails exits the process, which Kubernetes starts again.            *)
(***************************************************************************)
EXTENDS Naturals

CONSTANTS
  Operators,     \* operator processes; two overlap during a rolling upgrade
  Keys,          \* bound: cookie keys that may be generated
  None,          \* no secret, or no key chosen
  NoKey,         \* a secret without the field ssoCookieKey
  Leftovers,     \* what the secret may hold before the first start
  FailingCalls,  \* the calls that may be refused
  LostReplies,   \* the calls whose reply may be lost
  MaxFaults      \* bound: refusals, lost replies and crashes in a behaviour

ASSUME StartupAssumption ==
  /\ Keys \subseteq Nat
  /\ None \notin Keys /\ NoKey \notin Keys /\ None # NoKey
  /\ Leftovers \subseteq Keys \cup {None, NoKey}
  /\ MaxFaults \in Nat

VARIABLES
  certs,   \* the certificate files of the dex client are there
  crd,     \* the SSO resource definition is registered
  secret,  \* the key in "operator-secret"
  pc,      \* the call each operator makes next
  cookie,  \* operatorConfig.ssoCookieKey of a running operator
  proxies, \* the keys of the proxies that were ever configured
  reset,   \* history: some start found the secret unusable and deletes it
  faults   \* faults so far

vars == <<certs, crd, secret, pc, cookie, proxies, reset, faults>>

Steps == {"Validate", "NewClient", "GetCRD", "CreateCRD", "Watch",
          "GetSecret", "DeleteSecret", "StoreSecret", "running"}

\* os.Exit(2) and a restart of the container begin at the first step.
Exit == "Validate"

\* The chart installs the resource definition, but the operator may also be
\* started without the chart, or before the definition is established.
Init ==
  /\ certs = FALSE /\ crd \in BOOLEAN
  /\ secret \in Leftovers
  /\ pc = [o \in Operators |-> Exit]
  /\ cookie = [o \in Operators |-> None]
  /\ proxies = {}
  /\ reset = FALSE
  /\ faults = 0

Goto(o, step) == pc' = [pc EXCEPT ![o] = step]
Reply(o, step) == Goto(o, step) /\ UNCHANGED faults
Fault == faults < MaxFaults /\ faults' = faults + 1
Refused(o, step) == pc[o] \in FailingCalls /\ Fault /\ Goto(o, step)
Lost(o, step) == pc[o] \in LostReplies /\ Fault /\ Goto(o, step)

----------------------------------------------------------------------------
\* The files that the options name may not have been issued yet.
Validate(o) ==
  /\ pc[o] = "Validate"
  /\ Reply(o, IF certs THEN "NewClient" ELSE Exit)
  /\ UNCHANGED <<certs, proxies, crd, secret, cookie, reset>>

\* Read the certificates and dial dex.
NewClient(o) ==
  /\ pc[o] = "NewClient"
  /\ Reply(o, "GetCRD") \/ Refused(o, Exit)
  /\ UNCHANGED <<certs, proxies, crd, secret, cookie, reset>>

\* Mutant: the definition is created without looking whether it exists.
GetCRDSkipped(o) ==
  /\ pc[o] = "GetCRD" /\ Reply(o, "CreateCRD")
  /\ UNCHANGED <<certs, proxies, crd, secret, cookie, reset>>

\* Any error of Get is taken for a missing definition.
GetCRD(o) ==
  /\ pc[o] = "GetCRD"
  /\ \/ Reply(o, IF crd THEN "Watch" ELSE "CreateCRD")
     \/ Refused(o, "CreateCRD")
  /\ UNCHANGED <<certs, proxies, crd, secret, cookie, reset>>

\* A definition that exists by now is an error.
CreateCRD(o) ==
  /\ pc[o] = "CreateCRD"
  /\ \/ /\ crd' = TRUE
        /\ Reply(o, IF crd THEN Exit ELSE "Watch") \/ Lost(o, Exit)
     \/ /\ Refused(o, Exit)
        /\ UNCHANGED crd
  /\ UNCHANGED <<certs, proxies, secret, cookie, reset>>

\* sdk.Watch panics unless it discovers the resource.
Watch(o) ==
  /\ pc[o] = "Watch"
  /\ Reply(o, IF crd THEN "GetSecret" ELSE Exit) \/ Refused(o, Exit)
  /\ UNCHANGED <<certs, proxies, crd, secret, cookie, reset>>

\* Mutant: the field is read without asking whether it is there.
GetSecretUnchecked(o) ==
  /\ pc[o] = "GetSecret"
  /\ \/ /\ secret # None
        /\ cookie' = [cookie EXCEPT ![o] = secret]
        /\ Reply(o, "running")
     \/ /\ secret = None
        /\ Reply(o, "StoreSecret")
        /\ UNCHANGED cookie
  /\ UNCHANGED <<certs, proxies, crd, secret, reset>>

\* A key that is there is used; a secret without it, and one that cannot be
\* read, are deleted first.
GetSecret(o) ==
  /\ pc[o] = "GetSecret"
  /\ \/ /\ secret \in Keys
        /\ cookie' = [cookie EXCEPT ![o] = secret]
        /\ Reply(o, "running")
        /\ UNCHANGED reset
     \/ /\ secret = None
        /\ Reply(o, "StoreSecret")
        /\ UNCHANGED <<cookie, reset>>
     \/ /\ \/ secret = NoKey /\ Reply(o, "DeleteSecret")
           \/ Refused(o, "DeleteSecret")
        /\ reset' = TRUE
        /\ UNCHANGED cookie
  /\ UNCHANGED <<certs, proxies, crd, secret>>

\* Whether this succeeds or not, a new key is generated next.
DeleteSecret(o) ==
  /\ pc[o] = "DeleteSecret"
  /\ \/ /\ secret' = None
        /\ Reply(o, "StoreSecret")
     \/ /\ Refused(o, "StoreSecret")
        /\ UNCHANGED secret
  /\ UNCHANGED <<certs, proxies, crd, cookie, reset>>

\* A random key: one that is neither stored nor in use; take the least.
Unused == {k \in Keys : /\ k # secret /\ k \notin proxies
                        /\ \A o \in Operators : cookie[o] # k}
Fresh  == {k \in Unused : \A j \in Unused : k <= j}

\* Mutant: a secret that exists is taken for a success, as elsewhere.
StoreSecretExisting(o) ==
  /\ pc[o] = "StoreSecret"
  /\ \E k \in Fresh :
       /\ secret' = IF secret = None THEN k ELSE secret
       /\ cookie' = [cookie EXCEPT ![o] = k]
       /\ Reply(o, "running")
  /\ UNCHANGED <<certs, proxies, crd, reset>>

\* Generate a key and create the secret with it; one that exists is an error.
StoreSecret(o) ==
  /\ pc[o] = "StoreSecret"
  /\ \/ \E k \in Fresh :
          /\ secret = None
          /\ secret' = k
          /\ \/ /\ Reply(o, "running")
                /\ cookie' = [cookie EXCEPT ![o] = k]
             \/ Lost(o, Exit) /\ UNCHANGED cookie
     \/ /\ secret # None
        /\ Reply(o, Exit)
        /\ UNCHANGED <<secret, cookie>>
     \/ /\ Refused(o, Exit)
        /\ UNCHANGED <<secret, cookie>>
  /\ UNCHANGED <<certs, proxies, crd, reset>>

\* A process dies at any point and starts again.
Crash(o) ==
  /\ pc[o] # Exit /\ "Run" \in FailingCalls /\ Fault
  /\ Goto(o, Exit)
  /\ cookie' = [cookie EXCEPT ![o] = None]
  /\ UNCHANGED <<certs, proxies, crd, secret, reset>>

\* sdk.Run handles events until the process dies: proxies are configured with
\* the key of this process.
Run(o) ==
  /\ pc[o] = "running"
  /\ proxies' = proxies \cup {cookie[o]}
  /\ UNCHANGED <<certs, crd, secret, pc, cookie, reset, faults>>

Start(o) ==
  \/ Validate(o)
  \/ NewClient(o) \/ GetCRD(o) \/ CreateCRD(o) \/ Watch(o)
  \/ GetSecret(o) \/ DeleteSecret(o) \/ StoreSecret(o)

\* The certificates of the chart are issued and mounted.
IssueCerts ==
  /\ ~certs /\ certs' = TRUE
  /\ UNCHANGED <<crd, secret, pc, cookie, proxies, reset, faults>>

Next == IssueCerts \/ \E o \in Operators : Start(o) \/ Run(o) \/ Crash(o)
Spec == Init /\ [][Next]_vars

\* A process that is started runs on, Kubernetes restarts one that exited, and
\* the certificates come in the end.
FairSpec == Spec /\ WF_vars(IssueCerts) /\ \A o \in Operators : WF_vars(Start(o))

----------------------------------------------------------------------------
\* Every variable holds a value of its type.
TypeOK ==
  /\ certs \in BOOLEAN /\ crd \in BOOLEAN
  /\ secret \in Keys \cup {None, NoKey}
  /\ pc \in [Operators -> Steps]
  /\ cookie \in [Operators -> Keys \cup {None}]
  /\ proxies \subseteq Keys
  /\ reset \in BOOLEAN
  /\ faults \in 0 .. MaxFaults

\* The operators that run use the key that is stored, and so one key: a proxy
\* configured by one accepts the cookies of a proxy configured by another,
\* and the key outlives a restart.  All bets are off once a start could not
\* read the key and deleted the secret under the others.
UsesStoredKey(o) == pc[o] = "running" => cookie[o] = secret
KeysAgree == ~reset => \A o \in Operators : UsesStoredKey(o)

\* The proxies that any operator ever configured have the stored key, and so
\* accept each other's cookies: single sign-on survives restarts and upgrades
\* of the operator.
ProxiesAgree == ~reset => proxies \subseteq {secret}

\* Every operator process eventually runs for good.
EventuallyRunning == \A o \in Operators : <>[](pc[o] = "running")
=============================================================================
